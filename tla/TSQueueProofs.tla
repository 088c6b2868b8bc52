--------------------------- MODULE TSQueueProofs ---------------------------
(***************************************************************************)
(* CTSQueue for any number of threads, each of which pushes and pops as       *)
(* often as it likes: nothing is lost or taken twice, no node is used by two   *)
(* at a time, and but for the recycled tail that FifoOrder is about the       *)
(* queue is first in, first out.                                           *)
(*                                                                         *)
(* The variables do not tell where a chain of nodes began that has lost its    *)
(* head since, so the invariant speaks of a history g that they do not hold.   *)
(* Every node is on a string, or elsewhere: the strings are the queue and, for *)
(* each thread with a node to link, what hangs on that node, since a push that  *)
(* read a recycled tail links its node to one that is not linked yet.  g says   *)
(* of each node its string and position, of each string the node at a          *)
(* position, also at those that the head has left behind.  A position in the   *)
(* queue is the sequence that head or tail has when it gets there.            *)
(*                                                                         *)
(* A string hangs together because a thread is about to link only to strings   *)
(* of threads that got their node later (Births), so none leads to itself.   *)
(***************************************************************************)
EXTENDS TSQueue, FiniteSetTheorems, SequenceTheorems, WellFoundedInduction, TLAPS

\* The queue, and the nodes on no string, are named as no thread is.
Queue     == CHOOSE q : q \notin Threads
Elsewhere == CHOOSE e : e \notin Threads \cup {Queue}
Strings   == Threads \cup {Queue}

\* Where a string begins: the dummy, or the node of the thread.
Low(s) == IF s = Queue THEN head.seq ELSE 0

\* Threads with a node that is not linked, with a node at all, and between swap and free.
Unlinked(t) == thread[t].at \in {"tail sequence", "tail node", "link", "help", "help tail"}
Pushing(t)  == Unlinked(t) \/ At(t, "finish")
Takers      == {t \in Threads : At(t, "take")}

Free   == Range(freeNodes)
Pushed == {i \in Items : i[2] <= pushed[i[1]]}

\* The nodes that hold an item that has been pushed and not popped.
Live(g) == {n \in Nodes : g.str[n] # Elsewhere} \ {head.node}

ThreadState ==
  [at : Places, node : Nodes \cup {Null}, link : [node : Nodes \cup {Null}, seq : Nat],
   next : Nodes \cup {End, Null}, tailSeq : Nat, elem : Items \cup {Nothing}, empty : BOOLEAN]

TypeInv ==
  /\ head \in [node : Nodes, seq : Nat] /\ tail \in [node : Nodes, seq : Nat]
  /\ next \in [Nodes -> Nodes \cup {End, Null}]
  /\ elem \in [Nodes -> Items \cup {Nothing}]
  /\ freeNodes \in Seq(Nodes) /\ made \in 1..Cardinality(Nodes)
  /\ count \in Int
  /\ thread \in [Threads -> ThreadState]
  /\ pushed \in [Threads -> Nat]
  /\ popped \subseteq Items
  /\ blind \in BOOLEAN

\* str, pos: string and position of a node.  spot, hi: the nodes of a string and its last
\* position, -1 when it has none.  born, clock: when a thread got its node.
GhostType(g) ==
  /\ g.str \in [Nodes -> Strings \cup {Elsewhere}]
  /\ g.pos \in [Nodes -> Nat]
  /\ g.spot \in [Strings -> [Nat -> Nodes]]
  /\ g.hi \in [Strings -> Int]
  /\ g.born \in [Threads -> Nat]
  /\ g.clock \in Nat

\* Nodes and positions of a string correspond.
Chains(g) ==
  /\ \A n \in Nodes : g.str[n] # Elsewhere =>
       /\ Low(g.str[n]) <= g.pos[n] /\ g.pos[n] <= g.hi[g.str[n]]
       /\ g.spot[g.str[n]][g.pos[n]] = n
  /\ \A s \in Strings : \A p \in Nat :
       Low(s) <= p /\ p <= g.hi[s] => g.str[g.spot[s][p]] = s /\ g.pos[g.spot[s][p]] = p

\* pNext leads along the string, to End() at its end; no node that is elsewhere has End().
Linked(g) ==
  \A n \in Nodes :
    IF g.str[n] = Elsewhere THEN next[n] # End
    ELSE next[n] = IF g.pos[n] = g.hi[g.str[n]] THEN End
                   ELSE g.spot[g.str[n]][g.pos[n] + 1]

\* m_Head and m_Tail are in the queue, at their sequences.
Ends(g) ==
  /\ g.str[head.node] = Queue /\ g.pos[head.node] = head.seq
  /\ g.str[tail.node] = Queue /\ g.pos[tail.node] = tail.seq

\* A thread has a string while its node is not linked; its node is the first.
Roots(g) ==
  \A t \in Threads :
    IF Unlinked(t) THEN 0 <= g.hi[t] /\ g.spot[t][0] = thread[t].node
                   ELSE g.hi[t] = -1

\* What is elsewhere is not made yet, free, or about to be freed by the thread that popped it.
Spare(g) ==
  /\ \A n \in Nodes : g.str[n] = Elsewhere <=>
       \/ made <= n
       \/ n \in Free
       \/ \E t \in Takers : thread[t].link.node = n
  /\ \A n \in Free : n < made
  /\ \A t \in Takers : /\ thread[t].link.node \in Nodes \ Free
                       /\ thread[t].link.node < made
  /\ \A t, u \in Takers : thread[t].link.node = thread[u].link.node => t = u
  /\ IsInjective(freeNodes)

\* A thread that is about to link to the string of another one got its node earlier.
Births(g) ==
  /\ \A t \in Threads : g.born[t] <= g.clock
  /\ \A t, u \in Threads : At(t, "link") /\ g.str[thread[t].link.node] = u => g.born[t] < g.born[u]

\* The strings hold each item that has been pushed and not popped once, and no other.
Contained(g) ==
  /\ \A n \in Live(g) : elem[n] \in Pushed \ popped
  /\ \A n, m \in Live(g) : elem[n] = elem[m] => n = m
  /\ \A i \in Pushed \ popped : \E n \in Live(g) : elem[n] = i
  /\ popped \subseteq Pushed
  /\ \A t \in Threads : Unlinked(t) => elem[thread[t].node] = <<t, pushed[t]>>
  /\ \A t \in Threads : pushed[t] <= MaxItems[t] /\ (Pushing(t) => 1 <= pushed[t])

\* Two threads that have popped an item have not popped the same.
Taken ==
  /\ \A t \in Takers : thread[t].elem \in popped
  /\ \A t, u \in Takers : thread[t].elem = thread[u].elem => t = u

\* Each swap of the head pops one item; m_Count lags by the calls that have not returned.
Counted ==
  /\ Cardinality(popped) = head.seq
  /\ count = Cardinality(Returned) - Cardinality(popped) + Cardinality(Takers)

\* What a push knows.  Its oldTail may mix the sequence of one tail with the node of a later one;
\* only when the tail still has that sequence does the node matter.
PushPlace(t, g) ==
  /\ thread[t].node \in Nodes <=> Pushing(t)
  /\ At(t, "tail node") => thread[t].link.seq <= tail.seq
  /\ thread[t].at \in {"link", "help", "help tail", "finish"} =>
       /\ thread[t].link.node \in Nodes
       /\ thread[t].link.seq <= tail.seq
       /\ thread[t].link.seq = tail.seq => thread[t].link.node = tail.node
  /\ thread[t].at \in {"help", "help tail", "finish"} =>
       (thread[t].link.seq = tail.seq => tail.seq < g.hi[Queue])
  /\ At(t, "help tail") =>
       (thread[t].link.seq = tail.seq => thread[t].next = g.spot[Queue][tail.seq + 1])
  /\ At(t, "finish") =>
       (thread[t].link.seq = tail.seq => thread[t].node = g.spot[Queue][tail.seq + 1])

\* While the head is the one that Pop read, its pNext is the next node, unless it was End().
NextOfHead(t, g) ==
  thread[t].link.seq = head.seq =>
    IF thread[t].next = End THEN thread[t].empty
    ELSE head.seq < g.hi[Queue] /\ thread[t].next = g.spot[Queue][head.seq + 1]

\* What a pop knows, at each place, of the head, the tail and the item that it has read.
PopPlace(t, g) ==
  /\ thread[t].at \in {"head node", "pop tail sequence", "next", "check", "tail", "pop help",
                       "elem", "head"} => thread[t].link.seq <= head.seq
  /\ thread[t].at \in {"pop tail sequence", "next", "check", "tail", "pop help", "elem", "head"} =>
       /\ thread[t].link.node \in Nodes
       /\ thread[t].link.seq = head.seq => thread[t].link.node = head.node
  /\ thread[t].at \in {"next", "check", "tail", "pop help"} => thread[t].tailSeq <= tail.seq
  /\ thread[t].at \in {"check", "tail", "elem", "head"} => NextOfHead(t, g)
  /\ At(t, "tail") => thread[t].next # Null /\ (thread[t].next = End => thread[t].empty)
  /\ thread[t].at \in {"tail", "pop help"} =>
       (thread[t].tailSeq = tail.seq /\ thread[t].link.node = tail.node /\ thread[t].next # End =>
          tail.seq < g.hi[Queue] /\ thread[t].next = g.spot[Queue][tail.seq + 1])
  /\ thread[t].at \in {"pop help", "elem", "head"} => thread[t].next \in Nodes
  /\ thread[t].at \in {"elem", "head"} => (thread[t].link.seq = head.seq => head.seq < tail.seq)
  /\ At(t, "head") =>
       (thread[t].link.seq = head.seq => thread[t].elem = elem[thread[t].next])

Place(t, g) == PushPlace(t, g) /\ PopPlace(t, g)

\* Unless a push was blind, no node hangs on one that is not linked, and the queue holds the
\* items of each thread in the order in which it pushed them.
InOrder(g) ==
  blind \/
  /\ \A t \in Threads : g.hi[t] <= 0
  /\ \A n, m \in Nodes :
       g.str[n] = Queue /\ g.str[m] = Queue /\ n # head.node /\ m # head.node
         /\ elem[n][1] = elem[m][1] /\ elem[n][2] < elem[m][2] => g.pos[n] < g.pos[m]
  /\ FifoOrder

Shape(g) == GhostType(g) /\ Chains(g) /\ Linked(g) /\ Ends(g) /\ Roots(g) /\ Spare(g) /\ Births(g)
Holds(g) == Shape(g) /\ Contained(g) /\ (\A t \in Threads : Place(t, g)) /\ InOrder(g)
Good(g)  == TypeInv /\ Taken /\ Counted /\ Holds(g)

-----------------------------------------------------------------------------
(* Constants.                                                              *)

\* The names of the queue and of elsewhere are no thread's.
LEMMA Names == Queue \notin Threads /\ Elsewhere \notin Strings
BY NoSetContainsEverything DEF Queue, Elsewhere, Strings

\* An item is a thread and a number up to its MaxItems.
LEMMA ItemsAre ==
  /\ \A i \in Items : i[1] \in Threads /\ i[2] \in Nat /\ i = <<i[1], i[2]>>
                      /\ 1 <= i[2] /\ i[2] <= MaxItems[i[1]]
  /\ \A t \in Threads : \A k \in Nat : 1 <= k /\ k <= MaxItems[t] => <<t, k>> \in Items
  /\ Nothing \notin Items
<1>1. \A t \in Threads : MaxItems[t] \in Nat
  BY TSQueueAssumption
<1>2. \A i \in Items : \E t \in Threads : \E k \in 1 .. MaxItems[t] : i = <<t, k>>
  BY DEF Items
<1>3. \A i \in Items : i[1] \in Threads /\ i[2] \in 1 .. MaxItems[i[1]] /\ i = <<i[1], i[2]>>
  BY <1>2
<1>4. \A t \in Threads : \A k \in 1 .. MaxItems[t] : <<t, k>> \in Items
  BY DEF Items
<1>5. \A t, k : <<t, k>> # Nothing
  BY DEF Nothing
<1> QED BY <1>1, <1>3, <1>4, <1>5

\* There are finitely many items, so finitely many nodes.
LEMMA ItemsFinite == IsFiniteSet(Items) /\ Cardinality(Items) \in Nat
<1> DEFINE S == {{t} \X (1 .. MaxItems[t]) : t \in Threads}
           f == [t \in Threads |-> {t} \X (1 .. MaxItems[t])]
<1>1. f \in Surjection(Threads, S)
  BY DEF Surjection
<1>2. IsFiniteSet(S)
  BY <1>1, FS_Surjection, TSQueueAssumption
<1>3. \A T \in S : IsFiniteSet(T)
  <2> SUFFICES ASSUME NEW t \in Threads PROVE IsFiniteSet({t} \X (1 .. MaxItems[t]))
    OBVIOUS
  <2>1. 1 \in Int /\ MaxItems[t] \in Int
    BY TSQueueAssumption
  <2>2. IsFiniteSet({t}) /\ IsFiniteSet(1 .. MaxItems[t])
    BY <2>1, FS_Singleton, FS_Interval
  <2> QED BY <2>2, FS_Product
<1>4. IsFiniteSet(UNION S)
  BY <1>2, <1>3, FS_UNION
<1> QED BY <1>4, FS_CardinalityType DEF Items

\* The nodes are the numbers up to that of the items; End and Null are none.
LEMMA NodesAre ==
  /\ Nodes \subseteq Nat /\ 0 \in Nodes /\ End \notin Nodes /\ Null \notin Nodes /\ End # Null
  /\ \A n \in Nat : n \in Nodes <=> n <= Cardinality(Items)
  /\ IsFiniteSet(Nodes) /\ Cardinality(Nodes) = Cardinality(Items) + 1
<1>1. PICK c \in Nat : c = Cardinality(Items)
  BY ItemsFinite
<1>2. Nodes = 0 .. c
  BY <1>1 DEF Nodes
<1>3. IsFiniteSet(0 .. c) /\ Cardinality(0 .. c) = c + 1
  BY FS_Interval
<1> QED BY <1>1, <1>2, <1>3 DEF End, Null

\* Every set of natural numbers that is not empty has a least one.
LEMMA Least ==
  ASSUME NEW T, T \subseteq Nat, T # {} PROVE \E x \in T : \A y \in T : x <= y
<1> DEFINE R == {p \in Nat \X Nat : p[1] < p[2]}
<1>1. IsWellFoundedOn(R, Nat)
  BY NatLessThanWellFounded DEF OpToRel
<1>2. PICK x \in T : \A y \in T : ~(<<y, x>> \in R)
  <2> HIDE DEF R
  <2> QED BY <1>1, WFMin
<1>3. \A y \in T : ~(y < x)
  BY <1>2
<1> QED BY <1>3

-----------------------------------------------------------------------------
(* What a thread finds from a node on.                                      *)

\* The walk of After, as an equation for it.
Walk(w, n) ==
  [k \in Nodes |-> IF k = 0 THEN n ELSE IF w[k - 1] \in Nodes THEN next[w[k - 1]] ELSE End]

\* After, whose walk is a function, by the nodes that the walk visits.
LEMMA AfterWalk ==
  ASSUME NEW n, NEW x, x = Walk(x, n) PROVE After(n) = {x[k] : k \in Nodes} \cap Nodes
<1>1. PICK w : w = CHOOSE y : y = Walk(y, n)
  OBVIOUS
<1>2. After(n) = {w[k] : k \in Nodes} \cap Nodes
  BY <1>1 DEF After, Walk
<1>3. w = Walk(w, n)
  BY <1>1
<1>4. ASSUME NEW k \in Nodes PROVE w[k] = x[k]
  <2> DEFINE T == {j \in Nodes : w[j] # x[j]}
  <2>1. SUFFICES ASSUME T # {} PROVE FALSE
    BY <1>4
  <2>2. PICK j \in T : \A i \in T : j <= i
    BY <2>1, Least, NodesAre
  <2>3. j \in Nodes /\ j \in Nat /\ w[j] # x[j]
    BY <2>2, NodesAre
  <2>4. w[j] = Walk(w, n)[j] /\ x[j] = Walk(x, n)[j]
    BY <1>3
  <2>5. j # 0
    BY <2>3, <2>4, NodesAre DEF Walk
  <2>6. j - 1 \in Nodes /\ w[j - 1] = x[j - 1]
    BY <2>2, <2>3, <2>5, NodesAre, ItemsFinite
  <2> QED BY <2>3, <2>4, <2>5, <2>6 DEF Walk
<1> QED BY <1>2, <1>4

\* A walk along a chain that ends with End() finds its nodes and no others.
LEMMA AfterChain ==
  ASSUME NEW n \in Nodes, NEW last \in Nodes, NEW f \in [Nat -> Nodes], f[0] = n,
         \A k \in Nat : k <= last => next[f[k]] = IF k = last THEN End ELSE f[k + 1]
  PROVE  After(n) = {f[k] : k \in 0 .. last}
<1> DEFINE x == [k \in Nodes |-> IF k <= last THEN f[k] ELSE End]
<1>1. x = Walk(x, n)
  <2> SUFFICES ASSUME NEW k \in Nodes PROVE x[k] = Walk(x, n)[k]
    BY DEF Walk
  <2>1. k \in Nat /\ last \in Nat
    BY NodesAre
  <2>2. CASE k = 0
    BY <2>1, <2>2 DEF Walk
  <2>3. CASE k # 0
    <3>1. k - 1 \in Nat /\ k - 1 \in Nodes
      BY <2>1, <2>3, NodesAre, ItemsFinite
    <3>2. Walk(x, n)[k] = IF x[k - 1] \in Nodes THEN next[x[k - 1]] ELSE End
      BY <2>3 DEF Walk
    <3>3. CASE k - 1 <= last
      BY <2>1, <2>3, <3>1, <3>2, <3>3
    <3>4. CASE ~(k - 1 <= last)
      BY <2>1, <2>3, <3>1, <3>2, <3>4, NodesAre
    <3> QED BY <3>3, <3>4
  <2> QED BY <2>2, <2>3
<1>2. After(n) = {x[k] : k \in Nodes} \cap Nodes
  <2> HIDE DEF x
  <2> QED BY <1>1, AfterWalk
<1>3. \A k \in 0 .. last : k \in Nodes /\ x[k] = f[k] /\ f[k] \in Nodes
  BY NodesAre, ItemsFinite
<1>4. \A k \in Nodes : x[k] \in Nodes => k \in 0 .. last /\ x[k] = f[k]
  BY NodesAre
<1> HIDE DEF x
<1> QED BY <1>2, <1>3, <1>4

\* A chain of different nodes is no longer than the walk of After.
LEMMA ChainFits ==
  ASSUME NEW c \in Nat, NEW f \in [Nat -> Nodes], \A i, j \in 0 .. c : f[i] = f[j] => i = j
  PROVE  c \in Nodes
<1> DEFINE h == [i \in 0 .. c |-> f[i]]
<1>1. h \in Injection(0 .. c, Nodes)
  BY DEF Injection, IsInjective
<1>2. Cardinality(0 .. c) <= Cardinality(Nodes)
  BY <1>1, NodesAre, FS_Injection
<1>3. Cardinality(0 .. c) = c + 1
  BY FS_Interval
<1> QED BY <1>2, <1>3, NodesAre, ItemsFinite

\* A string is what is found from its first node on.
LEMMA StringAfter ==
  ASSUME TypeInv, NEW g, GhostType(g), Chains(g), Linked(g),
         NEW s \in Strings, Low(s) <= g.hi[s]
  PROVE  After(g.spot[s][Low(s)]) = {n \in Nodes : g.str[n] = s}
<1>1. PICK a \in Nat : a = Low(s)
  BY DEF Low, TypeInv
<1>2. PICK b \in Nat : a + b = g.hi[s]
  <2>1. g.hi[s] \in Int
    BY DEF GhostType
  <2>2. g.hi[s] - a \in Nat /\ a + (g.hi[s] - a) = g.hi[s]
    BY <1>1, <2>1
  <2> QED BY <2>2
<1>3. PICK q \in [Nat -> Nodes] : q = g.spot[s]
  BY DEF GhostType
<1>4. PICK f \in [Nat -> Nodes] : \A k \in Nat : f[k] = q[a + k]
  <2>1. [k \in Nat |-> q[a + k]] \in [Nat -> Nodes]
    BY <1>1, <1>3
  <2> QED BY <2>1
<1>5. \A k \in Nat : k <= b => g.str[f[k]] = s /\ g.pos[f[k]] = a + k
  BY <1>1, <1>2, <1>3, <1>4 DEF Chains
<1>6. \A n \in Nodes : g.str[n] = s => \E k \in 0 .. b : f[k] = n
  <2> SUFFICES ASSUME NEW n \in Nodes, g.str[n] = s PROVE \E k \in 0 .. b : f[k] = n
    OBVIOUS
  <2>1. s # Elsewhere
    BY Names
  <2>2. g.pos[n] \in Nat /\ a <= g.pos[n] /\ g.pos[n] <= a + b /\ q[g.pos[n]] = n
    BY <1>1, <1>2, <1>3, <2>1 DEF Chains, GhostType
  <2>3. g.pos[n] - a \in 0 .. b /\ a + (g.pos[n] - a) = g.pos[n]
    BY <2>2
  <2> QED BY <2>2, <2>3, <1>4
<1>7. b \in Nodes
  <2>1. \A i, j \in 0 .. b : f[i] = f[j] => i = j
    BY <1>5
  <2> QED BY <2>1, ChainFits
<1>8. \A k \in Nat : k <= b => next[f[k]] = IF k = b THEN End ELSE f[k + 1]
  <2> SUFFICES ASSUME NEW k \in Nat, k <= b PROVE next[f[k]] = IF k = b THEN End ELSE f[k + 1]
    OBVIOUS
  <2>1. f[k] \in Nodes /\ g.str[f[k]] = s /\ g.pos[f[k]] = a + k /\ s # Elsewhere
    BY <1>5, Names
  <2>2. next[f[k]] = IF a + k = g.hi[s] THEN End ELSE q[a + k + 1]
    BY <2>1, <1>3 DEF Linked
  <2> QED BY <2>2, <1>1, <1>2, <1>4
<1>9. f[0] = g.spot[s][Low(s)] /\ f[0] \in Nodes
  BY <1>1, <1>3, <1>4
<1>10. After(f[0]) = {f[k] : k \in 0 .. b}
  BY <1>7, <1>8, <1>9, AfterChain
<1>11. \A k \in 0 .. b : g.str[f[k]] = s /\ f[k] \in Nodes
  BY <1>5
<1> QED BY <1>6, <1>9, <1>10, <1>11

\* The nodes that the head leads to are those of the queue; the tail is not behind the head.
LEMMA QueueNodes ==
  ASSUME TypeInv, NEW g, GhostType(g), Chains(g), Linked(g), Ends(g)
  PROVE  /\ InQueue = {n \in Nodes : g.str[n] = Queue}
         /\ head.seq <= g.hi[Queue] /\ tail.seq <= g.hi[Queue] /\ head.seq <= tail.seq
         /\ g.spot[Queue][head.seq] = head.node /\ g.spot[Queue][tail.seq] = tail.node
         /\ tail.seq = head.seq => tail.node = head.node
         /\ tail.node = head.node => tail.seq = head.seq
<1>1. Queue \in Strings /\ Queue # Elsewhere /\ Low(Queue) = head.seq
  BY Names DEF Strings, Low
<1>2. head.node \in Nodes /\ tail.node \in Nodes /\ head.seq \in Nat /\ tail.seq \in Nat
  BY DEF TypeInv
<1>3. /\ head.seq <= g.hi[Queue] /\ tail.seq <= g.hi[Queue] /\ head.seq <= tail.seq
      /\ g.spot[Queue][head.seq] = head.node /\ g.spot[Queue][tail.seq] = tail.node
  BY <1>1, <1>2 DEF Chains, Ends
<1>4. InQueue = {n \in Nodes : g.str[n] = Queue}
  BY <1>1, <1>3, StringAfter DEF InQueue
<1> QED BY <1>3, <1>4 DEF Ends

-----------------------------------------------------------------------------
(* What a step leaves as it is.                                            *)

\* The ends of the queue have moved on, or are where they were, and what lay between is still there.
Advance(g, h) ==
  /\ head.seq <= head'.seq /\ (head'.seq = head.seq => head' = head)
  /\ tail.seq <= tail'.seq /\ (tail'.seq = tail.seq => tail' = tail)
  /\ g.hi[Queue] <= h.hi[Queue]
  /\ \A p \in Nat : p <= g.hi[Queue] => h.spot[Queue][p] = g.spot[Queue][p]
  /\ head.seq < g.hi[Queue] /\ head'.seq = head.seq =>
       elem'[g.spot[Queue][head.seq + 1]] = elem[g.spot[Queue][head.seq + 1]]

\* What another thread knows stays true when the ends advance.
LEMMA OtherPlaces ==
  ASSUME TypeInv, TypeInv', NEW g, NEW h, GhostType(g), GhostType(h), Advance(g, h),
         NEW u \in Threads, thread'[u] = thread[u], Place(u, g)
  PROVE  Place(u, h)'
<1>1. /\ head.seq \in Nat /\ tail.seq \in Nat /\ head'.seq \in Nat /\ tail'.seq \in Nat
      /\ thread[u] \in ThreadState
      /\ g.hi[Queue] \in Int /\ h.hi[Queue] \in Int
  BY DEF TypeInv, GhostType, Strings
<1>2. thread[u].link.seq \in Nat /\ thread[u].tailSeq \in Nat
  BY <1>1 DEF ThreadState
<1>3. /\ head.seq < g.hi[Queue] => /\ head.seq < h.hi[Queue]
                                   /\ h.spot[Queue][head.seq + 1] = g.spot[Queue][head.seq + 1]
      /\ tail.seq < g.hi[Queue] => /\ tail.seq < h.hi[Queue]
                                   /\ h.spot[Queue][tail.seq + 1] = g.spot[Queue][tail.seq + 1]
  <2>1. head.seq + 1 \in Nat /\ tail.seq + 1 \in Nat
    BY <1>1
  <2> QED BY <1>1, <2>1 DEF Advance
<1>4. \A q \in Nat : /\ q <= head.seq => q <= head'.seq /\ (q = head'.seq => q = head.seq /\ head' = head)
                     /\ q <= tail.seq => q <= tail'.seq /\ (q = tail'.seq => q = tail.seq /\ tail' = tail)
  BY <1>1 DEF Advance
<1>5. head.seq < g.hi[Queue] /\ head'.seq = head.seq =>
        elem'[g.spot[Queue][head.seq + 1]] = elem[g.spot[Queue][head.seq + 1]]
  BY DEF Advance
<1>6. PICK x \in ThreadState : x = thread[u]
  BY <1>1
<1>7. x.link.seq \in Nat /\ x.tailSeq \in Nat
  BY <1>6 DEF ThreadState
<1>8. PushPlace(u, h)'
  <2>1. PushPlace(u, g)
    BY DEF Place
  <2>2. thread[u] = x /\ thread'[u] = x
    BY <1>6
  <2> QED BY ONLY <1>1, <1>3, <1>4, <1>7, <2>1, <2>2 DEF PushPlace, Unlinked, Pushing, At
<1>9. PopPlace(u, h)'
  <2>1. PopPlace(u, g)
    BY DEF Place
  <2>2. thread[u] = x /\ thread'[u] = x
    BY <1>6
  <2>3. x.at \in {"check", "tail", "elem", "head"} => NextOfHead(u, h)'
    BY ONLY <1>1, <1>3, <1>4, <1>7, <2>1, <2>2 DEF PopPlace, NextOfHead
  <2>4. x.at = "head" => (x.link.seq = head'.seq => x.elem = elem'[x.next])
    <3>1. SUFFICES ASSUME x.at = "head", x.link.seq = head'.seq PROVE x.elem = elem'[x.next]
      OBVIOUS
    <3>2. NextOfHead(u, g) /\ x.next \in Nodes /\ x.link.seq <= head.seq
          /\ (x.link.seq = head.seq => x.elem = elem[x.next])
      BY ONLY <2>1, <2>2, <3>1 DEF PopPlace, At
    <3>3. x.link.seq = head.seq /\ head' = head /\ x.next # End
      BY <1>4, <1>7, <3>1, <3>2, NodesAre
    <3>4. head.seq < g.hi[Queue] /\ x.next = g.spot[Queue][head.seq + 1]
      BY ONLY <2>2, <3>2, <3>3 DEF NextOfHead
    <3> QED BY <1>5, <3>2, <3>3, <3>4
  <2>5. x.at \in {"head node", "pop tail sequence", "next", "check", "tail", "pop help", "elem", "head"}
          => x.link.seq <= head'.seq
    BY ONLY <1>1, <1>4, <1>7, <2>1, <2>2 DEF PopPlace
  <2>6. x.at \in {"pop tail sequence", "next", "check", "tail", "pop help", "elem", "head"} =>
          x.link.node \in Nodes /\ (x.link.seq = head'.seq => x.link.node = head'.node)
    BY ONLY <1>1, <1>4, <1>7, <2>1, <2>2 DEF PopPlace
  <2>7. x.at \in {"next", "check", "tail", "pop help"} => x.tailSeq <= tail'.seq
    BY ONLY <1>1, <1>4, <1>7, <2>1, <2>2 DEF PopPlace
  <2>8. x.at \in {"tail", "pop help"} =>
          (x.tailSeq = tail'.seq /\ x.link.node = tail'.node /\ x.next # End =>
             tail'.seq < h.hi[Queue] /\ x.next = h.spot[Queue][tail'.seq + 1])
    BY ONLY <1>1, <1>3, <1>4, <1>7, <2>1, <2>2 DEF PopPlace
  <2>9. x.at \in {"elem", "head"} => (x.link.seq = head'.seq => head'.seq < tail'.seq)
    <3>1. SUFFICES ASSUME x.at \in {"elem", "head"}, x.link.seq = head'.seq
                   PROVE  head'.seq < tail'.seq
      OBVIOUS
    <3>2. x.link.seq <= head.seq /\ (x.link.seq = head.seq => head.seq < tail.seq)
      BY ONLY <2>1, <2>2, <3>1 DEF PopPlace
    <3>3. x.link.seq = head.seq /\ head' = head
      BY <1>4, <1>7, <3>1, <3>2
    <3>4. tail.seq <= tail'.seq
      BY DEF Advance
    <3> QED BY ONLY <1>1, <3>2, <3>3, <3>4
  <2>10. /\ x.at = "tail" => x.next # Null /\ (x.next = End => x.empty)
         /\ x.at \in {"pop help", "elem", "head"} => x.next \in Nodes
    BY ONLY <2>1, <2>2 DEF PopPlace, At
  <2> QED BY ONLY <2>2, <2>3, <2>4, <2>5, <2>6, <2>7, <2>8, <2>9, <2>10 DEF PopPlace, At
<1> QED BY <1>8, <1>9 DEF Place

\* No thread begins or ends a push, or takes an item.
SameRoles ==
  \A u \in Threads :
    /\ Unlinked(u)' <=> Unlinked(u)
    /\ Unlinked(u) => thread'[u].node = thread[u].node
    /\ Pushing(u)' => Pushing(u)
    /\ At(u, "take")' <=> At(u, "take")
    /\ At(u, "take") => thread'[u] = thread[u]

\* Strings and items, where no thread changes its role.
LEMMA Frame ==
  ASSUME SameRoles, UNCHANGED <<head, next, elem, freeNodes, made, pushed, popped, blind>>,
         NEW g, Holds(g), Taken
  PROVE  /\ (GhostType(g) /\ Chains(g) /\ Linked(g) /\ Roots(g) /\ Spare(g))'
         /\ Contained(g)' /\ InOrder(g)' /\ Taken'
<1>1. GhostType(g)' /\ Chains(g)'
  BY DEF Holds, Shape, GhostType, Chains, Low
<1>2. Linked(g)'
  BY DEF Holds, Shape, Linked
<1>3. Roots(g)'
  BY DEF Holds, Shape, Roots, SameRoles
<1>4. Takers' = Takers /\ \A u \in Takers : thread'[u] = thread[u]
  BY DEF Takers, SameRoles
<1>5. Spare(g)'
  BY <1>4 DEF Holds, Shape, Spare, Free
<1>6. Live(g)' = Live(g) /\ Pushed' = Pushed
  BY DEF Live, Pushed
<1>7. Contained(g)'
  <2>1. Contained(g)
    BY DEF Holds
  <2>2. \A t \in Threads : Unlinked(t)' => elem'[thread'[t].node] = <<t, pushed'[t]>>
    BY <2>1 DEF Contained, SameRoles
  <2> QED BY <1>6, <2>1, <2>2 DEF Contained, SameRoles
<1>8. InOrder(g)'
  BY DEF Holds, InOrder, FifoOrder
<1>9. Taken'
  BY <1>4 DEF Taken
<1> QED BY <1>1, <1>2, <1>3, <1>5, <1>7, <1>8, <1>9

\* The tail moves to the next node of the queue, or stays.
TailMoves(g) ==
  \/ tail' = tail
  \/ /\ tail.seq < g.hi[Queue]
     /\ tail' = [node |-> g.spot[Queue][tail.seq + 1], seq |-> tail.seq + 1]

\* Where the tail has moved, it is in the queue.
LEMMA TailInQueue ==
  ASSUME TypeInv, NEW g, Shape(g), TailMoves(g), UNCHANGED head
  PROVE  tail' \in [node : Nodes, seq : Nat] /\ Ends(g)' /\ (elem' = elem => Advance(g, g))
<1>1. Ends(g) /\ GhostType(g) /\ Chains(g) /\ Queue \in Strings /\ Low(Queue) = head.seq
  BY DEF Shape, Strings, Low
<1>2. head.seq <= tail.seq /\ tail \in [node : Nodes, seq : Nat] /\ head.seq \in Nat
  BY <1>1, Names, QueueNodes DEF Shape, TypeInv
<1>3. g.hi[Queue] \in Int /\ tail.seq \in Nat
  BY <1>1, <1>2 DEF GhostType
<1>4. CASE tail' = tail
  <2>1. Ends(g)'
    BY <1>1, <1>4 DEF Ends
  <2> QED BY <1>2, <1>4, <1>3, <2>1 DEF Advance
<1>5. CASE tail' # tail
  <2>1. tail.seq < g.hi[Queue] /\ tail' = [node |-> g.spot[Queue][tail.seq + 1], seq |-> tail.seq + 1]
    BY <1>5 DEF TailMoves
  <2>2. tail.seq + 1 \in Nat /\ head.seq <= tail.seq + 1 /\ tail.seq + 1 <= g.hi[Queue]
    BY <1>1, <1>2, <2>1 DEF GhostType
  <2>3. /\ g.spot[Queue][tail.seq + 1] \in Nodes
        /\ g.str[g.spot[Queue][tail.seq + 1]] = Queue
        /\ g.pos[g.spot[Queue][tail.seq + 1]] = tail.seq + 1
    BY <1>1, <2>2 DEF Chains, GhostType
  <2>4. Ends(g)'
    BY <1>1, <2>1, <2>3 DEF Ends
  <2>5. tail'.seq = tail.seq + 1 /\ tail' \in [node : Nodes, seq : Nat]
    BY <2>1, <2>2, <2>3
  <2> QED BY <1>2, <1>3, <2>4, <2>5 DEF Advance
<1> QED BY <1>4, <1>5

\* A step that changes nothing but the thread's own state, and may move the tail.
LEMMA LocalStep ==
  ASSUME TypeInv, NEW t \in Threads, NEW r \in ThreadState, thread' = [thread EXCEPT ![t] = r],
         UNCHANGED <<head, next, elem, freeNodes, made, pushed, popped, blind>>, count' \in Int,
         r.at \in {"tail sequence", "tail node", "link", "help", "help tail"} <=> Unlinked(t),
         Unlinked(t) => r.node = thread[t].node,
         r.at = "finish" => Pushing(t),
         thread[t].at # "take", r.at # "take",
         NEW g, Holds(g), Taken, TailMoves(g),
         r.at = "link" => g.str[r.link.node] \notin Threads,
         Place(t, g)'
  PROVE  TypeInv' /\ Taken' /\ Holds(g)'
<1>1. thread \in [Threads -> ThreadState] /\ thread'[t] = r
      /\ \A u \in Threads : u # t => thread'[u] = thread[u]
  BY DEF TypeInv
<1>2. Shape(g) /\ elem' = elem /\ head' = head
  BY DEF Holds
<1>3. tail' \in [node : Nodes, seq : Nat] /\ Ends(g)' /\ Advance(g, g)
  BY <1>2, TailInQueue
<1>4. TypeInv'
  <2>1. thread' \in [Threads -> ThreadState]
    BY <1>1
  <2>2. Cardinality(Nodes)' = Cardinality(Nodes)
    OBVIOUS
  <2> QED BY <1>3, <2>1 DEF TypeInv
<1>5. SameRoles
  <2> SUFFICES ASSUME NEW u \in Threads
               PROVE  /\ Unlinked(u)' <=> Unlinked(u)
                      /\ Unlinked(u) => thread'[u].node = thread[u].node
                      /\ Pushing(u)' => Pushing(u)
                      /\ At(u, "take")' <=> At(u, "take")
                      /\ At(u, "take") => thread'[u] = thread[u]
    BY DEF SameRoles
  <2>1. CASE u = t
    BY <1>1, <2>1 DEF Unlinked, Pushing, At
  <2>2. CASE u # t
    BY <1>1, <2>2 DEF Unlinked, Pushing, At
  <2> QED BY <2>1, <2>2
<1>6. /\ (GhostType(g) /\ Chains(g) /\ Linked(g) /\ Roots(g) /\ Spare(g))'
      /\ Contained(g)' /\ InOrder(g)' /\ Taken'
  BY <1>5, Frame
<1>7. Births(g)'
  <2>1. Births(g)
    BY <1>2 DEF Shape
  <2> SUFFICES ASSUME NEW v \in Threads, NEW u \in Threads,
                      At(v, "link")', g.str[thread'[v].link.node] = u
               PROVE  g.born[v] < g.born[u]
    BY <2>1 DEF Births
  <2>2. v # t
    BY <1>1 DEF At
  <2> QED BY <1>1, <2>1, <2>2 DEF Births, At
<1>8. \A u \in Threads : Place(u, g)'
  <2> SUFFICES ASSUME NEW u \in Threads, u # t PROVE Place(u, g)'
    OBVIOUS
  <2> QED BY <1>1, <1>2, <1>3, <1>4, OtherPlaces DEF Holds, Shape
<1> QED BY <1>3, <1>4, <1>6, <1>7, <1>8 DEF Holds, Shape

\* The count where no push ends and no item is taken.
LEMMA SameCount ==
  ASSUME Counted, NEW t \in Threads, NEW r, thread' = [thread EXCEPT ![t] = r], TypeInv,
         UNCHANGED <<head, count, pushed, popped>>, r.node = thread[t].node,
         thread[t].at # "take", r.at # "take"
  PROVE  Counted'
<1>1. \A u \in Threads : thread'[u].node = thread[u].node /\ (At(u, "take")' <=> At(u, "take"))
  BY DEF At, TypeInv
<1>2. Takers' = Takers
  BY <1>1 DEF Takers
<1>3. Returned' = Returned
  BY <1>1, ItemsAre DEF Returned
<1> QED BY <1>2, <1>3 DEF Counted

\* The types of head and tail.
LEMMA EndsTyped ==
  ASSUME TypeInv
  PROVE  /\ head.seq \in Nat /\ tail.seq \in Nat /\ head.node \in Nodes /\ tail.node \in Nodes
         /\ head.seq <= head.seq /\ tail.seq <= tail.seq
<1>1. head.seq \in Nat /\ tail.seq \in Nat /\ head.node \in Nodes /\ tail.node \in Nodes
  BY DEF TypeInv
<1> QED BY <1>1

\* The types of a thread that is idle and of one that starts again.
LEMMA IdleTyped ==
  /\ Idle \in ThreadState /\ Idle.at = "idle" /\ Idle.node = Null
  /\ Restarted \in ThreadState /\ Restarted.at = "head sequence" /\ Restarted.node = Null
BY DEF Idle, Restarted, ThreadState, Places

-----------------------------------------------------------------------------
(* The steps of a thread that change nothing but its own state, or the tail. *)

\* The same with m_Count unchanged: the form that most steps below have.
LEMMA LocalGood ==
  ASSUME NEW g, Good(g), NEW t \in Threads, NEW r \in ThreadState,
         thread' = [thread EXCEPT ![t] = r],
         UNCHANGED <<head, next, elem, freeNodes, made, count, pushed, popped, blind>>,
         r.at \in {"tail sequence", "tail node", "link", "help", "help tail"} <=> Unlinked(t),
         r.node = thread[t].node, r.at = "finish" => Pushing(t),
         thread[t].at # "take", r.at # "take", TailMoves(g),
         r.at = "link" => g.str[r.link.node] \notin Threads,
         Place(t, g)'
  PROVE  Good(g)'
<1>1. TypeInv /\ Taken /\ Counted /\ Holds(g)
  BY DEF Good
<1>2. TypeInv' /\ Taken' /\ Holds(g)'
  <2>1. count' \in Int
    BY <1>1 DEF TypeInv
  <2> QED BY <1>1, <2>1, LocalStep
<1>3. Counted'
  BY <1>1, SameCount
<1> QED BY <1>2, <1>3 DEF Good

\* Push reads m_Tail's sequence.
LEMMA LoadTailSequenceGood ==
  ASSUME NEW g, Good(g), NEW t \in Threads, LoadTailSequence(t) PROVE Good(g)'
<1>1. TypeInv /\ Shape(g) /\ Place(t, g)
  BY DEF Good, Holds
<1>2. PICK x \in ThreadState : x = thread[t]
  BY <1>1 DEF TypeInv
<1>3. x.at = "tail sequence" /\ x.link.seq \in Nat /\ x.tailSeq \in Nat
  BY <1>2 DEF LoadTailSequence, At, ThreadState
<1>4. PICK r : r = [x EXCEPT !.at = "tail node", !.link.seq = tail.seq]
  OBVIOUS
<1>5. thread' = [thread EXCEPT ![t] = r] /\ thread'[t] = r
  BY <1>1, <1>2, <1>4 DEF LoadTailSequence, TypeInv, Go
<1>6. /\ r \in ThreadState
      /\ r.at = "tail node" /\ r.node = x.node /\ r.link.seq = tail.seq /\ tail.seq \in Nat
  BY <1>1, <1>2, <1>3, <1>4 DEF ThreadState, TypeInv, Places
<1>7. PushPlace(t, g)'
  <2>1. UNCHANGED <<head, tail>> /\ PushPlace(t, g) /\ tail.seq <= tail.seq
    BY <1>1, EndsTyped DEF Place, LoadTailSequence
  <2>2. x.node \in Nodes
    BY <1>2, <1>3, <2>1 DEF PushPlace, Unlinked, Pushing, At
  <2> QED BY ONLY <1>2, <1>3, <1>5, <1>6, <2>1, <2>2 DEF PushPlace, Unlinked, Pushing, At
<1>8. PopPlace(t, g)'
  <2>1. /\ UNCHANGED <<head, tail, elem>> /\ PopPlace(t, g)
        /\ head.seq <= head.seq /\ tail.seq <= tail.seq
    BY <1>1, EndsTyped DEF Place, LoadTailSequence
  <2> QED BY ONLY <1>2, <1>3, <1>5, <1>6, <2>1 DEF PopPlace, NextOfHead, At
<1>9. r.at # "link"
  BY <1>1, <1>6
<1>10. Place(t, g)'
  BY <1>7, <1>8 DEF Place
<1>11. /\ UNCHANGED <<head, next, elem, freeNodes, made, count, pushed, popped, blind>>
       /\ TailMoves(g)
  BY DEF LoadTailSequence, TailMoves, lists, histories
<1>12. /\ r.at \in {"tail sequence", "tail node", "link", "help", "help tail"} <=> Unlinked(t)
       /\ r.node = thread[t].node /\ (r.at = "finish" => Pushing(t))
       /\ thread[t].at # "take" /\ r.at # "take"
  BY <1>2, <1>3, <1>6 DEF Unlinked, Pushing, At
<1> QED BY ONLY Good(g), t \in Threads, <1>5, <1>6, <1>9, <1>10, <1>11, <1>12, LocalGood

\* Push reads m_Tail's node, which is of this or a later sequence.
LEMMA LoadTailNodeGood ==
  ASSUME NEW g, Good(g), NEW t \in Threads, LoadTailNode(t) PROVE Good(g)'
<1>1. TypeInv /\ Shape(g) /\ Place(t, g)
  BY DEF Good, Holds
<1>2. PICK x \in ThreadState : x = thread[t]
  BY <1>1 DEF TypeInv
<1>3. x.at = "tail node" /\ x.link.seq \in Nat /\ x.tailSeq \in Nat
  BY <1>2 DEF LoadTailNode, At, ThreadState
<1>4. PICK r : r = [x EXCEPT !.at = "link", !.link.node = tail.node]
  OBVIOUS
<1>5. thread' = [thread EXCEPT ![t] = r] /\ thread'[t] = r
  BY <1>1, <1>2, <1>4 DEF LoadTailNode, TypeInv, Go
<1>6. /\ r \in ThreadState
      /\ r.at = "link" /\ r.node = x.node /\ r.link.seq = x.link.seq /\ r.link.node = tail.node /\ tail.node \in Nodes
  BY <1>1, <1>2, <1>3, <1>4 DEF ThreadState, TypeInv, Places
<1>7. PushPlace(t, g)'
  <2>1. UNCHANGED <<head, tail>> /\ PushPlace(t, g) /\ tail.seq <= tail.seq
    BY <1>1, EndsTyped DEF Place, LoadTailNode
  <2>2. x.node \in Nodes
    BY <1>2, <1>3, <2>1 DEF PushPlace, Unlinked, Pushing, At
  <2> QED BY ONLY <1>2, <1>3, <1>5, <1>6, <2>1, <2>2 DEF PushPlace, Unlinked, Pushing, At
<1>8. PopPlace(t, g)'
  <2>1. /\ UNCHANGED <<head, tail, elem>> /\ PopPlace(t, g)
        /\ head.seq <= head.seq /\ tail.seq <= tail.seq
    BY <1>1, EndsTyped DEF Place, LoadTailNode
  <2> QED BY ONLY <1>2, <1>3, <1>5, <1>6, <2>1 DEF PopPlace, NextOfHead, At
<1>9. g.str[r.link.node] \notin Threads
  BY <1>1, <1>6, Names DEF Shape, Ends
<1>10. Place(t, g)'
  BY <1>7, <1>8 DEF Place
<1>11. /\ UNCHANGED <<head, next, elem, freeNodes, made, count, pushed, popped, blind>>
       /\ TailMoves(g)
  BY DEF LoadTailNode, TailMoves, lists, histories
<1>12. /\ r.at \in {"tail sequence", "tail node", "link", "help", "help tail"} <=> Unlinked(t)
       /\ r.node = thread[t].node /\ (r.at = "finish" => Pushing(t))
       /\ thread[t].at # "take" /\ r.at # "take"
  BY <1>2, <1>3, <1>6 DEF Unlinked, Pushing, At
<1> QED BY ONLY Good(g), t \in Threads, <1>5, <1>6, <1>9, <1>10, <1>11, <1>12, LocalGood

\* Push reads the node that another one linked.
LEMMA LoadLinkedGood ==
  ASSUME NEW g, Good(g), NEW t \in Threads, LoadLinked(t) PROVE Good(g)'
<1>1. TypeInv /\ Shape(g) /\ Place(t, g)
  BY DEF Good, Holds
<1>2. PICK x \in ThreadState : x = thread[t]
  BY <1>1 DEF TypeInv
<1>3. x.at = "help" /\ x.link.seq \in Nat /\ x.tailSeq \in Nat
  BY <1>2 DEF LoadLinked, At, ThreadState
<1>4. x.link.node \in Nodes
  BY <1>1, <1>2, <1>3 DEF Place, PushPlace
<1>5. x.link.seq = tail.seq => next[x.link.node] = g.spot[Queue][tail.seq + 1]
  <2>1. x.link.seq = tail.seq => x.link.node = tail.node /\ tail.seq < g.hi[Queue]
    BY <1>1, <1>2, <1>3 DEF Place, PushPlace
  <2>2. tail.seq < g.hi[Queue] => next[tail.node] = g.spot[Queue][tail.seq + 1]
    <3>1. g.hi[Queue] \in Int /\ tail.node \in Nodes /\ tail.seq \in Nat
      BY <1>1 DEF Shape, GhostType, Strings, TypeInv
    <3> QED BY <1>1, <3>1, Names DEF Shape, Linked, Ends, Strings
  <2> QED BY <2>1, <2>2
<1>6. PICK r : r = [x EXCEPT !.at = "help tail", !.next = next[x.link.node]]
  OBVIOUS
<1>7. thread' = [thread EXCEPT ![t] = r] /\ thread'[t] = r
  BY <1>1, <1>2, <1>6 DEF LoadLinked, TypeInv, Go
<1>8. /\ r \in ThreadState
      /\ r.at = "help tail" /\ r.node = x.node /\ r.link = x.link /\ r.next = next[x.link.node]
  BY <1>1, <1>2, <1>3, <1>6, <1>4 DEF ThreadState, TypeInv, Places
<1>9. PushPlace(t, g)'
  <2>1. UNCHANGED <<head, tail>> /\ PushPlace(t, g) /\ tail.seq <= tail.seq
    BY <1>1, EndsTyped DEF Place, LoadLinked
  <2>2. x.node \in Nodes
    BY <1>2, <1>3, <2>1 DEF PushPlace, Unlinked, Pushing, At
  <2> QED BY ONLY <1>2, <1>3, <1>7, <1>8, <1>5, <2>1, <2>2 DEF PushPlace, Unlinked, Pushing, At
<1>10. PopPlace(t, g)'
  <2>1. /\ UNCHANGED <<head, tail, elem>> /\ PopPlace(t, g)
        /\ head.seq <= head.seq /\ tail.seq <= tail.seq
    BY <1>1, EndsTyped DEF Place, LoadLinked
  <2> QED BY ONLY <1>2, <1>3, <1>7, <1>8, <2>1 DEF PopPlace, NextOfHead, At
<1>11. r.at # "link"
  BY <1>1, <1>8
<1>12. Place(t, g)'
  BY <1>9, <1>10 DEF Place
<1>13. /\ UNCHANGED <<head, next, elem, freeNodes, made, count, pushed, popped, blind>>
       /\ TailMoves(g)
  BY DEF LoadLinked, TailMoves, lists, histories
<1>14. /\ r.at \in {"tail sequence", "tail node", "link", "help", "help tail"} <=> Unlinked(t)
       /\ r.node = thread[t].node /\ (r.at = "finish" => Pushing(t))
       /\ thread[t].at # "take" /\ r.at # "take"
  BY <1>2, <1>3, <1>8 DEF Unlinked, Pushing, At
<1> QED BY ONLY Good(g), t \in Threads, <1>7, <1>8, <1>11, <1>12, <1>13, <1>14, LocalGood

\* PopItem begins.
LEMMA PopItemGood ==
  ASSUME NEW g, Good(g), NEW t \in Threads, PopItem(t) PROVE Good(g)'
<1>1. TypeInv /\ Shape(g) /\ Place(t, g)
  BY DEF Good, Holds
<1>2. PICK x \in ThreadState : x = thread[t]
  BY <1>1 DEF TypeInv
<1>3. x.at = "idle" /\ x.link.seq \in Nat /\ x.tailSeq \in Nat
  BY <1>2 DEF PopItem, At, ThreadState
<1>4. PICK r : r = [x EXCEPT !.at = "head sequence"]
  OBVIOUS
<1>5. thread' = [thread EXCEPT ![t] = r] /\ thread'[t] = r
  BY <1>1, <1>2, <1>4 DEF PopItem, TypeInv, Go
<1>6. /\ r \in ThreadState
      /\ r.at = "head sequence" /\ r.node = x.node
  BY <1>1, <1>2, <1>3, <1>4 DEF ThreadState, TypeInv, Places
<1>7. PushPlace(t, g)'
  <2>1. UNCHANGED <<head, tail>> /\ PushPlace(t, g) /\ tail.seq <= tail.seq
    BY <1>1, EndsTyped DEF Place, PopItem
  <2>2. x.node \notin Nodes
    BY <1>2, <1>3, <2>1 DEF PushPlace, Unlinked, Pushing, At
  <2> QED BY ONLY <1>2, <1>3, <1>5, <1>6, <2>1, <2>2 DEF PushPlace, Unlinked, Pushing, At
<1>8. PopPlace(t, g)'
  <2>1. /\ UNCHANGED <<head, tail, elem>> /\ PopPlace(t, g)
        /\ head.seq <= head.seq /\ tail.seq <= tail.seq
    BY <1>1, EndsTyped DEF Place, PopItem
  <2> QED BY ONLY <1>2, <1>3, <1>5, <1>6, <2>1 DEF PopPlace, NextOfHead, At
<1>9. r.at # "link"
  BY <1>1, <1>6
<1>10. Place(t, g)'
  BY <1>7, <1>8 DEF Place
<1>11. /\ UNCHANGED <<head, next, elem, freeNodes, made, count, pushed, popped, blind>>
       /\ TailMoves(g)
  BY DEF PopItem, TailMoves, lists, histories
<1>12. /\ r.at \in {"tail sequence", "tail node", "link", "help", "help tail"} <=> Unlinked(t)
       /\ r.node = thread[t].node /\ (r.at = "finish" => Pushing(t))
       /\ thread[t].at # "take" /\ r.at # "take"
  BY <1>2, <1>3, <1>6 DEF Unlinked, Pushing, At
<1> QED BY ONLY Good(g), t \in Threads, <1>5, <1>6, <1>9, <1>10, <1>11, <1>12, LocalGood

\* Pop reads m_Head's sequence.
LEMMA LoadHeadSequenceGood ==
  ASSUME NEW g, Good(g), NEW t \in Threads, LoadHeadSequence(t) PROVE Good(g)'
<1>1. TypeInv /\ Shape(g) /\ Place(t, g)
  BY DEF Good, Holds
<1>2. PICK x \in ThreadState : x = thread[t]
  BY <1>1 DEF TypeInv
<1>3. x.at = "head sequence" /\ x.link.seq \in Nat /\ x.tailSeq \in Nat
  BY <1>2 DEF LoadHeadSequence, At, ThreadState
<1>4. PICK r : r = [x EXCEPT !.at = "head node", !.link.seq = head.seq]
  OBVIOUS
<1>5. thread' = [thread EXCEPT ![t] = r] /\ thread'[t] = r
  BY <1>1, <1>2, <1>4 DEF LoadHeadSequence, TypeInv, Go
<1>6. /\ r \in ThreadState
      /\ r.at = "head node" /\ r.node = x.node /\ r.link.seq = head.seq /\ head.seq \in Nat
  BY <1>1, <1>2, <1>3, <1>4 DEF ThreadState, TypeInv, Places
<1>7. PushPlace(t, g)'
  <2>1. UNCHANGED <<head, tail>> /\ PushPlace(t, g) /\ tail.seq <= tail.seq
    BY <1>1, EndsTyped DEF Place, LoadHeadSequence
  <2>2. x.node \notin Nodes
    BY <1>2, <1>3, <2>1 DEF PushPlace, Unlinked, Pushing, At
  <2> QED BY ONLY <1>2, <1>3, <1>5, <1>6, <2>1, <2>2 DEF PushPlace, Unlinked, Pushing, At
<1>8. PopPlace(t, g)'
  <2>1. /\ UNCHANGED <<head, tail, elem>> /\ PopPlace(t, g)
        /\ head.seq <= head.seq /\ tail.seq <= tail.seq
    BY <1>1, EndsTyped DEF Place, LoadHeadSequence
  <2> QED BY ONLY <1>2, <1>3, <1>5, <1>6, <2>1 DEF PopPlace, NextOfHead, At
<1>9. r.at # "link"
  BY <1>1, <1>6
<1>10. Place(t, g)'
  BY <1>7, <1>8 DEF Place
<1>11. /\ UNCHANGED <<head, next, elem, freeNodes, made, count, pushed, popped, blind>>
       /\ TailMoves(g)
  BY DEF LoadHeadSequence, TailMoves, lists, histories
<1>12. /\ r.at \in {"tail sequence", "tail node", "link", "help", "help tail"} <=> Unlinked(t)
       /\ r.node = thread[t].node /\ (r.at = "finish" => Pushing(t))
       /\ thread[t].at # "take" /\ r.at # "take"
  BY <1>2, <1>3, <1>6 DEF Unlinked, Pushing, At
<1> QED BY ONLY Good(g), t \in Threads, <1>5, <1>6, <1>9, <1>10, <1>11, <1>12, LocalGood

\* Pop reads m_Head's node.
LEMMA LoadHeadNodeGood ==
  ASSUME NEW g, Good(g), NEW t \in Threads, LoadHeadNode(t) PROVE Good(g)'
<1>1. TypeInv /\ Shape(g) /\ Place(t, g)
  BY DEF Good, Holds
<1>2. PICK x \in ThreadState : x = thread[t]
  BY <1>1 DEF TypeInv
<1>3. x.at = "head node" /\ x.link.seq \in Nat /\ x.tailSeq \in Nat
  BY <1>2 DEF LoadHeadNode, At, ThreadState
<1>4. PICK r : r = [x EXCEPT !.at = "pop tail sequence", !.link.node = head.node]
  OBVIOUS
<1>5. thread' = [thread EXCEPT ![t] = r] /\ thread'[t] = r
  BY <1>1, <1>2, <1>4 DEF LoadHeadNode, TypeInv, Go
<1>6. /\ r \in ThreadState
      /\ r.at = "pop tail sequence" /\ r.node = x.node /\ r.link.seq = x.link.seq /\ r.link.node = head.node /\ head.node \in Nodes
  BY <1>1, <1>2, <1>3, <1>4 DEF ThreadState, TypeInv, Places
<1>7. PushPlace(t, g)'
  <2>1. UNCHANGED <<head, tail>> /\ PushPlace(t, g) /\ tail.seq <= tail.seq
    BY <1>1, EndsTyped DEF Place, LoadHeadNode
  <2>2. x.node \notin Nodes
    BY <1>2, <1>3, <2>1 DEF PushPlace, Unlinked, Pushing, At
  <2> QED BY ONLY <1>2, <1>3, <1>5, <1>6, <2>1, <2>2 DEF PushPlace, Unlinked, Pushing, At
<1>8. PopPlace(t, g)'
  <2>1. /\ UNCHANGED <<head, tail, elem>> /\ PopPlace(t, g)
        /\ head.seq <= head.seq /\ tail.seq <= tail.seq
    BY <1>1, EndsTyped DEF Place, LoadHeadNode
  <2> QED BY ONLY <1>2, <1>3, <1>5, <1>6, <2>1 DEF PopPlace, NextOfHead, At
<1>9. r.at # "link"
  BY <1>1, <1>6
<1>10. Place(t, g)'
  BY <1>7, <1>8 DEF Place
<1>11. /\ UNCHANGED <<head, next, elem, freeNodes, made, count, pushed, popped, blind>>
       /\ TailMoves(g)
  BY DEF LoadHeadNode, TailMoves, lists, histories
<1>12. /\ r.at \in {"tail sequence", "tail node", "link", "help", "help tail"} <=> Unlinked(t)
       /\ r.node = thread[t].node /\ (r.at = "finish" => Pushing(t))
       /\ thread[t].at # "take" /\ r.at # "take"
  BY <1>2, <1>3, <1>6 DEF Unlinked, Pushing, At
<1> QED BY ONLY Good(g), t \in Threads, <1>5, <1>6, <1>9, <1>10, <1>11, <1>12, LocalGood

\* Pop reads m_Tail's sequence.
LEMMA LoadPopTailSequenceGood ==
  ASSUME NEW g, Good(g), NEW t \in Threads, LoadPopTailSequence(t) PROVE Good(g)'
<1>1. TypeInv /\ Shape(g) /\ Place(t, g)
  BY DEF Good, Holds
<1>2. PICK x \in ThreadState : x = thread[t]
  BY <1>1 DEF TypeInv
<1>3. x.at = "pop tail sequence" /\ x.link.seq \in Nat /\ x.tailSeq \in Nat
  BY <1>2 DEF LoadPopTailSequence, At, ThreadState
<1>4. PICK r : r = [x EXCEPT !.at = "next", !.tailSeq = tail.seq]
  OBVIOUS
<1>5. thread' = [thread EXCEPT ![t] = r] /\ thread'[t] = r
  BY <1>1, <1>2, <1>4 DEF LoadPopTailSequence, TypeInv, Go
<1>6. /\ r \in ThreadState
      /\ r.at = "next" /\ r.node = x.node /\ r.link = x.link /\ r.tailSeq = tail.seq /\ tail.seq \in Nat
  BY <1>1, <1>2, <1>3, <1>4 DEF ThreadState, TypeInv, Places
<1>7. PushPlace(t, g)'
  <2>1. UNCHANGED <<head, tail>> /\ PushPlace(t, g) /\ tail.seq <= tail.seq
    BY <1>1, EndsTyped DEF Place, LoadPopTailSequence
  <2>2. x.node \notin Nodes
    BY <1>2, <1>3, <2>1 DEF PushPlace, Unlinked, Pushing, At
  <2> QED BY ONLY <1>2, <1>3, <1>5, <1>6, <2>1, <2>2 DEF PushPlace, Unlinked, Pushing, At
<1>8. PopPlace(t, g)'
  <2>1. /\ UNCHANGED <<head, tail, elem>> /\ PopPlace(t, g)
        /\ head.seq <= head.seq /\ tail.seq <= tail.seq
    BY <1>1, EndsTyped DEF Place, LoadPopTailSequence
  <2> QED BY ONLY <1>2, <1>3, <1>5, <1>6, <2>1 DEF PopPlace, NextOfHead, At
<1>9. r.at # "link"
  BY <1>1, <1>6
<1>10. Place(t, g)'
  BY <1>7, <1>8 DEF Place
<1>11. /\ UNCHANGED <<head, next, elem, freeNodes, made, count, pushed, popped, blind>>
       /\ TailMoves(g)
  BY DEF LoadPopTailSequence, TailMoves, lists, histories
<1>12. /\ r.at \in {"tail sequence", "tail node", "link", "help", "help tail"} <=> Unlinked(t)
       /\ r.node = thread[t].node /\ (r.at = "finish" => Pushing(t))
       /\ thread[t].at # "take" /\ r.at # "take"
  BY <1>2, <1>3, <1>6 DEF Unlinked, Pushing, At
<1> QED BY ONLY Good(g), t \in Threads, <1>5, <1>6, <1>9, <1>10, <1>11, <1>12, LocalGood

\* Pop reads pNext, of a node that may be recycled by now.
LEMMA LoadNextGood ==
  ASSUME NEW g, Good(g), NEW t \in Threads, LoadNext(t) PROVE Good(g)'
<1>1. TypeInv /\ Shape(g) /\ Place(t, g)
  BY DEF Good, Holds
<1>2. PICK x \in ThreadState : x = thread[t]
  BY <1>1 DEF TypeInv
<1>3. x.at = "next" /\ x.link.seq \in Nat /\ x.tailSeq \in Nat
  BY <1>2 DEF LoadNext, At, ThreadState
<1>4. x.link.node \in Nodes /\ (x.link.seq = head.seq => x.link.node = head.node)
  BY <1>1, <1>2, <1>3 DEF Place, PopPlace
<1>5. /\ next[head.node] = End => InQueue = {head.node}
      /\ next[head.node] # End => /\ head.seq < g.hi[Queue]
                                 /\ next[head.node] = g.spot[Queue][head.seq + 1]
  <2>1. InQueue = {n \in Nodes : g.str[n] = Queue} /\ head.seq <= g.hi[Queue]
    BY <1>1, QueueNodes DEF Shape
  <2>2. g.hi[Queue] \in Int /\ head.node \in Nodes /\ head.seq \in Nat
    BY <1>1 DEF Shape, GhostType, Strings, TypeInv
  <2>3. /\ next[head.node] = IF head.seq = g.hi[Queue] THEN End ELSE g.spot[Queue][head.seq + 1]
        /\ g.spot[Queue][head.seq + 1] \in Nodes
    <3>1. g.str[head.node] = Queue /\ g.pos[head.node] = head.seq /\ Queue # Elsewhere
      BY <1>1, Names DEF Shape, Ends, Strings
    <3>2. /\ Queue \in Strings /\ g.spot \in [Strings -> [Nat -> Nodes]] /\ head.seq + 1 \in Nat
      BY <1>1, <2>2 DEF Shape, GhostType, Strings
    <3>3. next[head.node] = IF head.seq = g.hi[Queue] THEN End ELSE g.spot[Queue][head.seq + 1]
      BY <1>1, <2>2, <3>1 DEF Shape, Linked
    <3> QED BY <3>2, <3>3
  <2>4. CASE next[head.node] = End
    <3>1. head.seq = g.hi[Queue]
      BY <2>3, <2>4, NodesAre
    <3>2. \A n \in Nodes : g.str[n] = Queue => g.pos[n] = head.seq /\ g.spot[Queue][head.seq] = n
      <4> SUFFICES ASSUME NEW n \in Nodes, g.str[n] = Queue
                   PROVE  g.pos[n] = head.seq /\ g.spot[Queue][head.seq] = n
        OBVIOUS
      <4>1. /\ head.seq <= g.pos[n] /\ g.pos[n] <= g.hi[Queue] /\ g.spot[Queue][g.pos[n]] = n
            /\ g.pos[n] \in Nat
        BY <1>1, Names DEF Shape, Chains, Low, Strings, GhostType
      <4> QED BY <2>2, <3>1, <4>1
    <3> QED BY <1>1, <2>1, <2>2, <2>4, <3>2 DEF Shape, Ends
  <2>5. CASE next[head.node] # End
    BY <2>1, <2>2, <2>3, <2>5
  <2> QED BY <2>4, <2>5
<1>6. PICK r : r = [x EXCEPT !.at = "check", !.next = next[x.link.node],
                     !.empty = next[x.link.node] = End /\ InQueue = {head.node}]
  OBVIOUS
<1>7. thread' = [thread EXCEPT ![t] = r] /\ thread'[t] = r
  BY <1>1, <1>2, <1>6 DEF LoadNext, TypeInv, Go
<1>8. /\ r \in ThreadState
      /\ r.at = "check" /\ r.node = x.node /\ r.link = x.link /\ r.tailSeq = x.tailSeq
      /\ r.next = next[x.link.node] /\ r.empty = (next[x.link.node] = End /\ InQueue = {head.node})
  BY <1>1, <1>2, <1>3, <1>6, <1>4 DEF ThreadState, TypeInv, Places
<1>9. PushPlace(t, g)'
  <2>1. UNCHANGED <<head, tail>> /\ PushPlace(t, g) /\ tail.seq <= tail.seq
    BY <1>1, EndsTyped DEF Place, LoadNext
  <2>2. x.node \notin Nodes
    BY <1>2, <1>3, <2>1 DEF PushPlace, Unlinked, Pushing, At
  <2> QED BY ONLY <1>2, <1>3, <1>7, <1>8, <2>1, <2>2 DEF PushPlace, Unlinked, Pushing, At
<1>10. PopPlace(t, g)'
  <2>1. /\ UNCHANGED <<head, tail, elem>> /\ PopPlace(t, g)
        /\ head.seq <= head.seq /\ tail.seq <= tail.seq
    BY <1>1, EndsTyped DEF Place, LoadNext
  <2>2. /\ x.link.seq <= head.seq /\ x.link.node \in Nodes
        /\ x.link.seq = head.seq => x.link.node = head.node
        /\ x.tailSeq <= tail.seq
    BY ONLY <1>2, <1>3, <2>1 DEF PopPlace
  <2>3. x.link.seq = head.seq => IF r.next = End THEN r.empty
                                 ELSE head.seq < g.hi[Queue] /\ r.next = g.spot[Queue][head.seq + 1]
    BY ONLY <1>5, <1>8, <2>2
  <2>4. NextOfHead(t, g)'
    BY ONLY <1>7, <1>8, <2>1, <2>3 DEF NextOfHead
  <2>5. r.at = "check" /\ r.link = x.link /\ r.tailSeq = x.tailSeq /\ head' = head /\ tail' = tail
    BY ONLY <1>8, <2>1
  <2> QED BY ONLY <1>7, <2>2, <2>4, <2>5 DEF PopPlace, At
<1>11. r.at # "link"
  BY <1>1, <1>8
<1>12. Place(t, g)'
  BY <1>9, <1>10 DEF Place
<1>13. /\ UNCHANGED <<head, next, elem, freeNodes, made, count, pushed, popped, blind>>
       /\ TailMoves(g)
  BY DEF LoadNext, TailMoves, lists, histories
<1>14. /\ r.at \in {"tail sequence", "tail node", "link", "help", "help tail"} <=> Unlinked(t)
       /\ r.node = thread[t].node /\ (r.at = "finish" => Pushing(t))
       /\ thread[t].at # "take" /\ r.at # "take"
  BY <1>2, <1>3, <1>8 DEF Unlinked, Pushing, At
<1> QED BY ONLY Good(g), t \in Threads, <1>7, <1>8, <1>11, <1>12, <1>13, <1>14, LocalGood

\* Pop goes on only if the head is still the one that it read.
LEMMA CheckNextGood ==
  ASSUME NEW g, Good(g), NEW t \in Threads, CheckNext(t) PROVE Good(g)'
<1>1. TypeInv /\ Shape(g) /\ Place(t, g)
  BY DEF Good, Holds
<1>2. PICK x \in ThreadState : x = thread[t]
  BY <1>1 DEF TypeInv
<1>3. x.at = "check" /\ x.link.seq \in Nat /\ x.tailSeq \in Nat
  BY <1>2 DEF CheckNext, At, ThreadState
<1>4. x.node = Null
  BY <1>1, <1>2, <1>3 DEF Place, PushPlace, Unlinked, Pushing, At, ThreadState
<1>5. NextIsValid(t) => /\ x.next # Null /\ x.link.seq = head.seq
                        /\ x.link.node = tail.node => head.seq = tail.seq
  <2>1. NextIsValid(t) => x.next # Null /\ x.link.seq = head.seq /\ x.link.node = head.node
    BY <1>1, <1>2, <1>3 DEF Place, PopPlace, NextIsValid
  <2>2. tail.node = head.node => tail.seq = head.seq
    BY <1>1, QueueNodes DEF Shape
  <2> QED BY <2>1, <2>2
<1>6. PICK r : r = IF NextIsValid(t) THEN [x EXCEPT !.at = "tail"] ELSE Restarted
  OBVIOUS
<1>7. thread' = [thread EXCEPT ![t] = r] /\ thread'[t] = r
  BY <1>1, <1>2, <1>6 DEF CheckNext, TypeInv, Go
<1>8. /\ r \in ThreadState
      /\ r.node = x.node
      /\ IF NextIsValid(t) THEN /\ r.at = "tail" /\ r.link = x.link /\ r.tailSeq = x.tailSeq
                                /\ r.next = x.next /\ r.empty = x.empty
                           ELSE r.at = "head sequence"
  BY <1>1, <1>2, <1>3, <1>6, <1>4, IdleTyped DEF ThreadState, TypeInv, Places
<1>9. PushPlace(t, g)'
  <2>1. UNCHANGED <<head, tail>> /\ PushPlace(t, g) /\ tail.seq <= tail.seq
    BY <1>1, EndsTyped DEF Place, CheckNext
  <2>2. x.node \notin Nodes
    BY <1>2, <1>3, <2>1 DEF PushPlace, Unlinked, Pushing, At
  <2> QED BY ONLY <1>2, <1>3, <1>7, <1>8, <2>1, <2>2 DEF PushPlace, Unlinked, Pushing, At
<1>10. PopPlace(t, g)'
  <2>1. /\ UNCHANGED <<head, tail, elem>> /\ PopPlace(t, g)
        /\ head.seq <= head.seq /\ tail.seq <= tail.seq
    BY <1>1, EndsTyped DEF Place, CheckNext
  <2>2. CASE ~NextIsValid(t)
    <3>1. r.at = "head sequence"
      BY ONLY <1>8, <2>2
    <3> QED BY ONLY <1>7, <3>1 DEF PopPlace, At
  <2>3. CASE NextIsValid(t)
    <3>1. /\ x.link.node \in Nodes /\ x.link.node = head.node /\ x.tailSeq <= tail.seq
          /\ IF x.next = End THEN x.empty
             ELSE head.seq < g.hi[Queue] /\ x.next = g.spot[Queue][head.seq + 1]
      BY ONLY <1>2, <1>3, <1>5, <2>1, <2>3 DEF PopPlace, NextOfHead
    <3>2. /\ r.at = "tail" /\ r.link = x.link /\ r.tailSeq = x.tailSeq /\ r.next = x.next
          /\ r.empty = x.empty /\ head' = head /\ tail' = tail
      BY ONLY <1>8, <2>1, <2>3
    <3>3. NextOfHead(t, g)'
      BY ONLY <1>7, <3>1, <3>2 DEF NextOfHead
    <3>4. /\ r.next # Null /\ (r.next = End => r.empty)
          /\ (r.tailSeq = tail.seq /\ r.link.node = tail.node /\ r.next # End =>
                tail.seq < g.hi[Queue] /\ r.next = g.spot[Queue][tail.seq + 1])
      BY ONLY <1>5, <2>3, <3>1, <3>2
    <3>5. r.link.seq <= head.seq /\ (r.link.seq = head.seq => r.link.node = head.node)
      BY ONLY <1>5, <2>1, <2>3, <3>1, <3>2
    <3> QED BY ONLY <1>7, <3>1, <3>2, <3>3, <3>4, <3>5 DEF PopPlace, At
  <2> QED BY <2>2, <2>3
<1>11. r.at # "link"
  BY <1>1, <1>8
<1>12. Place(t, g)'
  BY <1>9, <1>10 DEF Place
<1>13. /\ UNCHANGED <<head, next, elem, freeNodes, made, count, pushed, popped, blind>>
       /\ TailMoves(g)
  BY DEF CheckNext, TailMoves, lists, histories
<1>14. /\ r.at \in {"tail sequence", "tail node", "link", "help", "help tail"} <=> Unlinked(t)
       /\ r.node = thread[t].node /\ (r.at = "finish" => Pushing(t))
       /\ thread[t].at # "take" /\ r.at # "take"
  BY <1>2, <1>3, <1>8 DEF Unlinked, Pushing, At
<1> QED BY ONLY Good(g), t \in Threads, <1>7, <1>8, <1>11, <1>12, <1>13, <1>14, LocalGood

\* Pop compares the head with the tail.
LEMMA CompareTailGood ==
  ASSUME NEW g, Good(g), NEW t \in Threads, CompareTail(t) PROVE Good(g)'
<1>1. TypeInv /\ Shape(g) /\ Place(t, g)
  BY DEF Good, Holds
<1>2. PICK x \in ThreadState : x = thread[t]
  BY <1>1 DEF TypeInv
<1>3. x.at = "tail" /\ x.link.seq \in Nat /\ x.tailSeq \in Nat
  BY <1>2 DEF CompareTail, At, ThreadState
<1>4. x.node = Null
  BY <1>1, <1>2, <1>3 DEF Place, PushPlace, Unlinked, Pushing, At, ThreadState
<1>5. x.next \in Nodes \cup {End} /\ (x.link.seq = head.seq => x.link.node = head.node)
  BY <1>1, <1>2, <1>3 DEF Place, PopPlace, At, ThreadState
<1>6. head.seq <= tail.seq /\ (head.seq = tail.seq => head.node = tail.node)
  BY <1>1, QueueNodes DEF Shape
<1>7. x.link.seq = head.seq /\ x.link.node # tail.node => head.seq < tail.seq
  BY <1>1, <1>5, <1>6, EndsTyped
<1>8. PICK r : r = IF x.link.node = tail.node
               THEN IF x.next = End THEN Idle ELSE [x EXCEPT !.at = "pop help"]
               ELSE IF x.next = End THEN Restarted ELSE [x EXCEPT !.at = "elem"]
  OBVIOUS
<1>9. thread' = [thread EXCEPT ![t] = r] /\ thread'[t] = r
  BY <1>1, <1>2, <1>8 DEF CompareTail, TypeInv, Go
<1>10. /\ r \in ThreadState
       /\ r.node = x.node
       /\ IF x.next = End THEN r.at \in {"idle", "head sequence"}
          ELSE /\ r.link = x.link /\ r.tailSeq = x.tailSeq /\ r.next = x.next /\ r.empty = x.empty
               /\ r.at = IF x.link.node = tail.node THEN "pop help" ELSE "elem"
  <2>1. CASE x.next = End
    BY <1>8, <1>4, <2>1, IdleTyped
  <2>2. CASE x.next # End /\ x.link.node = tail.node
    <3>1. r = [x EXCEPT !.at = "pop help"]
      BY <1>8, <2>2
    <3> QED BY <2>2, <3>1 DEF ThreadState, Places
  <2>3. CASE x.next # End /\ x.link.node # tail.node
    <3>1. r = [x EXCEPT !.at = "elem"]
      BY <1>8, <2>3
    <3> QED BY <2>3, <3>1 DEF ThreadState, Places
  <2> QED BY <2>1, <2>2, <2>3
<1>11. PushPlace(t, g)'
  <2>1. UNCHANGED <<head, tail>> /\ PushPlace(t, g) /\ tail.seq <= tail.seq
    BY <1>1, EndsTyped DEF Place, CompareTail
  <2>2. x.node \notin Nodes
    BY <1>2, <1>3, <2>1 DEF PushPlace, Unlinked, Pushing, At
  <2> QED BY ONLY <1>2, <1>3, <1>9, <1>10, <2>1, <2>2 DEF PushPlace, Unlinked, Pushing, At
<1>12. PopPlace(t, g)'
  <2>1. /\ UNCHANGED <<head, tail, elem>> /\ PopPlace(t, g)
        /\ head.seq <= head.seq /\ tail.seq <= tail.seq
    BY <1>1, EndsTyped DEF Place, CompareTail
  <2> QED BY ONLY <1>2, <1>3, <1>9, <1>10, <1>5, <1>7, <2>1 DEF PopPlace, NextOfHead, At
<1>13. r.at # "link"
  BY <1>1, <1>10
<1>14. Place(t, g)'
  BY <1>11, <1>12 DEF Place
<1>15. /\ UNCHANGED <<head, next, elem, freeNodes, made, count, pushed, popped, blind>>
       /\ TailMoves(g)
  BY DEF CompareTail, TailMoves, lists, histories
<1>16. /\ r.at \in {"tail sequence", "tail node", "link", "help", "help tail"} <=> Unlinked(t)
       /\ r.node = thread[t].node /\ (r.at = "finish" => Pushing(t))
       /\ thread[t].at # "take" /\ r.at # "take"
  BY <1>2, <1>3, <1>10 DEF Unlinked, Pushing, At
<1> QED BY ONLY Good(g), t \in Threads, <1>9, <1>10, <1>13, <1>14, <1>15, <1>16, LocalGood

\* Pop reads the item, of a node that may be recycled by now.
LEMMA LoadElemGood ==
  ASSUME NEW g, Good(g), NEW t \in Threads, LoadElem(t) PROVE Good(g)'
<1>1. TypeInv /\ Shape(g) /\ Place(t, g)
  BY DEF Good, Holds
<1>2. PICK x \in ThreadState : x = thread[t]
  BY <1>1 DEF TypeInv
<1>3. x.at = "elem" /\ x.link.seq \in Nat /\ x.tailSeq \in Nat
  BY <1>2 DEF LoadElem, At, ThreadState
<1>4. x.next \in Nodes
  BY <1>1, <1>2, <1>3 DEF Place, PopPlace
<1>5. PICK r : r = [x EXCEPT !.at = "head", !.elem = elem[x.next]]
  OBVIOUS
<1>6. thread' = [thread EXCEPT ![t] = r] /\ thread'[t] = r
  BY <1>1, <1>2, <1>5 DEF LoadElem, TypeInv, Go
<1>7. /\ r \in ThreadState
      /\ r.at = "head" /\ r.node = x.node /\ r.link = x.link /\ r.next = x.next /\ r.empty = x.empty
      /\ r.elem = elem[x.next]
  BY <1>1, <1>2, <1>3, <1>5, <1>4 DEF ThreadState, TypeInv, Places
<1>8. PushPlace(t, g)'
  <2>1. UNCHANGED <<head, tail>> /\ PushPlace(t, g) /\ tail.seq <= tail.seq
    BY <1>1, EndsTyped DEF Place, LoadElem
  <2>2. x.node \notin Nodes
    BY <1>2, <1>3, <2>1 DEF PushPlace, Unlinked, Pushing, At
  <2> QED BY ONLY <1>2, <1>3, <1>6, <1>7, <2>1, <2>2 DEF PushPlace, Unlinked, Pushing, At
<1>9. PopPlace(t, g)'
  <2>1. /\ UNCHANGED <<head, tail, elem>> /\ PopPlace(t, g)
        /\ head.seq <= head.seq /\ tail.seq <= tail.seq
    BY <1>1, EndsTyped DEF Place, LoadElem
  <2> QED BY ONLY <1>2, <1>3, <1>6, <1>7, <2>1 DEF PopPlace, NextOfHead, At
<1>10. r.at # "link"
  BY <1>1, <1>7
<1>11. Place(t, g)'
  BY <1>8, <1>9 DEF Place
<1>12. /\ UNCHANGED <<head, next, elem, freeNodes, made, count, pushed, popped, blind>>
       /\ TailMoves(g)
  BY DEF LoadElem, TailMoves, lists, histories
<1>13. /\ r.at \in {"tail sequence", "tail node", "link", "help", "help tail"} <=> Unlinked(t)
       /\ r.node = thread[t].node /\ (r.at = "finish" => Pushing(t))
       /\ thread[t].at # "take" /\ r.at # "take"
  BY <1>2, <1>3, <1>7 DEF Unlinked, Pushing, At
<1> QED BY ONLY Good(g), t \in Threads, <1>6, <1>7, <1>10, <1>11, <1>12, <1>13, LocalGood

\* The compare and swap of pNext fails.
LEMMA FailedLinkGood ==
  ASSUME NEW g, Good(g), NEW t \in Threads, LinkNode(t), ~CanLink(thread[t].link.node)
  PROVE  Good(g)'
<1>1. TypeInv /\ Shape(g) /\ Place(t, g)
  BY DEF Good, Holds
<1>2. PICK x \in ThreadState : x = thread[t]
  BY <1>1 DEF TypeInv
<1>3. x.at = "link" /\ x.link.seq \in Nat /\ x.tailSeq \in Nat
  BY <1>2 DEF LinkNode, At, ThreadState
<1>4. /\ x.link.node \in Nodes /\ next[x.link.node] # End
      /\ x.link.seq <= tail.seq /\ (x.link.seq = tail.seq => x.link.node = tail.node)
  BY <1>1, <1>2, <1>3 DEF Place, PushPlace, CanLink
<1>5. x.link.seq = tail.seq => tail.seq < g.hi[Queue]
  <2>1. g.hi[Queue] \in Int /\ tail.seq <= g.hi[Queue] /\ tail.node \in Nodes /\ tail.seq \in Nat
    BY <1>1, QueueNodes DEF Shape, GhostType, Strings, TypeInv
  <2>2. next[tail.node] # End => tail.seq # g.hi[Queue]
    BY <1>1, <2>1, Names DEF Shape, Linked, Ends, Strings
  <2> QED BY <1>4, <2>1, <2>2
<1>6. PICK r : r = [x EXCEPT !.at = "help"]
  OBVIOUS
<1>7. thread' = [thread EXCEPT ![t] = r] /\ thread'[t] = r
  BY <1>1, <1>2, <1>6 DEF LinkNode, TypeInv, Go
<1>8. /\ r \in ThreadState
      /\ r.at = "help" /\ r.node = x.node /\ r.link = x.link
  BY <1>1, <1>2, <1>3, <1>6 DEF ThreadState, TypeInv, Places
<1>9. PushPlace(t, g)'
  <2>1. UNCHANGED <<head, tail>> /\ PushPlace(t, g) /\ tail.seq <= tail.seq
    BY <1>1, EndsTyped DEF Place, LinkNode
  <2>2. x.node \in Nodes
    BY <1>2, <1>3, <2>1 DEF PushPlace, Unlinked, Pushing, At
  <2> QED BY ONLY <1>2, <1>3, <1>7, <1>8, <1>4, <1>5, <2>1, <2>2 DEF PushPlace, Unlinked, Pushing, At
<1>10. PopPlace(t, g)'
  <2>1. /\ UNCHANGED <<head, tail, elem>> /\ PopPlace(t, g)
        /\ head.seq <= head.seq /\ tail.seq <= tail.seq
    BY <1>1, EndsTyped DEF Place, LinkNode
  <2> QED BY ONLY <1>2, <1>3, <1>7, <1>8, <2>1 DEF PopPlace, NextOfHead, At
<1>11. r.at # "link"
  BY <1>1, <1>8
<1>12. Place(t, g)'
  BY <1>9, <1>10 DEF Place
<1>13. /\ UNCHANGED <<head, next, elem, freeNodes, made, count, pushed, popped, blind>>
       /\ TailMoves(g)
  BY DEF LinkNode, TailMoves, lists, histories
<1>14. /\ r.at \in {"tail sequence", "tail node", "link", "help", "help tail"} <=> Unlinked(t)
       /\ r.node = thread[t].node /\ (r.at = "finish" => Pushing(t))
       /\ thread[t].at # "take" /\ r.at # "take"
  BY <1>2, <1>3, <1>8 DEF Unlinked, Pushing, At
<1> QED BY ONLY Good(g), t \in Threads, <1>7, <1>8, <1>11, <1>12, <1>13, <1>14, LocalGood

\* The compare and swap of m_Head fails.
LEMMA FailedSwapGood ==
  ASSUME NEW g, Good(g), NEW t \in Threads, SwapHead(t), ~SameHead(thread[t].link)
  PROVE  Good(g)'
<1>1. TypeInv /\ Shape(g) /\ Place(t, g)
  BY DEF Good, Holds
<1>2. PICK x \in ThreadState : x = thread[t]
  BY <1>1 DEF TypeInv
<1>3. x.at = "head" /\ x.link.seq \in Nat /\ x.tailSeq \in Nat
  BY <1>2 DEF SwapHead, At, ThreadState
<1>4. x.node = Null
  BY <1>1, <1>2, <1>3 DEF Place, PushPlace, Unlinked, Pushing, At, ThreadState
<1>5. PICK r : r = Restarted
  OBVIOUS
<1>6. thread' = [thread EXCEPT ![t] = r] /\ thread'[t] = r
  BY <1>1, <1>2, <1>5 DEF SwapHead, TypeInv, Go
<1>7. /\ r \in ThreadState
      /\ r.at = "head sequence" /\ r.node = x.node
  BY <1>1, <1>2, <1>3, <1>5, <1>4, IdleTyped
<1>8. PushPlace(t, g)'
  <2>1. UNCHANGED <<head, tail>> /\ PushPlace(t, g) /\ tail.seq <= tail.seq
    BY <1>1, EndsTyped DEF Place, SwapHead
  <2>2. x.node \notin Nodes
    BY <1>2, <1>3, <2>1 DEF PushPlace, Unlinked, Pushing, At
  <2> QED BY ONLY <1>2, <1>3, <1>6, <1>7, <2>1, <2>2 DEF PushPlace, Unlinked, Pushing, At
<1>9. PopPlace(t, g)'
  <2>1. /\ UNCHANGED <<head, tail, elem>> /\ PopPlace(t, g)
        /\ head.seq <= head.seq /\ tail.seq <= tail.seq
    BY <1>1, EndsTyped DEF Place, SwapHead
  <2> QED BY ONLY <1>2, <1>3, <1>6, <1>7, <2>1 DEF PopPlace, NextOfHead, At
<1>10. r.at # "link"
  BY <1>1, <1>7
<1>11. Place(t, g)'
  BY <1>8, <1>9 DEF Place
<1>12. /\ UNCHANGED <<head, next, elem, freeNodes, made, count, pushed, popped, blind>>
       /\ TailMoves(g)
  BY DEF SwapHead, TailMoves, lists, histories
<1>13. /\ r.at \in {"tail sequence", "tail node", "link", "help", "help tail"} <=> Unlinked(t)
       /\ r.node = thread[t].node /\ (r.at = "finish" => Pushing(t))
       /\ thread[t].at # "take" /\ r.at # "take"
  BY <1>2, <1>3, <1>7 DEF Unlinked, Pushing, At
<1> QED BY ONLY Good(g), t \in Threads, <1>6, <1>7, <1>10, <1>11, <1>12, <1>13, LocalGood

\* A push, or a helper, compares and swaps the tail.
LEMMA FinishedGood ==
  ASSUME NEW g, Good(g), NEW n, NEW old, FinishPush(n, old),
         tail = old => tail.seq < g.hi[Queue] /\ n = g.spot[Queue][tail.seq + 1]
  PROVE  TailMoves(g)
BY DEF FinishPush, TailMoves

\* Push moves the tail for another push.
LEMMA HelpTailGood ==
  ASSUME NEW g, Good(g), NEW t \in Threads, HelpTail(t) PROVE Good(g)'
<1>1. TypeInv /\ Place(t, g)
  BY DEF Good, Holds
<1>2. PICK x \in ThreadState : x = thread[t]
  BY <1>1 DEF TypeInv
<1>3. x.at = "help tail" /\ x.link.seq \in Nat
  BY <1>2 DEF HelpTail, At, ThreadState
<1>4. PICK r : r = [x EXCEPT !.at = "tail sequence", !.next = Null, !.link = Idle.link]
  OBVIOUS
<1>5. thread' = [thread EXCEPT ![t] = r] /\ thread'[t] = r
  BY <1>1, <1>2, <1>4 DEF HelpTail, TypeInv
<1>6. r \in ThreadState /\ r.at = "tail sequence" /\ r.node = x.node /\ x.node \in Nodes
  <2>1. x.node \in Nodes
    BY <1>1, <1>2, <1>3 DEF Place, PushPlace, Unlinked, Pushing
  <2>2. Idle.link \in [node : Nodes \cup {Null}, seq : Nat]
    BY DEF Idle
  <2> QED BY <1>2, <1>3, <1>4, <2>1, <2>2 DEF ThreadState, Places
<1>7. Place(t, g)'
  BY ONLY <1>5, <1>6 DEF Place, PushPlace, PopPlace, Unlinked, Pushing, At
<1>8. TailMoves(g)
  <2>1. tail = x.link => tail.seq < g.hi[Queue] /\ x.next = g.spot[Queue][tail.seq + 1]
    BY <1>1, <1>2, <1>3 DEF Place, PushPlace, At
  <2>2. FinishPush(x.next, x.link)
    BY <1>2 DEF HelpTail
  <2> QED BY <2>1, <2>2, FinishedGood
<1>9. UNCHANGED <<head, next, elem, freeNodes, made, count, pushed, popped, blind>>
  BY DEF HelpTail, lists, histories
<1>10. Unlinked(t) /\ r.node = thread[t].node /\ thread[t].at # "take"
  BY <1>2, <1>3, <1>6 DEF Unlinked
<1> QED BY ONLY Good(g), t \in Threads, <1>5, <1>6, <1>7, <1>8, <1>9, <1>10, LocalGood

\* Pop moves the tail for a push.
LEMMA PopHelpTailGood ==
  ASSUME NEW g, Good(g), NEW t \in Threads, PopHelpTail(t) PROVE Good(g)'
<1>1. TypeInv /\ Place(t, g)
  BY DEF Good, Holds
<1>2. PICK x \in ThreadState : x = thread[t]
  BY <1>1 DEF TypeInv
<1>3. x.at = "pop help"
  BY <1>2 DEF PopHelpTail, At
<1>4. thread' = [thread EXCEPT ![t] = Restarted] /\ thread'[t] = Restarted
  BY <1>1 DEF PopHelpTail, TypeInv
<1>5. x.node = Null
  BY <1>1, <1>2, <1>3 DEF Place, PushPlace, Unlinked, Pushing, At, ThreadState
<1>6. Place(t, g)'
  BY ONLY <1>4, IdleTyped, NodesAre DEF Place, PushPlace, PopPlace, Unlinked, Pushing, At
<1>7. TailMoves(g)
  <2>1. PICK old : old = [x.link EXCEPT !.seq = x.tailSeq]
    OBVIOUS
  <2>2. old.node = x.link.node /\ old.seq = x.tailSeq
    BY <2>1, <1>2 DEF ThreadState
  <2>3. tail = old => tail.seq < g.hi[Queue] /\ x.next = g.spot[Queue][tail.seq + 1]
    BY <1>1, <1>2, <1>3, <2>2, NodesAre DEF Place, PopPlace
  <2>4. FinishPush(x.next, old)
    BY <1>2, <2>1 DEF PopHelpTail
  <2> QED BY <2>3, <2>4, FinishedGood
<1>8. UNCHANGED <<head, next, elem, freeNodes, made, count, pushed, popped, blind>>
  BY DEF PopHelpTail, lists, histories
<1>9. ~Unlinked(t) /\ Restarted.node = thread[t].node /\ thread[t].at # "take"
  BY <1>2, <1>3, <1>5, IdleTyped DEF Unlinked
<1> QED BY ONLY Good(g), t \in Threads, <1>4, <1>6, <1>7, <1>8, <1>9, IdleTyped, LocalGood

\* Push moves the tail for itself and returns.
LEMMA FinishOwnPushGood ==
  ASSUME NEW g, Good(g), NEW t \in Threads, FinishOwnPush(t) PROVE Good(g)'
<1>1. TypeInv /\ Taken /\ Holds(g) /\ Place(t, g)
  BY DEF Good, Holds
<1>2. PICK x \in ThreadState : x = thread[t]
  BY <1>1 DEF TypeInv
<1>3. x.at = "finish"
  BY <1>2 DEF FinishOwnPush, At
<1>4. thread' = [thread EXCEPT ![t] = Idle] /\ thread'[t] = Idle
  BY <1>1 DEF FinishOwnPush, TypeInv
<1>5. x.node \in Nodes /\ Pushing(t)
  BY <1>1, <1>2, <1>3 DEF Place, PushPlace, Unlinked, Pushing, At
<1>6. Place(t, g)'
  BY ONLY <1>4, IdleTyped, NodesAre DEF Place, PushPlace, PopPlace, Unlinked, Pushing, At
<1>7. TailMoves(g)
  <2>1. tail = x.link => tail.seq < g.hi[Queue] /\ x.node = g.spot[Queue][tail.seq + 1]
    BY <1>1, <1>2, <1>3 DEF Place, PushPlace, At
  <2>2. FinishPush(x.node, x.link)
    BY <1>2 DEF FinishOwnPush
  <2> QED BY <2>1, <2>2, FinishedGood
<1>8. UNCHANGED <<head, next, elem, freeNodes, made, pushed, popped, blind>>
      /\ count' = count + 1 /\ count' \in Int
  BY <1>1 DEF FinishOwnPush, lists, histories, TypeInv
<1>9. ~Unlinked(t) /\ thread[t].at # "take" /\ ~Unlinked(t)'
  BY <1>2, <1>3, <1>4, IdleTyped DEF Unlinked
<1>10. TypeInv' /\ Taken' /\ Holds(g)'
  BY ONLY <1>1, t \in Threads, <1>4, <1>6, <1>7, <1>8, <1>9, IdleTyped, LocalStep
<1>11. Counted'
  <2>1. Counted /\ Contained(g)
    BY <1>1 DEF Good, Holds
  <2>2. PICK i : i = <<t, pushed[t]>>
    OBVIOUS
  <2>3. i \in Items /\ i \notin Returned /\ i[1] = t /\ i[2] = pushed[t]
    <3>1. pushed[t] \in Nat /\ 1 <= pushed[t] /\ pushed[t] <= MaxItems[t]
      BY <1>1, <1>5, <2>1 DEF TypeInv, Contained
    <3>2. x.node # Null
      BY <1>5, NodesAre
    <3> QED BY <1>2, <2>2, <3>1, <3>2, ItemsAre DEF Returned
  <2>4. Returned' = Returned \cup {i}
    <3> SUFFICES ASSUME NEW k \in Items PROVE k \in Returned' <=> k \in Returned \/ k = i
      BY <2>3 DEF Returned
    <3>1. k[1] \in Threads /\ k[2] \in Nat /\ k = <<k[1], k[2]>> /\ pushed[k[1]] \in Nat
      BY <1>1, ItemsAre DEF TypeInv
    <3>2. CASE k[1] = t
      <4>1. x.node # Null /\ Idle.node = Null
        BY <1>5, NodesAre, IdleTyped
      <4>2. k \in Returned <=> k[2] < pushed[t]
        BY <1>2, <3>1, <3>2, <4>1 DEF Returned
      <4>3. k \in Returned' <=> k[2] < pushed[t] + 1
        BY <1>4, <1>8, <3>1, <3>2, <4>1 DEF Returned
      <4>4. k = i <=> k[2] = pushed[t]
        BY <2>2, <3>1, <3>2
      <4> QED BY <3>1, <3>2, <4>2, <4>3, <4>4
    <3>3. CASE k[1] # t
      <4>1. thread'[k[1]] = thread[k[1]]
        BY <1>1, <1>4, <3>1, <3>3 DEF TypeInv
      <4> QED BY <1>8, <2>3, <3>3, <4>1 DEF Returned
    <3> QED BY <3>2, <3>3
  <2>5. IsFiniteSet(Returned) /\ Cardinality(Returned) \in Nat
    BY ItemsFinite, FS_Subset, FS_CardinalityType DEF Returned
  <2>6. Cardinality(Returned') = Cardinality(Returned) + 1
    BY <2>3, <2>4, <2>5, FS_AddElement
  <2>7. Takers' = Takers
    <3>1. \A u \in Threads : At(u, "take")' <=> At(u, "take")
      BY <1>1, <1>2, <1>3, <1>4, IdleTyped DEF At, TypeInv
    <3> QED BY <3>1 DEF Takers
  <2>8. IsFiniteSet(popped) /\ IsFiniteSet(Takers)
    BY <1>1, ItemsFinite, TSQueueAssumption, FS_Subset DEF TypeInv, Takers
  <2>9. Cardinality(popped) \in Nat /\ Cardinality(Takers) \in Nat
    BY <2>8, FS_CardinalityType
  <2>10. head' = head /\ popped' = popped /\ count' = count + 1
    BY <1>8 DEF FinishOwnPush
  <2> QED BY <2>1, <2>5, <2>6, <2>7, <2>9, <2>10 DEF Counted
<1> QED BY <1>10, <1>11 DEF Good

-----------------------------------------------------------------------------
(* A pop swaps the head: the former dummy leaves the queue.                 *)

\* The node that a pop makes the new dummy, when the head is still the one it read.
LEMMA NewHead ==
  ASSUME NEW g, Good(g), NEW t \in Threads, At(t, "head"), SameHead(thread[t].link),
         NEW n, n = thread[t].next
  PROVE  /\ n \in Nodes /\ head.seq < g.hi[Queue] /\ head.seq < tail.seq /\ n # head.node
         /\ n = g.spot[Queue][head.seq + 1] /\ g.str[n] = Queue /\ g.pos[n] = head.seq + 1
         /\ thread[t].elem = elem[n] /\ thread[t].elem \in Pushed \ popped
         /\ thread[t].node = Null
<1>1. TypeInv /\ Shape(g) /\ Contained(g) /\ Place(t, g)
  BY DEF Good, Holds
<1>2. head.seq \in Nat /\ g.hi[Queue] \in Int /\ Queue \in Strings /\ Low(Queue) = head.seq
  BY <1>1, EndsTyped DEF Shape, GhostType, Strings, Low
<1>3. head = thread[t].link
  BY DEF SameHead
<1>4. n \in Nodes /\ NextOfHead(t, g) /\ head.seq < tail.seq /\ thread[t].elem = elem[n]
  BY <1>1, <1>3 DEF Place, PopPlace, At
<1>5. head.seq < g.hi[Queue] /\ n = g.spot[Queue][head.seq + 1]
  BY <1>3, <1>4, NodesAre DEF NextOfHead
<1>6. g.str[n] = Queue /\ g.pos[n] = head.seq + 1
  BY <1>1, <1>2, <1>5 DEF Shape, Chains
<1>7. n # head.node
  BY <1>1, <1>2, <1>6 DEF Shape, Ends
<1>8. elem[n] \in Pushed \ popped
  BY <1>1, <1>4, <1>6, <1>7, Names DEF Contained, Live, Strings
<1>9. thread[t].node = Null
  <2>1. thread[t] \in ThreadState
    BY <1>1 DEF TypeInv
  <2> QED BY <1>1, <2>1 DEF Place, PushPlace, Unlinked, Pushing, At, ThreadState
<1> QED BY <1>4, <1>5, <1>6, <1>7, <1>8, <1>9

\* The compare and swap of m_Head succeeds: the former dummy leaves the queue.
LEMMA SwapHeadGood ==
  ASSUME NEW g, Good(g), NEW t \in Threads, SwapHead(t), SameHead(thread[t].link)
  PROVE  \E h : Good(h)'
<1>1. TypeInv /\ Taken /\ Counted /\ Holds(g) /\ Shape(g) /\ Contained(g) /\ InOrder(g)
  BY DEF Good, Holds
<1>2. PICK n : n = thread[t].next
  OBVIOUS
<1>3. PICK i : i = thread[t].elem
  OBVIOUS
<1>4. /\ n \in Nodes /\ head.seq < g.hi[Queue] /\ head.seq < tail.seq /\ n # head.node
      /\ n = g.spot[Queue][head.seq + 1] /\ g.str[n] = Queue /\ g.pos[n] = head.seq + 1
      /\ i = elem[n] /\ i \in Pushed \ popped /\ thread[t].node = Null
  BY <1>2, <1>3, NewHead DEF SwapHead
<1>5. /\ head' = [node |-> n, seq |-> head.seq + 1] /\ popped' = popped \cup {i}
      /\ UNCHANGED <<tail, next, elem, freeNodes, made, count, pushed, blind>>
      /\ thread[t].at = "head" /\ thread[t].link = head
  BY <1>2, <1>3 DEF SwapHead, SameHead, lists, At
<1>6. PICK r : r = [thread[t] EXCEPT !.at = "take"]
  OBVIOUS
<1>7. /\ thread' = [thread EXCEPT ![t] = r] /\ thread'[t] = r /\ r \in ThreadState
      /\ r.at = "take" /\ r.link = head /\ r.elem = i /\ r.node = Null
      /\ \A u \in Threads : u # t => thread'[u] = thread[u]
  <2>1. thread \in [Threads -> ThreadState] /\ thread[t] \in ThreadState
    BY <1>1 DEF TypeInv
  <2>2. thread' = [thread EXCEPT ![t] = r]
    BY <1>6, <2>1 DEF SwapHead, Go
  <2>3. /\ r \in ThreadState /\ r.at = "take" /\ r.link = head /\ r.elem = i /\ r.node = Null
    BY <1>3, <1>4, <1>5, <1>6, <2>1 DEF ThreadState, Places
  <2> QED BY <2>1, <2>2, <2>3
<1>8. PICK c : c = head.node
  OBVIOUS
<1>9. /\ c \in Nodes /\ head.seq \in Nat /\ g.hi[Queue] \in Int /\ Queue \in Strings
      /\ g.str[c] = Queue /\ g.pos[c] = head.seq /\ g.spot[Queue][head.seq] = c
      /\ tail.seq \in Nat
  BY <1>1, <1>8, EndsTyped, QueueNodes DEF Shape, GhostType, Strings, Ends
<1>10. PICK h : h = [str |-> [g.str EXCEPT ![c] = Elsewhere], pos |-> g.pos, spot |-> g.spot,
                     hi |-> g.hi, born |-> g.born, clock |-> g.clock]
  OBVIOUS
<1>11. /\ h.pos = g.pos /\ h.spot = g.spot /\ h.hi = g.hi /\ h.born = g.born /\ h.clock = g.clock
       /\ h.str = [g.str EXCEPT ![c] = Elsewhere]
  BY <1>10
<1>12. \A m \in Nodes : h.str[m] = IF m = c THEN Elsewhere ELSE g.str[m]
  BY <1>1, <1>11 DEF Shape, GhostType
<1>13. GhostType(h)'
  BY <1>1, <1>11 DEF Shape, GhostType
<1>14. TypeInv'
  <2>1. head' \in [node : Nodes, seq : Nat]
    BY <1>4, <1>5, <1>9
  <2>2. thread' \in [Threads -> ThreadState]
    BY <1>1, <1>7 DEF TypeInv
  <2>3. popped' \subseteq Items
    BY <1>1, <1>4, <1>5 DEF TypeInv, Pushed
  <2> QED BY <1>1, <1>5, <2>1, <2>2, <2>3 DEF TypeInv
<1>15. \A s \in Strings : Low(s)' = IF s = Queue THEN head.seq + 1 ELSE Low(s)
  BY <1>5 DEF Low
<1>16. Chains(h)'
  <2>1. ASSUME NEW m \in Nodes, h.str[m] # Elsewhere
        PROVE  /\ Low(h.str[m])' <= h.pos[m] /\ h.pos[m] <= h.hi[h.str[m]]
               /\ h.spot[h.str[m]][h.pos[m]] = m
    <3>1. m # c /\ h.str[m] = g.str[m] /\ g.str[m] \in Strings /\ g.pos[m] \in Nat
      BY <1>1, <1>12, <2>1 DEF Shape, GhostType
    <3>2. /\ Low(g.str[m]) <= g.pos[m] /\ g.pos[m] <= g.hi[g.str[m]]
          /\ g.spot[g.str[m]][g.pos[m]] = m
      BY <1>1, <2>1, <3>1 DEF Shape, Chains
    <3>3. g.str[m] = Queue => head.seq + 1 <= g.pos[m]
      BY <1>9, <3>1, <3>2 DEF Low
    <3> QED BY <1>11, <1>15, <3>1, <3>2, <3>3
  <2>2. ASSUME NEW s \in Strings, NEW p \in Nat, Low(s)' <= p, p <= h.hi[s]
        PROVE  h.str[h.spot[s][p]] = s /\ h.pos[h.spot[s][p]] = p
    <3>1. Low(s) <= p /\ (s = Queue => p # head.seq)
      BY <1>9, <1>15, <2>2 DEF Low
    <3>2. g.str[g.spot[s][p]] = s /\ g.pos[g.spot[s][p]] = p /\ g.spot[s][p] \in Nodes
      BY <1>1, <1>11, <2>2, <3>1 DEF Shape, Chains, GhostType
    <3>3. g.spot[s][p] # c
      BY <1>9, <3>1, <3>2
    <3> QED BY <1>11, <1>12, <3>2, <3>3
  <2> QED BY ONLY <2>1, <2>2 DEF Chains
<1>17. Linked(h)'
  <2>1. next[c] # End
    <3>1. next[c] = g.spot[Queue][head.seq + 1]
      BY <1>1, <1>4, <1>9, Names DEF Shape, Linked
    <3> QED BY <1>4, <3>1, NodesAre
  <2> QED BY <1>1, <1>5, <1>11, <1>12, <2>1 DEF Shape, Linked
<1>18. Ends(h)'
  <2>1. tail.node # c
    BY <1>1, <1>4, <1>9 DEF Shape, Ends
  <2>2. tail.node \in Nodes
    BY <1>1, EndsTyped
  <2> QED BY <1>1, <1>4, <1>5, <1>8, <1>11, <1>12, <2>1, <2>2 DEF Shape, Ends
<1>19. \A u \in Threads : Unlinked(u)' <=> Unlinked(u)
  BY <1>5, <1>7 DEF Unlinked
<1>20. Roots(h)'
  BY <1>1, <1>5, <1>7, <1>11, <1>19 DEF Shape, Roots, Unlinked
<1>21. Takers' = Takers \cup {t} /\ t \notin Takers
  BY <1>5, <1>7 DEF Takers, At
<1>22. /\ thread'[t].link.node = c /\ thread'[t].elem = i
       /\ \A u \in Takers : thread'[u] = thread[u] /\ u \in Threads
  BY <1>7, <1>8, <1>21 DEF Takers
<1>23. Spare(h)'
  <2>1. Spare(g) /\ Free' = Free
    BY <1>1, <1>5 DEF Shape, Free
  <2>2. c \notin Free /\ ~(made <= c) /\ \A u \in Takers : thread[u].link.node # c
    BY <1>9, <2>1, Names DEF Spare, Strings
  <2>3. c < made
    BY <1>1, <1>9, <2>2, NodesAre DEF TypeInv
  <2>4. \A m \in Nodes : h.str[m] = Elsewhere <=>
          \/ made <= m
          \/ m \in Free
          \/ \E u \in Takers' : thread'[u].link.node = m
    BY <1>12, <1>21, <1>22, <2>1 DEF Spare
  <2>5. \A u \in Takers' : thread'[u].link.node \in Nodes \ Free /\ thread'[u].link.node < made
    BY <1>9, <1>21, <1>22, <2>1, <2>2, <2>3 DEF Spare
  <2>6. \A u, v \in Takers' : thread'[u].link.node = thread'[v].link.node => u = v
    BY <1>21, <1>22, <2>1, <2>2 DEF Spare
  <2> QED BY <1>5, <2>1, <2>4, <2>5, <2>6 DEF Spare
<1>24. Births(h)'
  <2> SUFFICES ASSUME NEW u \in Threads, NEW v \in Threads, At(u, "link")', h.str[thread'[u].link.node] = v
               PROVE  g.born[u] < g.born[v]
    BY <1>1, <1>11 DEF Shape, Births
  <2>1. u # t /\ thread'[u] = thread[u] /\ At(u, "link")
    BY <1>7 DEF At
  <2>2. thread[u].link.node \in Nodes
    BY <1>1, <2>1 DEF Holds, Place, PushPlace, At
  <2>3. g.str[thread[u].link.node] = v
    BY <1>12, <2>1, <2>2, Names DEF Strings
  <2> QED BY <1>1, <2>1, <2>3 DEF Shape, Births
<1>25. Live(h)' = Live(g) \ {n} /\ n \in Live(g)
  BY <1>4, <1>5, <1>8, <1>12, Names DEF Live, Strings
<1>26. Contained(h)'
  <2>1. Pushed' = Pushed /\ elem' = elem /\ Contained(g)
    BY <1>1, <1>5 DEF Pushed
  <2>2. \A m \in Live(h)' : elem[m] \in Pushed \ popped'
    BY <1>4, <1>5, <1>25, <2>1 DEF Contained
  <2>3. \A m, k \in Live(h)' : elem[m] = elem[k] => m = k
    BY <1>25, <2>1 DEF Contained
  <2>4. \A j \in Pushed \ popped' : \E m \in Live(h)' : elem[m] = j
    <3> SUFFICES ASSUME NEW j \in Pushed \ popped' PROVE \E m \in Live(h)' : elem[m] = j
      OBVIOUS
    <3>1. PICK m \in Live(g) : elem[m] = j
      BY <1>5, <2>1 DEF Contained
    <3> QED BY <1>4, <1>5, <1>25, <3>1
  <2>5. popped' \subseteq Pushed
    BY <1>4, <1>5, <2>1 DEF Contained
  <2>6. \A u \in Threads : Unlinked(u)' => elem[thread'[u].node] = <<u, pushed[u]>>
    BY <1>7, <1>19, <2>1 DEF Contained, Unlinked
  <2>7. \A u \in Threads : pushed[u] <= MaxItems[u] /\ (Pushing(u)' => 1 <= pushed[u])
    BY <1>7, <2>1 DEF Contained, Pushing, Unlinked, At
  <2> QED BY <1>5, <2>1, <2>2, <2>3, <2>4, <2>5, <2>6, <2>7 DEF Contained
<1>27. Taken'
  <2>1. \A u \in Takers : thread[u].elem \in popped /\ thread[u].elem # i
    BY <1>1, <1>4 DEF Taken
  <2>2. \A u \in Takers' : thread'[u].elem \in popped'
    BY <1>5, <1>21, <1>22, <2>1
  <2>3. \A u, v \in Takers' : thread'[u].elem = thread'[v].elem => u = v
    BY <1>1, <1>21, <1>22, <2>1 DEF Taken
  <2> QED BY <2>2, <2>3 DEF Taken
<1>28. Counted'
  <2>1. IsFiniteSet(popped) /\ IsFiniteSet(Takers) /\ IsFiniteSet(Returned)
    BY <1>1, ItemsFinite, TSQueueAssumption, FS_Subset DEF TypeInv, Takers, Returned
  <2>2. Cardinality(popped) \in Nat /\ Cardinality(Takers) \in Nat /\ Cardinality(Returned) \in Nat
    BY <2>1, FS_CardinalityType
  <2>3. Cardinality(popped') = Cardinality(popped) + 1
    BY <1>4, <1>5, <2>1, FS_AddElement
  <2>4. Cardinality(Takers') = Cardinality(Takers) + 1
    BY <1>21, <2>1, FS_AddElement
  <2>5. Returned' = Returned
    <3>1. \A u \in Threads : thread'[u].node = thread[u].node
      BY <1>4, <1>7
    <3> QED BY <1>5, <3>1, ItemsAre DEF Returned
  <2>6. head'.seq = head.seq + 1 /\ count' = count
    BY <1>5
  <2> QED BY <1>1, <2>2, <2>3, <2>4, <2>5, <2>6 DEF Counted
<1>29. \A u \in Threads : Place(u, h)'
  <2>1. Place(t, h)'
    BY ONLY <1>7, NodesAre DEF Place, PushPlace, PopPlace, Unlinked, Pushing, At
  <2>2. Advance(g, h)
    BY <1>5, <1>9, <1>11, EndsTyped, <1>1 DEF Advance
  <2>3. ASSUME NEW u \in Threads, u # t PROVE Place(u, h)'
    <3>1. thread'[u] = thread[u] /\ Place(u, g) /\ GhostType(g) /\ GhostType(h)
      BY <1>1, <1>7, <1>13, <2>3 DEF Holds, Shape, GhostType
    <3> QED BY ONLY u \in Threads, <1>1, <1>14, <2>2, <3>1, OtherPlaces
  <2> QED BY <2>1, <2>3
<1>30. InOrder(h)'
  <2>1. CASE blind
    BY <1>5, <2>1 DEF InOrder
  <2>2. CASE ~blind
    <3>1. /\ \A u \in Threads : g.hi[u] <= 0
          /\ \A m, k \in Nodes :
               g.str[m] = Queue /\ g.str[k] = Queue /\ m # head.node /\ k # head.node
                 /\ elem[m][1] = elem[k][1] /\ elem[m][2] < elem[k][2] => g.pos[m] < g.pos[k]
          /\ FifoOrder
      BY <1>1, <2>2 DEF InOrder
    <3>2. \A m, k \in Nodes :
            h.str[m] = Queue /\ h.str[k] = Queue /\ m # n /\ k # n
              /\ elem[m][1] = elem[k][1] /\ elem[m][2] < elem[k][2] => h.pos[m] < h.pos[k]
      BY <1>8, <1>11, <1>12, <3>1, Names DEF Strings
    <3>3. ASSUME NEW j \in 1 .. i[2] - 1 PROVE <<i[1], j>> \in popped
      <4>1. /\ i \in Items /\ i[1] \in Threads /\ i[2] \in Nat /\ i[2] <= pushed[i[1]]
            /\ pushed[i[1]] \in Nat /\ i[2] <= MaxItems[i[1]] /\ MaxItems[i[1]] \in Nat
        BY <1>1, <1>4, ItemsAre, TSQueueAssumption DEF Pushed, TypeInv
      <4>2. PICK k : k = <<i[1], j>>
        OBVIOUS
      <4>3. k \in Pushed /\ k[1] = i[1] /\ k[2] = j /\ j \in Nat /\ j < i[2]
        BY <4>1, <4>2, ItemsAre DEF Pushed
      <4>4. SUFFICES ASSUME k \notin popped PROVE FALSE
        BY <4>2
      <4>5. PICK m \in Live(g) : elem[m] = k
        BY <1>1, <4>3, <4>4 DEF Contained
      <4>6. m \in Nodes /\ g.str[m] \in Strings /\ m # c
        BY <1>1, <1>8 DEF Live, Shape, GhostType
      <4>7. CASE g.str[m] = Queue
        <5>1. g.pos[m] < g.pos[n]
          BY <1>4, <1>8, <3>1, <4>3, <4>5, <4>6, <4>7
        <5>2. head.seq <= g.pos[m] /\ g.spot[Queue][g.pos[m]] = m /\ g.pos[m] \in Nat
          BY <1>1, <4>6, <4>7, Names DEF Shape, Chains, Low, Strings, GhostType
        <5> QED BY <1>4, <1>9, <4>6, <5>1, <5>2
      <4>8. CASE g.str[m] \in Threads
        <5>1. PICK u \in Threads : u = g.str[m]
          BY <4>8
        <5>2. u # Queue /\ u # Elsewhere /\ u \in Strings /\ g.hi[u] \in Int /\ g.pos[m] \in Nat
          BY <1>1, <4>6, Names DEF Strings, Shape, GhostType
        <5>3. 0 <= g.pos[m] /\ g.pos[m] <= g.hi[u] /\ g.spot[u][g.pos[m]] = m
          BY <1>1, <4>6, <5>1, <5>2 DEF Shape, Chains, Low
        <5>4. g.pos[m] = 0 /\ g.hi[u] # -1
          BY <3>1, <5>2, <5>3
        <5>5. Unlinked(u) /\ thread[u].node = m
          BY <1>1, <5>3, <5>4 DEF Shape, Roots
        <5>6. k = <<u, pushed[u]>>
          BY <1>1, <4>5, <5>5 DEF Contained
        <5>7. u = i[1] /\ pushed[i[1]] = j
          BY <4>3, <5>6
        <5> QED BY <4>1, <4>3, <5>7
      <4> QED BY <4>6, <4>7, <4>8 DEF Strings
    <3>4. FifoOrder'
      BY <1>5, <3>1, <3>3 DEF FifoOrder
    <3> QED BY <1>5, <1>11, <3>1, <3>2, <3>4 DEF InOrder
  <2> QED BY <2>1, <2>2
<1>31. Holds(h)'
  BY <1>13, <1>16, <1>17, <1>18, <1>20, <1>23, <1>24, <1>26, <1>29, <1>30 DEF Holds, Shape
<1>32. Good(h)'
  BY <1>14, <1>27, <1>28, <1>31 DEF Good
<1> QED BY <1>32

-----------------------------------------------------------------------------
(* A popped node becomes free.                                             *)

\* A node that is put in front of a list.
LEMMA FreedFirst ==
  ASSUME NEW s \in Seq(Nodes), NEW n \in Nodes, NEW r, r = <<n>> \o s
  PROVE  /\ r \in Seq(Nodes) /\ Range(r) = Range(s) \cup {n}
         /\ n \notin Range(s) /\ IsInjective(s) => IsInjective(r)
<1>1. Len(s) \in Nat /\ s \in [1 .. Len(s) -> Nodes] /\ <<n>> \in Seq(Nodes) /\ Len(<<n>>) = 1
  BY LenProperties
<1>2. r \in Seq(Nodes) /\ Len(r) = Len(s) + 1
      /\ \A j \in 1 .. Len(r) : r[j] = IF j = 1 THEN n ELSE s[j - 1]
  BY <1>1
<1>3. DOMAIN r = 1 .. Len(r) /\ DOMAIN s = 1 .. Len(s)
  BY <1>1, <1>2
<1>4. \A m \in Range(r) : m \in Range(s) \cup {n}
  BY <1>1, <1>2, <1>3 DEF Range
<1>5. n \in Range(r)
  <2>1. 1 \in 1 .. Len(r) /\ r[1] = n
    BY <1>1, <1>2
  <2> QED BY <1>3, <2>1 DEF Range
<1>6. \A m \in Range(s) : m \in Range(r)
  <2> SUFFICES ASSUME NEW j \in 1 .. Len(s) PROVE s[j] \in Range(r)
    BY <1>3 DEF Range
  <2>1. j + 1 \in 1 .. Len(r) /\ r[j + 1] = s[j]
    BY <1>1, <1>2
  <2> QED BY <1>3, <2>1 DEF Range
<1>7. n \notin Range(s) /\ IsInjective(s) => IsInjective(r)
  <2> SUFFICES ASSUME n \notin Range(s), IsInjective(s), NEW i \in 1 .. Len(r), NEW j \in 1 .. Len(r),
                      r[i] = r[j]
               PROVE  i = j
    BY <1>3 DEF IsInjective
  <2>1. \A k \in 1 .. Len(s) : s[k] # n
    BY <1>3 DEF Range
  <2>2. CASE i = 1 \/ j = 1
    BY <1>1, <1>2, <2>1, <2>2
  <2>3. CASE i # 1 /\ j # 1
    <3>1. i - 1 \in 1 .. Len(s) /\ j - 1 \in 1 .. Len(s) /\ s[i - 1] = s[j - 1]
      BY <1>1, <1>2, <2>3
    <3>2. i - 1 = j - 1
      BY <1>3, <3>1 DEF IsInjective
    <3> QED BY <1>1, <1>2, <3>2
  <2> QED BY <2>2, <2>3
<1> QED BY <1>2, <1>4, <1>5, <1>6, <1>7

\* The node that a push has not linked yet is the first of the thread's own string.
LEMMA OwnNode ==
  ASSUME NEW g, GhostType(g), Chains(g), Roots(g), NEW u \in Threads, Unlinked(u)
  PROVE  /\ thread[u].node \in Nodes /\ g.str[thread[u].node] = u /\ g.pos[thread[u].node] = 0
         /\ g.str[thread[u].node] # Elsewhere
<1>1. u \in Strings /\ Low(u) = 0 /\ u # Elsewhere
  BY Names DEF Strings, Low
<1>2. 0 <= g.hi[u] /\ g.spot[u][0] = thread[u].node
  BY DEF Roots
<1> QED BY <1>1, <1>2 DEF Chains, GhostType

\* The node that was popped becomes free.
LEMMA TakeItemGood ==
  ASSUME NEW g, Good(g), NEW t \in Threads, TakeItem(t) PROVE Good(g)'
<1>1. TypeInv /\ Taken /\ Counted /\ Holds(g) /\ Shape(g) /\ Contained(g) /\ InOrder(g) /\ Spare(g)
  BY DEF Good, Holds, Shape
<1>2. PICK n : n = thread[t].link.node
  OBVIOUS
<1>3. t \in Takers /\ At(t, "take") /\ thread[t] \in ThreadState
  BY <1>1 DEF TakeItem, Takers, TypeInv
<1>4. n \in Nodes \ Free /\ n < made /\ g.str[n] = Elsewhere
  BY <1>1, <1>2, <1>3 DEF Spare
<1>5. thread[t].node = Null
  BY <1>1, <1>3 DEF Holds, Place, PushPlace, Unlinked, Pushing, At, ThreadState
<1>6. /\ thread' = [thread EXCEPT ![t] = Idle] /\ thread'[t] = Idle
      /\ \A u \in Threads : u # t => thread'[u] = thread[u]
  BY <1>1 DEF TakeItem, TypeInv
<1>7. /\ elem' = [elem EXCEPT ![n] = thread[t].elem]
      /\ next' = [next EXCEPT ![n] = IF freeNodes = <<>> THEN Null ELSE Head(freeNodes)]
      /\ freeNodes' = <<n>> \o freeNodes
      /\ count' = count - 1
      /\ UNCHANGED <<head, tail, made, pushed, popped, blind>>
  BY <1>2 DEF TakeItem, histories
<1>8. /\ \A m \in Nodes : m # n => elem'[m] = elem[m] /\ next'[m] = next[m]
      /\ next'[n] \in Nodes \cup {Null}
      /\ elem' \in [Nodes -> Items \cup {Nothing}] /\ next' \in [Nodes -> Nodes \cup {End, Null}]
  <2>1. freeNodes # <<>> => Head(freeNodes) \in Nodes
    BY <1>1 DEF TypeInv
  <2>2. thread[t].elem \in Items \cup {Nothing}
    BY <1>3 DEF ThreadState
  <2> QED BY <1>1, <1>4, <1>7, <2>1, <2>2 DEF TypeInv
<1>9. /\ freeNodes' \in Seq(Nodes) /\ Free' = Free \cup {n} /\ IsInjective(freeNodes')
  BY <1>1, <1>4, <1>7, FreedFirst DEF TypeInv, Spare, Free
<1>10. TypeInv'
  <2>1. thread' \in [Threads -> ThreadState]
    BY <1>1, <1>6, IdleTyped DEF TypeInv
  <2>2. count' \in Int
    BY <1>1, <1>7 DEF TypeInv
  <2> QED BY <1>1, <1>7, <1>8, <1>9, <2>1, <2>2 DEF TypeInv
<1>11. GhostType(g)' /\ Chains(g)' /\ Ends(g)'
  BY <1>1, <1>7 DEF Shape, GhostType, Chains, Low, Ends
<1>12. Linked(g)'
  BY <1>1, <1>4, <1>8, NodesAre DEF Shape, Linked
<1>13. \A u \in Threads : /\ Unlinked(u)' <=> Unlinked(u)
                          /\ Unlinked(u) => thread'[u] = thread[u]
                          /\ Pushing(u)' => Pushing(u)
                          /\ At(u, "link")' => At(u, "link") /\ thread'[u] = thread[u]
  BY <1>3, <1>6, IdleTyped DEF Unlinked, Pushing, At
<1>14. Roots(g)'
  BY <1>1, <1>13 DEF Shape, Roots
<1>15. Takers' = Takers \ {t}
  BY <1>3, <1>6, IdleTyped DEF Takers, At
<1>16. \A u \in Takers' : u \in Takers /\ thread'[u] = thread[u] /\ thread[u].link.node # n
  BY <1>1, <1>2, <1>3, <1>6, <1>15 DEF Spare, Takers
<1>17. Spare(g)'
  <2>1. \A m \in Nodes : g.str[m] = Elsewhere <=>
          \/ made <= m
          \/ m \in Free'
          \/ \E u \in Takers' : thread'[u].link.node = m
    <3>1. \A m \in Nodes : m # n =>
            ((\E u \in Takers : thread[u].link.node = m) <=>
               \E u \in Takers' : thread'[u].link.node = m)
      BY <1>2, <1>15, <1>16
    <3> QED BY <1>1, <1>4, <1>9, <3>1 DEF Spare
  <2>2. \A u \in Takers' : thread'[u].link.node \in Nodes \ Free' /\ thread'[u].link.node < made
    BY <1>1, <1>9, <1>16 DEF Spare
  <2>3. \A u, v \in Takers' : thread'[u].link.node = thread'[v].link.node => u = v
    BY <1>1, <1>16 DEF Spare
  <2>4. \A m \in Free' : m < made
    BY <1>1, <1>4, <1>9 DEF Spare
  <2> QED BY <1>7, <1>9, <2>1, <2>2, <2>3, <2>4 DEF Spare
<1>18. Births(g)'
  BY <1>1, <1>13 DEF Shape, Births
<1>19. Live(g)' = Live(g) /\ Pushed' = Pushed /\ n \notin Live(g)
  BY <1>4, <1>7 DEF Live, Pushed
<1>20. \A m \in Live(g) : elem'[m] = elem[m]
  BY <1>8, <1>19 DEF Live
<1>21. Contained(g)'
  <2>1. \A u \in Threads : Unlinked(u)' => elem'[thread'[u].node] = <<u, pushed[u]>>
    <3> SUFFICES ASSUME NEW u \in Threads, Unlinked(u) PROVE elem'[thread[u].node] = <<u, pushed[u]>>
      BY <1>13
    <3>1. thread[u].node \in Nodes /\ thread[u].node # n
      BY <1>1, <1>4, OwnNode DEF Shape
    <3> QED BY <1>1, <1>8, <3>1 DEF Contained
  <2>2. \A m \in Live(g) : elem'[m] \in Pushed \ popped
    BY <1>1, <1>20 DEF Contained
  <2>3. \A m, k \in Live(g) : elem'[m] = elem'[k] => m = k
    BY <1>1, <1>20 DEF Contained
  <2>4. \A i \in Pushed \ popped : \E m \in Live(g) : elem'[m] = i
    BY <1>1, <1>20 DEF Contained
  <2>5. \A u \in Threads : pushed[u] <= MaxItems[u] /\ (Pushing(u)' => 1 <= pushed[u])
    BY <1>1, <1>13 DEF Contained
  <2>6. popped' = popped /\ pushed' = pushed /\ popped \subseteq Pushed
    BY <1>1, <1>7 DEF Contained
  <2> QED BY ONLY <1>19, <2>1, <2>2, <2>3, <2>4, <2>5, <2>6 DEF Contained
<1>22. Taken'
  BY <1>1, <1>7, <1>16 DEF Taken
<1>23. Counted'
  <2>1. IsFiniteSet(popped) /\ IsFiniteSet(Takers) /\ IsFiniteSet(Returned)
    BY <1>1, ItemsFinite, TSQueueAssumption, FS_Subset DEF TypeInv, Takers, Returned
  <2>2. Cardinality(popped) \in Nat /\ Cardinality(Takers) \in Nat /\ Cardinality(Returned) \in Nat
    BY <2>1, FS_CardinalityType
  <2>3. Cardinality(Takers') = Cardinality(Takers) - 1
    BY <1>3, <1>15, <2>1, FS_RemoveElement
  <2>4. Returned' = Returned
    <3>1. \A u \in Threads : thread'[u].node = thread[u].node
      BY <1>5, <1>6, IdleTyped
    <3> QED BY <1>7, <3>1, ItemsAre DEF Returned
  <2>5. head' = head /\ popped' = popped /\ count' = count - 1
    BY <1>7
  <2> QED BY <1>1, <2>2, <2>3, <2>4, <2>5 DEF Counted
<1>24. \A u \in Threads : Place(u, g)'
  <2>1. Place(t, g)'
    BY ONLY <1>6, IdleTyped, NodesAre DEF Place, PushPlace, PopPlace, Unlinked, Pushing, At
  <2>2. Advance(g, g)
    <3>1. head.seq < g.hi[Queue] => /\ g.str[g.spot[Queue][head.seq + 1]] = Queue
                                    /\ g.spot[Queue][head.seq + 1] \in Nodes
      <4>1. head.seq + 1 \in Nat /\ g.hi[Queue] \in Int /\ Queue \in Strings /\ Low(Queue) = head.seq
            /\ head.seq \in Nat
        BY <1>1, EndsTyped DEF Shape, GhostType, Strings, Low
      <4> QED BY <1>1, <4>1 DEF Shape, Chains, GhostType
    <3>2. head.seq < g.hi[Queue] =>
            elem'[g.spot[Queue][head.seq + 1]] = elem[g.spot[Queue][head.seq + 1]]
      BY <1>4, <1>8, <3>1, Names DEF Strings
    <3>3. g.hi[Queue] \in Int
      BY <1>1 DEF Shape, GhostType, Strings
    <3> QED BY <1>1, <1>7, <3>2, <3>3, EndsTyped DEF Advance
  <2>3. ASSUME NEW u \in Threads, u # t PROVE Place(u, g)'
    <3>1. thread'[u] = thread[u] /\ Place(u, g) /\ GhostType(g)
      BY <1>1, <1>6, <2>3 DEF Holds, Shape
    <3> QED BY ONLY u \in Threads, <1>1, <1>10, <2>2, <3>1, OtherPlaces
  <2> QED BY <2>1, <2>3
<1>25. InOrder(g)'
  <2>1. \A m \in Nodes : g.str[m] = Queue => elem'[m] = elem[m]
    BY <1>4, <1>8, Names DEF Strings
  <2> QED BY <1>1, <1>7, <2>1 DEF InOrder, FifoOrder
<1>26. Holds(g)'
  BY <1>11, <1>12, <1>14, <1>17, <1>18, <1>21, <1>24, <1>25 DEF Holds, Shape
<1> QED BY <1>10, <1>22, <1>23, <1>26 DEF Good

-----------------------------------------------------------------------------
(* A push links its node, and the string that hangs on it, to another string. *)

\* The compare and swap of pNext succeeds: the thread's string is appended to the one that
\* holds the node, the queue or the string of a thread that got its node later.
LEMMA LinkNodeGood ==
  ASSUME NEW g, Good(g), NEW t \in Threads, LinkNode(t), CanLink(thread[t].link.node)
  PROVE  \E h : Good(h)'
<1>1. TypeInv /\ Taken /\ Counted /\ Holds(g) /\ Shape(g) /\ Contained(g) /\ InOrder(g)
      /\ GhostType(g) /\ Chains(g) /\ Roots(g)
  BY DEF Good, Holds, Shape
<1>2. PICK x \in ThreadState : x = thread[t]
  BY <1>1 DEF TypeInv
<1>3. /\ x.at = "link" /\ x.link.seq \in Nat /\ Unlinked(t)
  BY <1>2 DEF LinkNode, At, ThreadState, Unlinked
<1>4. PICK c : c = x.link.node
  OBVIOUS
<1>5. PICK d : d = x.node
  OBVIOUS
<1>6. /\ c \in Nodes /\ next[c] = End
      /\ x.link.seq <= tail.seq /\ (x.link.seq = tail.seq => c = tail.node)
  BY <1>1, <1>2, <1>3, <1>4 DEF Holds, Place, PushPlace, CanLink
<1>7. /\ next' = [next EXCEPT ![c] = d] /\ blind' = (blind \/ c \notin InQueue)
      /\ UNCHANGED <<head, tail, freeNodes, made, elem, count, pushed, popped>>
  BY <1>2, <1>4, <1>5 DEF LinkNode
<1>8. PICK r : r = [x EXCEPT !.at = "finish"]
  OBVIOUS
<1>9. /\ thread' = [thread EXCEPT ![t] = r] /\ thread'[t] = r /\ r \in ThreadState
      /\ r.at = "finish" /\ r.link = x.link /\ r.node = d
      /\ \A u \in Threads : u # t => thread'[u] = thread[u]
  <2>1. thread \in [Threads -> ThreadState]
    BY <1>1 DEF TypeInv
  <2>2. thread' = [thread EXCEPT ![t] = r]
    BY <1>2, <1>8, <2>1 DEF LinkNode, Go
  <2>3. r \in ThreadState /\ r.at = "finish" /\ r.link = x.link /\ r.node = d
    BY <1>2, <1>5, <1>8 DEF ThreadState, Places
  <2> QED BY <2>1, <2>2, <2>3
<1>10. PICK s : s = g.str[c]
  OBVIOUS
<1>11. s \in Strings /\ s # Elsewhere /\ s # t
  <2>1. s # Elsewhere
    BY <1>1, <1>6, <1>10 DEF Shape, Linked
  <2>2. s # t
    <3>1. g.born[t] \in Nat
      BY <1>1 DEF GhostType
    <3>2. s = t => g.born[t] < g.born[t]
      BY <1>1, <1>2, <1>3, <1>4, <1>10 DEF Shape, Births, At
    <3> QED BY <3>1, <3>2
  <2> QED BY <1>1, <1>6, <1>10, <2>1, <2>2 DEF GhostType
<1>12. PICK b \in Nat : b = g.hi[s] /\ g.pos[c] = b /\ g.spot[s][b] = c
  <2>1. g.pos[c] \in Nat /\ g.spot[s][g.pos[c]] = c /\ g.pos[c] <= g.hi[s]
    BY <1>1, <1>6, <1>10, <1>11 DEF Chains, GhostType
  <2>2. g.pos[c] = g.hi[s]
    <3>1. next[c] = IF g.pos[c] = g.hi[s] THEN End ELSE g.spot[s][g.pos[c] + 1]
      BY <1>1, <1>6, <1>10, <1>11 DEF Shape, Linked
    <3>2. g.spot[s][g.pos[c] + 1] \in Nodes
      BY <1>1, <1>11, <2>1 DEF GhostType
    <3> QED BY <1>6, <3>1, <3>2, NodesAre
  <2> QED BY <2>1, <2>2
<1>13. PICK a \in Nat : a = g.hi[t]
  BY <1>1, <1>3 DEF Roots, GhostType, Strings
<1>14. /\ d \in Nodes /\ g.str[d] = t /\ g.pos[d] = 0 /\ g.spot[t][0] = d
       /\ t \in Strings /\ t # Elsewhere /\ Low(t) = 0 /\ t # Queue
  BY <1>1, <1>2, <1>3, <1>5, OwnNode, Names DEF Roots, Strings, Low
<1>15. PICK st \in [Nodes -> Strings \cup {Elsewhere}] :
         \A m \in Nodes : st[m] = IF g.str[m] = t THEN s ELSE g.str[m]
  <2>1. [m \in Nodes |-> IF g.str[m] = t THEN s ELSE g.str[m]] \in [Nodes -> Strings \cup {Elsewhere}]
    BY <1>1, <1>11 DEF GhostType
  <2> QED BY <2>1
<1>16. PICK po \in [Nodes -> Nat] :
         \A m \in Nodes : po[m] = IF g.str[m] = t THEN g.pos[m] + b + 1 ELSE g.pos[m]
  <2>1. [m \in Nodes |-> IF g.str[m] = t THEN g.pos[m] + b + 1 ELSE g.pos[m]] \in [Nodes -> Nat]
    BY <1>1 DEF GhostType
  <2> QED BY <2>1
<1>17. PICK q \in [Nat -> Nodes] :
         \A p \in Nat : q[p] = IF b < p THEN g.spot[t][p - b - 1] ELSE g.spot[s][p]
  <2>1. [p \in Nat |-> IF b < p THEN g.spot[t][p - b - 1] ELSE g.spot[s][p]] \in [Nat -> Nodes]
    <3>1. g.spot[t] \in [Nat -> Nodes] /\ g.spot[s] \in [Nat -> Nodes]
      BY <1>1, <1>11, <1>14 DEF GhostType
    <3> QED BY <3>1
  <2> QED BY <2>1
<1>18. PICK h : h = [str |-> st, pos |-> po, spot |-> [g.spot EXCEPT ![s] = q],
                     hi |-> [g.hi EXCEPT ![s] = b + a + 1, ![t] = -1],
                     born |-> g.born, clock |-> g.clock]
  OBVIOUS
<1>19. /\ h.str = st /\ h.pos = po /\ h.born = g.born /\ h.clock = g.clock
       /\ \A u \in Strings : /\ h.spot[u] = IF u = s THEN q ELSE g.spot[u]
                             /\ h.hi[u] = IF u = s THEN b + a + 1 ELSE IF u = t THEN -1 ELSE g.hi[u]
       /\ h.spot \in [Strings -> [Nat -> Nodes]] /\ h.hi \in [Strings -> Int]
  BY <1>1, <1>11, <1>14, <1>17, <1>18 DEF GhostType
<1>20. GhostType(h) /\ GhostType(h)'
  BY <1>1, <1>15, <1>16, <1>19 DEF GhostType
<1>21. TypeInv'
  <2>1. thread' \in [Threads -> ThreadState]
    BY <1>1, <1>9 DEF TypeInv
  <2>2. next' \in [Nodes -> Nodes \cup {End, Null}]
    BY <1>1, <1>6, <1>7, <1>14 DEF TypeInv
  <2>3. blind' \in BOOLEAN
    BY <1>7
  <2> QED BY <1>1, <1>7, <2>1, <2>2, <2>3 DEF TypeInv
<1>22. \A u \in Strings : Low(u)' = Low(u) /\ Low(u) \in Nat
  BY <1>1, <1>7, EndsTyped DEF Low
<1>23. Low(s) <= b
  BY <1>1, <1>6, <1>10, <1>11, <1>12 DEF Chains
<1>24. Chains(h)'
  <2>1. ASSUME NEW m \in Nodes, st[m] # Elsewhere
        PROVE  Low(st[m]) <= po[m] /\ po[m] <= h.hi[st[m]] /\ h.spot[st[m]][po[m]] = m
    <3>1. CASE g.str[m] = t
      <4>1. g.pos[m] \in Nat /\ g.pos[m] <= a /\ g.spot[t][g.pos[m]] = m
        BY <1>1, <1>13, <1>14, <3>1 DEF Chains, GhostType
      <4>2. st[m] = s /\ po[m] = g.pos[m] + b + 1
        BY <1>15, <1>16, <3>1
      <4>3. h.hi[s] = b + a + 1 /\ h.spot[s] = q
        BY <1>11, <1>19
      <4>4. b < po[m] /\ po[m] - b - 1 = g.pos[m] /\ po[m] \in Nat
        BY <4>1, <4>2
      <4>5. q[po[m]] = g.spot[t][po[m] - b - 1]
        BY <1>17, <4>4
      <4> QED BY <1>22, <1>11, <1>23, <4>1, <4>2, <4>3, <4>4, <4>5
    <3>2. CASE g.str[m] # t
      <4>1. PICK u : u = g.str[m]
        OBVIOUS
      <4>2. st[m] = u /\ po[m] = g.pos[m] /\ u \in Strings /\ u # Elsewhere /\ u # t
        BY <1>1, <1>15, <1>16, <2>1, <3>2, <4>1 DEF GhostType
      <4>3. Low(u) <= g.pos[m] /\ g.pos[m] <= g.hi[u] /\ g.spot[u][g.pos[m]] = m /\ g.pos[m] \in Nat
        BY <1>1, <4>1, <4>2 DEF Chains, GhostType
      <4>4. CASE u = s
        BY <1>12, <1>17, <1>19, <1>11, <4>2, <4>3, <4>4
      <4>5. CASE u # s
        BY <1>19, <4>2, <4>3, <4>5
      <4> QED BY <4>4, <4>5
    <3> QED BY <3>1, <3>2
  <2>2. ASSUME NEW u \in Strings, NEW p \in Nat, Low(u) <= p, p <= h.hi[u]
        PROVE  st[h.spot[u][p]] = u /\ po[h.spot[u][p]] = p
    <3>1. CASE u = s /\ b < p
      <4>1. PICK k \in Nat : k = p - b - 1
        BY <3>1
      <4>2. k <= a /\ h.spot[u][p] = g.spot[t][k]
        BY <1>11, <1>17, <1>19, <2>2, <3>1, <4>1
      <4>3. g.str[g.spot[t][k]] = t /\ g.pos[g.spot[t][k]] = k /\ g.spot[t][k] \in Nodes
        <5>1. Low(t) <= k /\ k <= g.hi[t]
          BY <1>13, <1>14, <4>2
        <5>2. g.spot[t][k] \in Nodes
          BY <1>1, <1>14 DEF GhostType
        <5> QED BY <1>1, <1>14, <5>1, <5>2 DEF Chains
      <4> QED BY <1>15, <1>16, <3>1, <4>1, <4>2, <4>3
    <3>2. CASE u = s /\ ~(b < p)
      <4>1. p <= b /\ h.spot[u][p] = g.spot[s][p]
        BY <1>11, <1>17, <1>19, <3>2
      <4>2. g.str[g.spot[s][p]] = s /\ g.pos[g.spot[s][p]] = p /\ g.spot[s][p] \in Nodes
        BY <1>1, <1>11, <1>12, <2>2, <3>2, <4>1 DEF Chains, GhostType
      <4> QED BY <1>11, <1>15, <1>16, <3>2, <4>1, <4>2
    <3>3. CASE u # s
      <4>1. u # t
        BY <1>14, <1>19, <2>2, <3>3
      <4>2. h.spot[u] = g.spot[u] /\ h.hi[u] = g.hi[u]
        BY <1>19, <3>3, <4>1
      <4>3. g.str[g.spot[u][p]] = u /\ g.pos[g.spot[u][p]] = p /\ g.spot[u][p] \in Nodes
        BY <1>1, <2>2, <4>2 DEF Chains, GhostType
      <4> QED BY <1>15, <1>16, <4>1, <4>2, <4>3
    <3> QED BY <3>1, <3>2, <3>3
  <2>3. \A m \in Nodes : h.str[m] # Elsewhere =>
          /\ Low(h.str[m])' <= h.pos[m] /\ h.pos[m] <= h.hi[h.str[m]]
          /\ h.spot[h.str[m]][h.pos[m]] = m
    <3> SUFFICES ASSUME NEW m \in Nodes, h.str[m] # Elsewhere
                 PROVE  /\ Low(h.str[m])' <= h.pos[m] /\ h.pos[m] <= h.hi[h.str[m]]
                        /\ h.spot[h.str[m]][h.pos[m]] = m
      OBVIOUS
    <3>1. h.str[m] = st[m] /\ h.pos[m] = po[m] /\ st[m] \in Strings
      BY <1>15, <1>19
    <3> QED BY <1>22, <2>1, <3>1
  <2>4. \A u \in Strings : \A p \in Nat :
          Low(u)' <= p /\ p <= h.hi[u] => h.str[h.spot[u][p]] = u /\ h.pos[h.spot[u][p]] = p
    BY <1>19, <1>22, <2>2
  <2> QED BY ONLY <2>3, <2>4 DEF Chains
<1>25. \A m \in Nodes : st[m] = Elsewhere <=> g.str[m] = Elsewhere
  BY <1>11, <1>14, <1>15
<1>26. Linked(h)'
  <2> SUFFICES ASSUME NEW m \in Nodes
               PROVE  IF st[m] = Elsewhere THEN next'[m] # End
                      ELSE next'[m] = IF po[m] = h.hi[st[m]] THEN End ELSE h.spot[st[m]][po[m] + 1]
    BY <1>19 DEF Linked
  <2>1. IF g.str[m] = Elsewhere THEN next[m] # End
        ELSE next[m] = IF g.pos[m] = g.hi[g.str[m]] THEN End ELSE g.spot[g.str[m]][g.pos[m] + 1]
    BY <1>1 DEF Shape, Linked
  <2>2. next'[m] = IF m = c THEN d ELSE next[m]
    BY <1>1, <1>7 DEF TypeInv
  <2>3. CASE g.str[m] = Elsewhere
    BY <1>25, <1>10, <1>11, <2>1, <2>2, <2>3
  <2>4. CASE m = c
    <3>1. st[m] = s /\ po[m] = b /\ h.hi[s] = b + a + 1 /\ h.spot[s] = q
      BY <1>10, <1>11, <1>12, <1>15, <1>16, <1>19, <2>4
    <3>2. q[b + 1] = d
      <4>1. b + 1 \in Nat /\ b < b + 1 /\ (b + 1) - b - 1 = 0
        OBVIOUS
      <4> QED BY <1>14, <1>17, <4>1
    <3> QED BY <1>11, <2>2, <2>4, <3>1, <3>2
  <2>5. CASE g.str[m] = t /\ m # c
    <3>1. g.pos[m] \in Nat /\ g.pos[m] <= a
      BY <1>1, <1>13, <1>14, <2>5 DEF Chains, GhostType
    <3>2. st[m] = s /\ po[m] = g.pos[m] + b + 1 /\ h.hi[s] = b + a + 1 /\ h.spot[s] = q
      BY <1>11, <1>15, <1>16, <1>19, <2>5
    <3>3. po[m] + 1 \in Nat /\ b < po[m] + 1 /\ (po[m] + 1) - b - 1 = g.pos[m] + 1
      BY <3>1, <3>2
    <3>4. q[po[m] + 1] = g.spot[t][g.pos[m] + 1]
      BY <1>17, <3>3
    <3>5. po[m] = h.hi[s] <=> g.pos[m] = g.hi[t]
      BY <1>13, <3>1, <3>2
    <3> QED BY <1>11, <1>14, <2>1, <2>2, <2>5, <3>2, <3>4, <3>5
  <2>6. CASE g.str[m] = s /\ m # c
    <3>1. g.pos[m] \in Nat /\ g.pos[m] <= b /\ g.spot[s][g.pos[m]] = m
      BY <1>1, <1>11, <1>12, <2>6 DEF Chains, GhostType
    <3>2. g.pos[m] < b
      BY <1>12, <2>6, <3>1
    <3>3. st[m] = s /\ po[m] = g.pos[m] /\ h.hi[s] = b + a + 1 /\ h.spot[s] = q
      BY <1>11, <1>15, <1>16, <1>19, <2>6
    <3>4. q[po[m] + 1] = g.spot[s][g.pos[m] + 1]
      BY <1>17, <3>1, <3>2, <3>3
    <3> QED BY <1>11, <1>12, <2>1, <2>2, <2>6, <3>2, <3>1, <3>3, <3>4
  <2>7. CASE g.str[m] # Elsewhere /\ g.str[m] # t /\ g.str[m] # s
    <3>1. g.str[m] \in Strings /\ m # c
      BY <1>1, <1>10, <2>7 DEF GhostType
    <3>2. /\ st[m] = g.str[m] /\ po[m] = g.pos[m]
          /\ h.hi[g.str[m]] = g.hi[g.str[m]] /\ h.spot[g.str[m]] = g.spot[g.str[m]]
      BY <1>15, <1>16, <1>19, <2>7, <3>1
    <3> QED BY <2>1, <2>2, <2>7, <3>1, <3>2
  <2> QED BY <2>3, <2>4, <2>5, <2>6, <2>7
<1>27. /\ head.node \in Nodes /\ g.str[head.node] = Queue /\ g.pos[head.node] = head.seq
       /\ tail.node \in Nodes /\ g.str[tail.node] = Queue /\ g.pos[tail.node] = tail.seq
       /\ head.seq \in Nat /\ tail.seq \in Nat /\ Queue \in Strings
  BY <1>1, EndsTyped DEF Shape, Ends, Strings
<1>28. Ends(h)'
  BY <1>7, <1>14, <1>15, <1>16, <1>19, <1>27 DEF Ends
<1>29. \A u \in Threads : Unlinked(u)' <=> Unlinked(u) /\ u # t
  BY <1>9 DEF Unlinked
<1>30. Roots(h)'
  <2> SUFFICES ASSUME NEW u \in Threads
               PROVE  IF Unlinked(u)' THEN 0 <= h.hi[u] /\ h.spot[u][0] = thread'[u].node
                                      ELSE h.hi[u] = -1
    BY DEF Roots
  <2>1. /\ u \in Strings
        /\ IF Unlinked(u) THEN 0 <= g.hi[u] /\ g.spot[u][0] = thread[u].node ELSE g.hi[u] = -1
    BY <1>1 DEF Roots, Strings
  <2>2. CASE u = t
    BY <1>11, <1>19, <1>29, <2>1, <2>2
  <2>3. CASE u = s
    <3>1. Unlinked(u) /\ Unlinked(u)'
      BY <1>11, <1>12, <1>29, <2>1, <2>3
    <3>2. q[0] = g.spot[s][0]
      BY <1>12, <1>17
    <3> QED BY <1>9, <1>11, <1>12, <1>13, <1>19, <2>1, <2>3, <3>1, <3>2
  <2>4. CASE u # t /\ u # s
    BY <1>9, <1>19, <1>29, <2>1, <2>4
  <2> QED BY <2>2, <2>3, <2>4
<1>31. Takers' = Takers /\ t \notin Takers /\ \A u \in Takers : thread'[u] = thread[u]
  BY <1>2, <1>3, <1>9 DEF Takers, At
<1>32. Spare(h)'
  <2>1. Spare(g) /\ Free' = Free
    BY <1>1, <1>7 DEF Shape, Free
  <2>2. \A m \in Nodes : h.str[m] = Elsewhere <=>
          made <= m \/ m \in Free \/ \E u \in Takers' : thread'[u].link.node = m
    <3>1. \A m \in Nodes : (\E u \in Takers' : thread'[u].link.node = m) <=>
                              \E u \in Takers : thread[u].link.node = m
      BY <1>31
    <3> QED BY <1>19, <1>25, <2>1, <3>1 DEF Spare
  <2> QED BY <1>7, <1>31, <2>1, <2>2 DEF Spare
<1>33. Births(h)'
  <2> SUFFICES ASSUME NEW u \in Threads, NEW v \in Threads,
                      At(u, "link")', st[thread'[u].link.node] = v
               PROVE  g.born[u] < g.born[v]
    BY <1>1, <1>19 DEF Shape, Births
  <2>1. u # t /\ thread'[u] = thread[u] /\ At(u, "link")
    BY <1>9 DEF At
  <2>2. PICK m \in Nodes : m = thread[u].link.node
    BY <1>1, <2>1 DEF Holds, Place, PushPlace, At
  <2>3. g.born[u] \in Nat /\ g.born[v] \in Nat /\ g.born[t] \in Nat
    BY <1>1 DEF GhostType
  <2>4. CASE g.str[m] = t
    <3>1. v = s
      BY <1>15, <2>1, <2>2, <2>4
    <3>2. g.born[u] < g.born[t]
      BY <1>1, <2>1, <2>2, <2>4 DEF Shape, Births
    <3>3. g.born[t] < g.born[s]
      BY <1>1, <1>2, <1>3, <1>4, <1>10, <3>1 DEF Shape, Births, At
    <3> QED BY <2>3, <3>1, <3>2, <3>3
  <2>5. CASE g.str[m] # t
    <3>1. g.str[m] = v
      BY <1>15, <2>1, <2>2, <2>5
    <3> QED BY <1>1, <2>1, <2>2, <3>1 DEF Shape, Births
  <2> QED BY <2>4, <2>5
<1>34. Live(h)' = Live(g) /\ Pushed' = Pushed
  BY <1>7, <1>19, <1>25 DEF Live, Pushed
<1>35. Contained(h)'
  <2>1. \A u \in Threads : Unlinked(u)' => elem[thread'[u].node] = <<u, pushed[u]>>
    BY <1>1, <1>9, <1>29 DEF Contained
  <2>2. \A u \in Threads : Pushing(u)' => Pushing(u)
    BY <1>3, <1>9 DEF Pushing, Unlinked, At
  <2>3. \A u \in Threads : pushed[u] <= MaxItems[u] /\ (Pushing(u)' => 1 <= pushed[u])
    BY <1>1, <2>2 DEF Contained
  <2>4. popped' = popped /\ pushed' = pushed /\ elem' = elem /\ Contained(g)
    BY <1>1, <1>7
  <2> QED BY ONLY <1>34, <2>1, <2>3, <2>4 DEF Contained
<1>36. Taken'
  BY <1>1, <1>7, <1>31 DEF Taken
<1>37. Counted'
  BY <1>1, <1>2, <1>3, <1>5, <1>7, <1>9, SameCount
<1>38. g.hi[Queue] <= h.hi[Queue] /\ \A p \in Nat : p <= g.hi[Queue] => h.spot[Queue][p] = g.spot[Queue][p]
  <2>1. CASE s = Queue
    BY <1>12, <1>14, <1>17, <1>19, <1>27, <2>1
  <2>2. CASE s # Queue
    <3>1. g.hi[Queue] \in Int
      BY <1>1, <1>27 DEF GhostType
    <3> QED BY <1>14, <1>19, <1>27, <2>2, <3>1
  <2> QED BY <2>1, <2>2
<1>39. \A u \in Threads : Place(u, h)'
  <2>1. Place(t, h)'
    <3>1. x.link.seq = tail.seq => tail.seq < h.hi[Queue] /\ d = h.spot[Queue][tail.seq + 1]
      <4>1. SUFFICES ASSUME x.link.seq = tail.seq
                     PROVE  tail.seq < h.hi[Queue] /\ d = h.spot[Queue][tail.seq + 1]
        OBVIOUS
      <4>2. s = Queue /\ b = tail.seq
        BY <1>6, <1>10, <1>12, <1>27, <4>1
      <4>3. h.hi[Queue] = b + a + 1 /\ h.spot[Queue] = q
        BY <1>19, <1>27, <4>2
      <4>4. b + 1 \in Nat /\ b < b + 1 /\ (b + 1) - b - 1 = 0
        OBVIOUS
      <4>5. q[b + 1] = d
        BY <1>14, <1>17, <4>4
      <4> QED BY <4>2, <4>3, <4>5
    <3>2. tail' = tail
      BY <1>7
    <3> QED BY ONLY <1>4, <1>6, <1>9, <1>14, <3>1, <3>2 DEF Place, PushPlace, PopPlace, Unlinked, Pushing, At
  <2>2. Advance(g, h)
    BY <1>7, <1>27, <1>38, <1>1, EndsTyped DEF Advance
  <2>3. ASSUME NEW u \in Threads, u # t PROVE Place(u, h)'
    <3>1. thread'[u] = thread[u] /\ Place(u, g)
      BY <1>1, <1>9, <2>3 DEF Holds
    <3> QED BY ONLY u \in Threads, <1>1, <1>20, <1>21, <2>2, <3>1, OtherPlaces
  <2> QED BY <2>1, <2>3
<1>40. InOrder(h)'
  <2>1. SUFFICES ASSUME ~blind' PROVE InOrder(h)'
    BY DEF InOrder
  <2>2. ~blind /\ s = Queue
    BY <1>1, <1>6, <1>7, <1>10, <2>1, QueueNodes DEF Shape
  <2>3. /\ \A u \in Threads : g.hi[u] <= 0
        /\ \A m, k \in Nodes :
             g.str[m] = Queue /\ g.str[k] = Queue /\ m # head.node /\ k # head.node
               /\ elem[m][1] = elem[k][1] /\ elem[m][2] < elem[k][2] => g.pos[m] < g.pos[k]
        /\ FifoOrder
    BY <1>1, <2>2 DEF InOrder
  <2>4. a = 0
    BY <1>13, <2>3
  <2>5. \A m \in Nodes : g.str[m] = t => m = d
    <3> SUFFICES ASSUME NEW m \in Nodes, g.str[m] = t PROVE m = d
      OBVIOUS
    <3>1. g.pos[m] \in Nat /\ g.pos[m] <= a /\ g.spot[t][g.pos[m]] = m
      BY <1>1, <1>13, <1>14 DEF Chains, GhostType
    <3> QED BY <1>14, <2>4, <3>1
  <2>6. elem[d] = <<t, pushed[t]>> /\ pushed[t] \in Nat
    BY <1>1, <1>2, <1>3, <1>5 DEF Contained, TypeInv
  <2>7. ASSUME NEW u \in Threads PROVE h.hi[u] <= 0
    <3>1. u \in Strings /\ u # s
      BY <2>2, Names DEF Strings
    <3>2. h.hi[u] = IF u = t THEN -1 ELSE g.hi[u]
      BY <1>19, <3>1
    <3> QED BY <2>3, <3>2
  <2>8. ASSUME NEW m \in Nodes, NEW k \in Nodes, st[m] = Queue, st[k] = Queue,
               m # head.node, k # head.node, elem[m][1] = elem[k][1], elem[m][2] < elem[k][2]
        PROVE  po[m] < po[k]
    <3>1. (g.str[m] = Queue \/ m = d) /\ (g.str[k] = Queue \/ k = d)
      BY <1>15, <2>5, <2>8
    <3>2. CASE g.str[m] = Queue /\ g.str[k] = Queue
      BY <1>14, <1>16, <2>3, <2>8, <3>2
    <3>3. CASE g.str[m] = Queue /\ k = d
      <4>1. g.pos[m] \in Nat /\ g.pos[m] <= b
        BY <1>1, <1>11, <1>12, <2>2, <3>3 DEF Chains, GhostType
      <4> QED BY <1>14, <1>16, <3>3, <4>1
    <3>4. CASE m = d /\ g.str[k] = Queue
      <4>1. elem[k] \in Pushed
        BY <1>1, <2>8, <3>4, Names DEF Contained, Live, Strings
      <4>2. elem[k] \in Items /\ elem[k][2] <= pushed[elem[k][1]]
        BY <4>1 DEF Pushed
      <4>3. elem[k][1] = t /\ elem[k][2] <= pushed[t] /\ elem[k][2] \in Nat /\ pushed[t] < elem[k][2]
        BY <2>6, <2>8, <3>4, <4>2, ItemsAre
      <4> QED BY <2>6, <4>3
    <3>5. CASE m = d /\ k = d
      BY <2>6, <2>8, <3>5
    <3> QED BY <3>1, <3>2, <3>3, <3>4, <3>5
  <2>9. FifoOrder'
    BY <1>7, <2>3 DEF FifoOrder
  <2>10. head' = head /\ elem' = elem
    BY <1>7
  <2> QED BY ONLY <1>19, <2>7, <2>8, <2>9, <2>10 DEF InOrder
<1>41. Holds(h)'
  BY <1>20, <1>24, <1>26, <1>28, <1>30, <1>32, <1>33, <1>35, <1>39, <1>40 DEF Holds, Shape
<1>42. Good(h)'
  BY <1>21, <1>36, <1>37, <1>41 DEF Good
<1> QED BY <1>42

-----------------------------------------------------------------------------
(* A push begins: a free node, or a new one.                                *)

\* A list without its first node.
LEMMA WithoutFirst ==
  ASSUME NEW s \in Seq(Nodes), s # <<>>, IsInjective(s)
  PROVE  /\ Tail(s) \in Seq(Nodes) /\ Head(s) \in Nodes /\ Head(s) \in Range(s)
         /\ Range(Tail(s)) = Range(s) \ {Head(s)}
         /\ IsInjective(Tail(s))
<1>1. Len(s) \in Nat /\ Len(s) # 0 /\ s \in [1 .. Len(s) -> Nodes] /\ DOMAIN s = 1 .. Len(s)
  BY LenProperties
<1>2. PICK r : r = Tail(s)
  OBVIOUS
<1>3. /\ r \in Seq(Nodes) /\ Len(r) = Len(s) - 1 /\ DOMAIN r = 1 .. Len(r)
      /\ \A j \in 1 .. Len(r) : r[j] = s[j + 1]
  BY <1>1, <1>2
<1>4. Head(s) = s[1] /\ 1 \in 1 .. Len(s)
  BY <1>1
<1>5. \A m \in Range(r) : m \in Range(s) \ {Head(s)}
  <2> SUFFICES ASSUME NEW j \in 1 .. Len(r) PROVE r[j] \in Range(s) \ {Head(s)}
    BY <1>3 DEF Range
  <2>1. j + 1 \in 1 .. Len(s) /\ j + 1 # 1 /\ r[j] = s[j + 1]
    BY <1>1, <1>3
  <2> QED BY <1>1, <1>4, <2>1 DEF Range, IsInjective
<1>6. \A m \in Range(s) \ {Head(s)} : m \in Range(r)
  <2> SUFFICES ASSUME NEW j \in 1 .. Len(s), s[j] # Head(s) PROVE s[j] \in Range(r)
    BY <1>1 DEF Range
  <2>1. j - 1 \in 1 .. Len(r) /\ (j - 1) + 1 = j
    BY <1>1, <1>3, <1>4
  <2>2. r[j - 1] = s[j]
    BY <1>3, <2>1
  <2> QED BY <1>3, <2>1, <2>2 DEF Range
<1>7. IsInjective(r)
  <2> SUFFICES ASSUME NEW i \in 1 .. Len(r), NEW j \in 1 .. Len(r), r[i] = r[j] PROVE i = j
    BY <1>3 DEF IsInjective
  <2>1. i + 1 \in 1 .. Len(s) /\ j + 1 \in 1 .. Len(s) /\ s[i + 1] = s[j + 1]
    BY <1>1, <1>3
  <2>2. i + 1 = j + 1
    BY <1>1, <2>1 DEF IsInjective
  <2> QED BY <2>2
<1>8. Head(s) \in Nodes /\ Head(s) \in Range(s)
  BY <1>1, <1>4 DEF Range
<1> QED BY <1>2, <1>3, <1>5, <1>6, <1>7, <1>8

\* There are as many nodes as items, and the dummy: when none is free, each holds an item that has
\* been pushed, the popped ones in the hands of the threads that popped them.
LEMMA MadeFits ==
  ASSUME NEW g, Good(g), freeNodes = <<>>, NEW t \in Threads, pushed[t] < MaxItems[t]
  PROVE  made \in Nodes
<1>1. TypeInv /\ Taken /\ Contained(g) /\ Spare(g) /\ Ends(g) /\ GhostType(g)
  BY DEF Good, Holds, Shape
<1>2. PICK c \in Nat : c = Cardinality(Items)
  BY ItemsFinite
<1>3. made \in Nat /\ 1 <= made /\ made <= c + 1
  BY <1>1, <1>2, NodesAre DEF TypeInv
<1>4. Free = {}
  <2>1. DOMAIN freeNodes = {}
    OBVIOUS
  <2> QED BY <2>1 DEF Free, Range
<1>5. PICK S : S = (0 .. made - 1) \ {head.node}
  OBVIOUS
<1>6. \A m \in S : m \in Live(g) \/ \E u \in Takers : thread[u].link.node = m
  BY <1>1, <1>2, <1>3, <1>4, <1>5, NodesAre DEF Spare, Live
<1>7. PICK taker : \A m \in S : m \notin Live(g) => taker[m] \in Takers /\ thread[taker[m]].link.node = m
  <2>1. \A m \in S : m \notin Live(g) =>
          [k \in S |-> CHOOSE u \in Takers : thread[u].link.node = k][m] \in Takers
          /\ thread[[k \in S |-> CHOOSE u \in Takers : thread[u].link.node = k][m]].link.node = m
    BY <1>6
  <2> QED BY <2>1
<1>8. PICK f : f = [m \in S |-> IF m \in Live(g) THEN elem[m] ELSE thread[taker[m]].elem]
  OBVIOUS
<1>9. \A m \in S : IF m \in Live(g) THEN f[m] = elem[m] /\ f[m] \in Pushed \ popped
                   ELSE f[m] = thread[taker[m]].elem /\ f[m] \in popped
  BY <1>1, <1>7, <1>8 DEF Contained, Taken
<1>10. f \in Injection(S, Pushed)
  <2>1. f \in [S -> Pushed]
    BY <1>1, <1>8, <1>9 DEF Contained
  <2>2. \A m, k \in S : f[m] = f[k] => m = k
    <3> SUFFICES ASSUME NEW m \in S, NEW k \in S, f[m] = f[k] PROVE m = k
      OBVIOUS
    <3>1. m \in Live(g) <=> k \in Live(g)
      BY <1>9
    <3>2. CASE m \in Live(g)
      BY <1>1, <1>9, <3>1, <3>2 DEF Contained
    <3>3. CASE m \notin Live(g)
      <4>1. taker[m] \in Takers /\ taker[k] \in Takers /\ thread[taker[m]].elem = thread[taker[k]].elem
        BY <1>7, <1>9, <3>1, <3>3
      <4>2. taker[m] = taker[k]
        BY <1>1, <4>1 DEF Taken
      <4> QED BY <1>7, <3>1, <3>3, <4>2
    <3> QED BY <3>2, <3>3
  <2> QED BY <2>1, <2>2 DEF Injection, IsInjective
<1>11. PICK i : i = <<t, pushed[t] + 1>>
  OBVIOUS
<1>12. i \in Items /\ i \notin Pushed
  <2>1. pushed[t] \in Nat /\ MaxItems[t] \in Nat
    BY <1>1, TSQueueAssumption DEF TypeInv
  <2>2. i[1] = t /\ i[2] = pushed[t] + 1
    BY <1>11
  <2> QED BY <1>11, <2>1, <2>2, ItemsAre DEF Pushed
<1>13. Pushed \in SUBSET (Items \ {i})
  BY <1>12 DEF Pushed
<1>14. IsFiniteSet(Items \ {i}) /\ Cardinality(Items \ {i}) = c - 1
  BY <1>2, <1>12, ItemsFinite, FS_RemoveElement
<1>15. IsFiniteSet(Pushed) /\ Cardinality(Pushed) <= c - 1 /\ Cardinality(Pushed) \in Nat
  BY <1>13, <1>14, FS_Subset, FS_CardinalityType
<1>16. Cardinality(S) <= Cardinality(Pushed)
  BY <1>10, <1>15, FS_Injection
<1>17. IsFiniteSet(0 .. made - 1) /\ Cardinality(0 .. made - 1) = made
  <2>1. 0 \in Int /\ made - 1 \in Int
    BY <1>3
  <2>2. IsFiniteSet(0 .. made - 1) /\ Cardinality(0 .. made - 1) = IF 0 > made - 1 THEN 0 ELSE made - 1 - 0 + 1
    BY <2>1, FS_Interval
  <2> QED BY <1>3, <2>2
<1>18. Cardinality(S) >= made - 1
  <2>1. Cardinality(S) = IF head.node \in 0 .. made - 1 THEN made - 1 ELSE made
    BY <1>5, <1>17, FS_RemoveElement
  <2> QED BY <1>3, <2>1
<1>19. Cardinality(S) \in Nat
  BY <1>5, <1>17, FS_RemoveElement, FS_CardinalityType
<1>20. made <= c
  BY <1>2, <1>3, <1>15, <1>16, <1>18, <1>19
<1> QED BY <1>2, <1>3, <1>20, NodesAre

\* The node that a push takes, and what is left.
LEMMA NewNode ==
  ASSUME NEW g, Good(g), NEW t \in Threads, PushItem(t), NEW n,
         n = IF freeNodes # <<>> THEN Head(freeNodes) ELSE made
  PROVE  /\ n \in Nodes /\ g.str[n] = Elsewhere /\ \A u \in Takers : thread[u].link.node # n
         /\ freeNodes' \in Seq(Nodes) /\ Free' = Free \ {n} /\ IsInjective(freeNodes')
         /\ made' \in 1 .. Cardinality(Nodes) /\ made <= made' /\ n < made'
         /\ \A m \in Nodes : made' <= m \/ m \in Free' <=> (made <= m \/ m \in Free) /\ m # n
<1>1. TypeInv /\ Spare(g) /\ made \in Nat /\ 1 <= made
  BY NodesAre, ItemsFinite DEF Good, Holds, Shape, TypeInv
<1>2. CASE freeNodes # <<>>
  <2>1. n = Head(freeNodes) /\ freeNodes' = Tail(freeNodes) /\ made' = made
    BY <1>2 DEF PushItem
  <2>2. /\ freeNodes' \in Seq(Nodes) /\ n \in Nodes /\ n \in Free /\ Free' = Free \ {n}
        /\ IsInjective(freeNodes')
    BY <1>1, <1>2, <2>1, WithoutFirst DEF TypeInv, Spare, Free
  <2>3. g.str[n] = Elsewhere /\ n < made /\ \A u \in Takers : thread[u].link.node # n
    BY <1>1, <2>2 DEF Spare
  <2>4. n \in Nat /\ made' \in 1 .. Cardinality(Nodes)
    BY <1>1, <2>1, <2>2, NodesAre DEF TypeInv
  <2>5. \A m \in Nodes : m \in Nat
    BY NodesAre
  <2> QED BY <1>1, <2>1, <2>2, <2>3, <2>4, <2>5
<1>3. CASE freeNodes = <<>>
  <2>1. n = made /\ freeNodes' = freeNodes /\ made' = made + 1 /\ pushed[t] < MaxItems[t]
    BY <1>3 DEF PushItem
  <2>2. n \in Nodes
    BY <1>3, <2>1, MadeFits
  <2>3. made <= Cardinality(Items) /\ Cardinality(Items) \in Nat /\ Cardinality(Nodes) = Cardinality(Items) + 1
    BY <1>1, <2>1, <2>2, NodesAre, ItemsFinite
  <2>4. made' \in 1 .. Cardinality(Nodes) /\ made <= made' /\ n < made'
    BY <1>1, <2>1, <2>3
  <2>5. n \notin Free /\ g.str[n] = Elsewhere /\ \A u \in Takers : thread[u].link.node # n
    BY <1>1, <2>1, <2>2 DEF Spare
  <2>6. Free' = Free /\ freeNodes' \in Seq(Nodes) /\ IsInjective(freeNodes')
    BY <1>1, <2>1 DEF Free, TypeInv, Spare
  <2>7. \A m \in Nodes : m \in Nat /\ (made' <= m <=> made <= m /\ m # n)
    BY <1>1, <2>1, NodesAre
  <2> QED BY <2>2, <2>4, <2>5, <2>6, <2>7
<1> QED BY <1>2, <1>3

\* PushItem: a thread gets a node, and with it a string.
LEMMA PushItemGood ==
  ASSUME NEW g, Good(g), NEW t \in Threads, PushItem(t)
  PROVE  \E h : Good(h)'
<1>1. TypeInv /\ Taken /\ Counted /\ Holds(g) /\ Shape(g) /\ Contained(g) /\ InOrder(g)
      /\ GhostType(g) /\ Chains(g) /\ Roots(g) /\ Place(t, g)
  BY DEF Good, Holds, Shape
<1>2. PICK n : n = IF freeNodes # <<>> THEN Head(freeNodes) ELSE made
  OBVIOUS
<1>3. /\ n \in Nodes /\ g.str[n] = Elsewhere /\ \A u \in Takers : thread[u].link.node # n
      /\ freeNodes' \in Seq(Nodes) /\ Free' = Free \ {n} /\ IsInjective(freeNodes')
      /\ made' \in 1 .. Cardinality(Nodes) /\ made <= made' /\ n < made'
      /\ \A m \in Nodes : made' <= m \/ m \in Free' <=> (made <= m \/ m \in Free) /\ m # n
  BY <1>2, NewNode
<1>4. PICK i : i = <<t, pushed[t] + 1>>
  OBVIOUS
<1>5. /\ At(t, "idle") /\ pushed[t] < MaxItems[t] /\ pushed[t] \in Nat /\ MaxItems[t] \in Nat
      /\ elem' = [elem EXCEPT ![n] = i] /\ next' = [next EXCEPT ![n] = End]
      /\ pushed' = [pushed EXCEPT ![t] = pushed[t] + 1]
      /\ UNCHANGED <<head, tail, count, popped, blind>>
  BY <1>1, <1>2, <1>4, TSQueueAssumption DEF PushItem, TypeInv
<1>6. PICK r : r = [Idle EXCEPT !.at = "tail sequence", !.node = n]
  OBVIOUS
<1>7. /\ thread' = [thread EXCEPT ![t] = r] /\ thread'[t] = r /\ r \in ThreadState
      /\ r.at = "tail sequence" /\ r.node = n
      /\ \A u \in Threads : u # t => thread'[u] = thread[u]
  <2>1. r \in ThreadState /\ r.at = "tail sequence" /\ r.node = n
    BY <1>3, <1>6, IdleTyped DEF ThreadState, Places
  <2>2. thread' = [thread EXCEPT ![t] = r]
    BY <1>2, <1>6 DEF PushItem
  <2> QED BY <1>1, <2>1, <2>2 DEF TypeInv
<1>8. i \in Items /\ i \notin Pushed /\ i[1] = t /\ i[2] = pushed[t] + 1
  BY <1>4, <1>5, ItemsAre DEF Pushed
<1>9. /\ \A m \in Nodes : m # n => elem'[m] = elem[m] /\ next'[m] = next[m]
      /\ elem'[n] = i /\ next'[n] = End
      /\ elem' \in [Nodes -> Items \cup {Nothing}] /\ next' \in [Nodes -> Nodes \cup {End, Null}]
  BY <1>1, <1>3, <1>5, <1>8 DEF TypeInv
<1>10. TypeInv'
  <2>1. thread' \in [Threads -> ThreadState] /\ pushed' \in [Threads -> Nat]
    <3>1. pushed[t] + 1 \in Nat
      BY <1>5
    <3> QED BY <1>1, <1>5, <1>7, <3>1 DEF TypeInv
  <2> QED BY <1>1, <1>3, <1>5, <1>9, <2>1 DEF TypeInv
<1>11. /\ t \in Strings /\ t # Elsewhere /\ t # Queue /\ Low(t) = 0 /\ ~Unlinked(t) /\ g.hi[t] = -1
       /\ Elsewhere \notin Strings /\ Queue \in Strings
       /\ thread[t].node = Null
  <2>1. ~Unlinked(t) /\ ~Pushing(t)
    BY <1>5 DEF Unlinked, Pushing, At
  <2>2. thread[t] \in ThreadState
    BY <1>1 DEF TypeInv
  <2>3. thread[t].node = Null
    BY <1>1, <2>1, <2>2 DEF Place, PushPlace, ThreadState
  <2> QED BY <1>1, <2>1, <2>3, Names DEF Roots, Strings, Low
<1>12. \A m \in Nodes : g.str[m] # t
  <2> SUFFICES ASSUME NEW m \in Nodes, g.str[m] = t PROVE FALSE
    OBVIOUS
  <2>1. g.pos[m] \in Nat /\ g.pos[m] <= -1
    BY <1>1, <1>11 DEF Chains, GhostType
  <2> QED BY <2>1
<1>13. PICK q \in [Nat -> Nodes] : q[0] = n
  <2>1. [p \in Nat |-> n] \in [Nat -> Nodes] /\ [p \in Nat |-> n][0] = n
    BY <1>3
  <2> QED BY <2>1
<1>14. PICK h : h = [str |-> [g.str EXCEPT ![n] = t], pos |-> [g.pos EXCEPT ![n] = 0],
                     spot |-> [g.spot EXCEPT ![t] = q], hi |-> [g.hi EXCEPT ![t] = 0],
                     born |-> [g.born EXCEPT ![t] = g.clock + 1], clock |-> g.clock + 1]
  OBVIOUS
<1>15. /\ \A m \in Nodes : /\ h.str[m] = IF m = n THEN t ELSE g.str[m]
                           /\ h.pos[m] = IF m = n THEN 0 ELSE g.pos[m]
       /\ \A s \in Strings : /\ h.spot[s] = IF s = t THEN q ELSE g.spot[s]
                             /\ h.hi[s] = IF s = t THEN 0 ELSE g.hi[s]
       /\ \A u \in Threads : h.born[u] = IF u = t THEN g.clock + 1 ELSE g.born[u]
       /\ h.clock = g.clock + 1
  BY <1>1, <1>11, <1>14 DEF GhostType
<1>16. GhostType(h) /\ GhostType(h)'
  BY <1>1, <1>11, <1>13, <1>14 DEF GhostType
<1>17. \A s \in Strings : Low(s)' = Low(s)
  BY <1>5 DEF Low
<1>18. Chains(h)'
  <2>1. ASSUME NEW m \in Nodes, h.str[m] # Elsewhere
        PROVE  /\ Low(h.str[m]) <= h.pos[m] /\ h.pos[m] <= h.hi[h.str[m]]
               /\ h.spot[h.str[m]][h.pos[m]] = m
    <3>1. CASE m = n
      BY <1>11, <1>13, <1>15, <3>1
    <3>2. CASE m # n
      <4>1. g.str[m] \in Strings /\ g.str[m] # t /\ h.str[m] = g.str[m]
        BY <1>1, <1>12, <1>15, <2>1, <3>2 DEF GhostType
      <4> QED BY <1>1, <1>15, <2>1, <3>2, <4>1 DEF Chains
    <3> QED BY <3>1, <3>2
  <2>2. ASSUME NEW s \in Strings, NEW p \in Nat, Low(s) <= p, p <= h.hi[s]
        PROVE  h.str[h.spot[s][p]] = s /\ h.pos[h.spot[s][p]] = p
    <3>1. CASE s = t
      <4>1. p = 0
        BY <1>11, <1>15, <2>2, <3>1
      <4> QED BY <1>3, <1>13, <1>15, <3>1, <4>1
    <3>2. CASE s # t
      <4>1. h.spot[s] = g.spot[s] /\ h.hi[s] = g.hi[s]
        BY <1>15, <3>2
      <4>2. g.str[g.spot[s][p]] = s /\ g.pos[g.spot[s][p]] = p /\ g.spot[s][p] \in Nodes
        BY <1>1, <2>2, <4>1 DEF Chains, GhostType
      <4>3. g.spot[s][p] # n
        BY <1>3, <1>11, <4>2
      <4> QED BY <1>15, <4>1, <4>2, <4>3
    <3> QED BY <3>1, <3>2
  <2>3. /\ \A m \in Nodes : h.str[m] # Elsewhere =>
             Low(h.str[m])' <= h.pos[m] /\ h.pos[m] <= h.hi[h.str[m]] /\ h.spot[h.str[m]][h.pos[m]] = m
        /\ \A s \in Strings : \A p \in Nat :
             Low(s)' <= p /\ p <= h.hi[s] => h.str[h.spot[s][p]] = s /\ h.pos[h.spot[s][p]] = p
    BY <1>16, <1>17, <2>1, <2>2 DEF GhostType
  <2> QED BY ONLY <2>3 DEF Chains
<1>19. Linked(h)'
  <2> SUFFICES ASSUME NEW m \in Nodes
               PROVE  IF h.str[m] = Elsewhere THEN next'[m] # End
                      ELSE next'[m] = IF h.pos[m] = h.hi[h.str[m]] THEN End
                                      ELSE h.spot[h.str[m]][h.pos[m] + 1]
    BY DEF Linked
  <2>1. CASE m = n
    BY <1>9, <1>11, <1>15, <2>1
  <2>2. CASE m # n
    <3>1. next'[m] = next[m] /\ h.str[m] = g.str[m] /\ h.pos[m] = g.pos[m] /\ g.str[m] # t
      BY <1>9, <1>12, <1>15, <2>2
    <3>2. g.str[m] # Elsewhere => h.spot[g.str[m]] = g.spot[g.str[m]] /\ h.hi[g.str[m]] = g.hi[g.str[m]]
      BY <1>1, <1>15, <3>1 DEF GhostType
    <3> QED BY <1>1, <3>1, <3>2 DEF Shape, Linked
  <2> QED BY <2>1, <2>2
<1>20. Ends(h)'
  <2>1. /\ g.str[head.node] = Queue /\ head.node \in Nodes /\ head.node # n
        /\ g.str[tail.node] = Queue /\ tail.node \in Nodes /\ tail.node # n
    BY <1>1, <1>3, <1>11, EndsTyped DEF Shape, Ends
  <2> QED BY <1>1, <1>5, <1>15, <2>1 DEF Shape, Ends
<1>21. \A u \in Threads : /\ Unlinked(u)' <=> Unlinked(u) \/ u = t
                          /\ Pushing(u)' <=> Pushing(u) \/ u = t
                          /\ At(u, "link")' => At(u, "link") /\ u # t
                          /\ At(u, "take")' <=> At(u, "take")
  BY <1>5, <1>7 DEF Unlinked, Pushing, At
<1>22. Roots(h)'
  <2> SUFFICES ASSUME NEW u \in Threads
               PROVE  IF Unlinked(u)' THEN 0 <= h.hi[u] /\ h.spot[u][0] = thread'[u].node
                                      ELSE h.hi[u] = -1
    BY DEF Roots
  <2>1. u \in Strings /\ IF Unlinked(u) THEN 0 <= g.hi[u] /\ g.spot[u][0] = thread[u].node
                                         ELSE g.hi[u] = -1
    BY <1>1 DEF Roots, Strings
  <2>2. CASE u = t
    <3>1. Unlinked(u)' /\ h.hi[u] = 0 /\ h.spot[u] = q /\ thread'[u].node = n
      BY <1>7, <1>15, <1>21, <2>1, <2>2
    <3> QED BY <1>13, <3>1
  <2>3. CASE u # t
    BY <1>7, <1>15, <1>21, <2>1, <2>3
  <2> QED BY <2>2, <2>3
<1>23. Takers' = Takers /\ t \notin Takers /\ \A u \in Takers : thread'[u] = thread[u]
  BY <1>5, <1>7, <1>21 DEF Takers, At
<1>24. Spare(h)'
  <2>1. Spare(g)
    BY <1>1 DEF Shape
  <2>2. \A m \in Nodes : (\E u \in Takers' : thread'[u].link.node = m) <=>
                           \E u \in Takers : thread[u].link.node = m
    BY <1>23
  <2>3. \A m \in Nodes : h.str[m] = Elsewhere <=> g.str[m] = Elsewhere /\ m # n
    BY <1>11, <1>15
  <2>4. \A m \in Nodes : h.str[m] = Elsewhere <=>
          made' <= m \/ m \in Free' \/ \E u \in Takers' : thread'[u].link.node = m
    BY <1>3, <2>1, <2>2, <2>3 DEF Spare
  <2>5. made \in Nat /\ made' \in Nat /\ Nodes \subseteq Nat /\ Free \subseteq Nodes
    <3>1. Free \subseteq Nodes
      BY <1>1 DEF TypeInv, Free, Range
    <3> QED BY <1>1, <1>3, <3>1, NodesAre DEF TypeInv
  <2>6. \A m \in Free' : m < made'
    BY <1>3, <2>1, <2>5 DEF Spare
  <2>7. \A u \in Takers' : thread'[u].link.node \in Nodes \ Free' /\ thread'[u].link.node < made'
    <3> SUFFICES ASSUME NEW u \in Takers
                 PROVE  thread[u].link.node \in Nodes \ Free' /\ thread[u].link.node < made'
      BY <1>23
    <3>1. PICK m : m = thread[u].link.node
      OBVIOUS
    <3>2. m \in Nodes \ Free /\ m < made
      BY <2>1, <3>1 DEF Spare
    <3>3. m \in Nat /\ m < made'
      BY <1>3, <2>5, <3>2
    <3> QED BY <1>3, <3>1, <3>2, <3>3
  <2>8. \A u, v \in Takers' : thread'[u].link.node = thread'[v].link.node => u = v
    BY <1>23, <2>1 DEF Spare
  <2> QED BY ONLY <1>3, <2>4, <2>6, <2>7, <2>8 DEF Spare
<1>25. Births(h)'
  <2>1. g.clock \in Nat /\ \A u \in Threads : g.born[u] \in Nat /\ g.born[u] <= g.clock
    BY <1>1 DEF GhostType, Shape, Births
  <2>2. ASSUME NEW u \in Threads, NEW v \in Threads, At(u, "link")', h.str[thread'[u].link.node] = v
        PROVE  h.born[u] < h.born[v]
    <3>1. u # t /\ thread'[u] = thread[u] /\ At(u, "link")
      BY <1>7, <1>21, <2>2
    <3>2. PICK m \in Nodes : m = thread[u].link.node
      BY <1>1, <3>1 DEF Holds, Place, PushPlace, At
    <3>3. CASE m = n
      BY <1>15, <2>1, <2>2, <3>1, <3>2, <3>3
    <3>4. CASE m # n
      <4>1. g.str[m] = v /\ v # t
        BY <1>12, <1>15, <2>2, <3>1, <3>2, <3>4
      <4> QED BY <1>1, <1>15, <3>1, <3>2, <4>1 DEF Shape, Births
    <3> QED BY <3>3, <3>4
  <2>3. \A u \in Threads : h.born[u] <= h.clock
    BY <1>15, <2>1
  <2> QED BY <2>2, <2>3 DEF Births
<1>26. Live(h)' = Live(g) \cup {n} /\ n \notin Live(g)
  <2>1. head.node # n
    BY <1>1, <1>3, <1>11 DEF Shape, Ends
  <2> QED BY <1>3, <1>5, <1>11, <1>15, <2>1 DEF Live
<1>27. Pushed' = Pushed \cup {i}
  <2> SUFFICES ASSUME NEW k \in Items PROVE k \in Pushed' <=> k \in Pushed \/ k = i
    BY <1>8 DEF Pushed
  <2>1. k[1] \in Threads /\ k[2] \in Nat /\ k = <<k[1], k[2]>>
    BY ItemsAre
  <2>2. CASE k[1] = t
    <3>1. pushed'[t] = pushed[t] + 1
      BY <1>1, <1>5 DEF TypeInv
    <3>2. k[2] <= pushed[t] + 1 <=> k[2] <= pushed[t] \/ k[2] = pushed[t] + 1
      BY <1>5, <2>1
    <3> QED BY <1>4, <1>8, <2>1, <2>2, <3>1, <3>2 DEF Pushed
  <2>3. CASE k[1] # t
    <3>1. pushed'[k[1]] = pushed[k[1]]
      BY <1>1, <1>5, <2>1, <2>3 DEF TypeInv
    <3> QED BY <1>8, <2>3, <3>1 DEF Pushed
  <2> QED BY <2>2, <2>3
<1>28. \A m \in Live(g) : elem'[m] = elem[m] /\ elem[m] \in Pushed \ popped
  BY <1>1, <1>9, <1>26 DEF Contained, Live
<1>29. Contained(h)'
  <2>1. \A m \in Live(h)' : elem'[m] \in Pushed' \ popped
    BY <1>1, <1>8, <1>9, <1>26, <1>27, <1>28 DEF Contained
  <2>2. \A m, k \in Live(h)' : elem'[m] = elem'[k] => m = k
    BY <1>1, <1>8, <1>9, <1>26, <1>28 DEF Contained
  <2>3. \A j \in Pushed' \ popped : \E m \in Live(h)' : elem'[m] = j
    <3> SUFFICES ASSUME NEW j \in Pushed' \ popped PROVE \E m \in Live(h)' : elem'[m] = j
      OBVIOUS
    <3>1. CASE j = i
      BY <1>9, <1>26, <3>1
    <3>2. CASE j # i
      <4>1. PICK m \in Live(g) : elem[m] = j
        BY <1>1, <1>27, <3>2 DEF Contained
      <4> QED BY <1>26, <1>28, <4>1
    <3> QED BY <3>1, <3>2
  <2>4. popped \subseteq Pushed'
    BY <1>1, <1>27 DEF Contained
  <2>5. \A u \in Threads : Unlinked(u)' => elem'[thread'[u].node] = <<u, pushed'[u]>>
    <3> SUFFICES ASSUME NEW u \in Threads, Unlinked(u)' PROVE elem'[thread'[u].node] = <<u, pushed'[u]>>
      OBVIOUS
    <3>1. CASE u = t
      <4>1. pushed'[t] = pushed[t] + 1
        BY <1>1, <1>5 DEF TypeInv
      <4>2. thread'[u].node = n /\ elem'[n] = i /\ i = <<u, pushed'[u]>>
        BY <1>4, <1>7, <1>9, <3>1, <4>1
      <4> QED BY <4>2
    <3>2. CASE u # t
      <4>1. Unlinked(u) /\ thread'[u] = thread[u] /\ pushed'[u] = pushed[u]
        <5>1. pushed \in [Threads -> Nat]
          BY <1>1 DEF TypeInv
        <5> QED BY <1>5, <1>7, <1>21, <3>2, <5>1
      <4>2. thread[u].node \in Nodes /\ thread[u].node # n
        BY <1>1, <1>3, <4>1, OwnNode
      <4>3. elem'[thread'[u].node] = elem[thread[u].node]
        BY <1>9, <4>1, <4>2
      <4>4. elem[thread[u].node] = <<u, pushed[u]>>
        BY ONLY <1>1, <4>1, u \in Threads DEF Contained
      <4> QED BY ONLY <4>1, <4>3, <4>4
    <3> QED BY ONLY <3>1, <3>2
  <2>6. \A u \in Threads : pushed'[u] <= MaxItems[u] /\ (Pushing(u)' => 1 <= pushed'[u])
    <3> SUFFICES ASSUME NEW u \in Threads
                 PROVE  pushed'[u] <= MaxItems[u] /\ (Pushing(u)' => 1 <= pushed'[u])
      OBVIOUS
    <3>1. CASE u = t
      <4>1. pushed'[t] = pushed[t] + 1
        BY <1>1, <1>5 DEF TypeInv
      <4> QED BY <1>5, <3>1, <4>1
    <3>2. CASE u # t
      <4>1. pushed'[u] = pushed[u]
        BY <1>1, <1>5, <3>2 DEF TypeInv
      <4> QED BY <1>1, <1>21, <3>2, <4>1 DEF Contained
    <3> QED BY <3>1, <3>2
  <2>7. popped' = popped
    BY <1>5
  <2> QED BY ONLY <2>1, <2>2, <2>3, <2>4, <2>5, <2>6, <2>7 DEF Contained
<1>30. Taken'
  BY <1>1, <1>5, <1>23 DEF Taken
<1>31. Counted'
  <2>1. Returned' = Returned
    <3> SUFFICES ASSUME NEW k \in Items PROVE k \in Returned' <=> k \in Returned
      BY DEF Returned
    <3>1. k[1] \in Threads /\ k[2] \in Nat
      BY ItemsAre
    <3>2. CASE k[1] = t
      <4>1. pushed'[t] = pushed[t] + 1
        BY <1>1, <1>5 DEF TypeInv
      <4>2. k \in Returned <=> k[2] < pushed[t] + 1
        BY <1>11, <3>2 DEF Returned
      <4>3. n # Null
        BY <1>3, NodesAre
      <4>4. k \in Returned' <=> k[2] < pushed[t] + 1 + 0
        BY <1>7, <3>2, <4>1, <4>3 DEF Returned
      <4> QED BY <1>5, <4>2, <4>4
    <3>3. CASE k[1] # t
      <4>1. pushed'[k[1]] = pushed[k[1]] /\ thread'[k[1]] = thread[k[1]]
        BY <1>1, <1>5, <1>7, <3>1, <3>3 DEF TypeInv
      <4> QED BY <4>1 DEF Returned
    <3> QED BY <3>2, <3>3
  <2> QED BY <1>1, <1>5, <1>23, <2>1 DEF Counted
<1>32. \A u \in Threads : Place(u, h)'
  <2>1. Place(t, h)'
    BY ONLY <1>3, <1>7 DEF Place, PushPlace, PopPlace, Unlinked, Pushing, At
  <2>2. Advance(g, h)
    <3>1. g.hi[Queue] \in Int /\ h.hi[Queue] = g.hi[Queue] /\ h.spot[Queue] = g.spot[Queue]
      BY <1>1, <1>11, <1>15 DEF GhostType
    <3>2. head.seq < g.hi[Queue] => /\ g.str[g.spot[Queue][head.seq + 1]] = Queue
                                    /\ g.spot[Queue][head.seq + 1] \in Nodes
      <4>1. SUFFICES ASSUME head.seq < g.hi[Queue]
                     PROVE  /\ g.str[g.spot[Queue][head.seq + 1]] = Queue
                            /\ g.spot[Queue][head.seq + 1] \in Nodes
        OBVIOUS
      <4>2. PICK p \in Nat : p = head.seq + 1
        BY <1>1, EndsTyped
      <4>3. Low(Queue) <= p /\ p <= g.hi[Queue]
        BY <1>1, <3>1, <4>1, <4>2, EndsTyped DEF Low
      <4>4. g.str[g.spot[Queue][p]] = Queue /\ g.spot[Queue][p] \in Nodes
        BY <1>1, <1>11, <4>3 DEF Chains, GhostType
      <4> QED BY <4>2, <4>4
    <3>3. head.seq < g.hi[Queue] =>
            elem'[g.spot[Queue][head.seq + 1]] = elem[g.spot[Queue][head.seq + 1]]
      BY <1>3, <1>9, <1>11, <3>2
    <3> QED BY <1>1, <1>5, <3>1, <3>3, EndsTyped DEF Advance
  <2>3. ASSUME NEW u \in Threads, u # t PROVE Place(u, h)'
    <3>1. thread'[u] = thread[u] /\ Place(u, g)
      BY <1>1, <1>7, <2>3 DEF Holds
    <3> QED BY ONLY u \in Threads, <1>1, <1>10, <1>16, <2>2, <3>1, OtherPlaces
  <2> QED BY <2>1, <2>3
<1>33. InOrder(h)'
  <2>1. SUFFICES ASSUME ~blind PROVE InOrder(h)'
    BY <1>5 DEF InOrder
  <2>2. \A m \in Nodes : h.str[m] = Queue => g.str[m] = Queue /\ elem'[m] = elem[m] /\ h.pos[m] = g.pos[m]
    BY <1>9, <1>11, <1>15
  <2>3. \A u \in Threads : h.hi[u] <= 0
    <3> SUFFICES ASSUME NEW u \in Threads PROVE h.hi[u] <= 0
      OBVIOUS
    <3>1. h.hi[u] = IF u = t THEN 0 ELSE g.hi[u]
      BY <1>15 DEF Strings
    <3> QED BY <1>1, <2>1, <3>1 DEF InOrder
  <2>4. FifoOrder' /\ head' = head
    BY <1>1, <1>5, <2>1 DEF InOrder, FifoOrder
  <2> QED BY <1>1, <2>1, <2>2, <2>3, <2>4 DEF InOrder
<1>34. Holds(h)'
  BY <1>16, <1>18, <1>19, <1>20, <1>22, <1>24, <1>25, <1>29, <1>32, <1>33 DEF Holds, Shape
<1>35. Good(h)'
  BY <1>10, <1>30, <1>31, <1>34 DEF Good
<1> QED BY <1>35


-----------------------------------------------------------------------------
(* The invariant.                                                          *)

\* The empty queue.
LEMMA InitGood == Init => \E g : Good(g)
<1> SUFFICES ASSUME Init PROVE \E g : Good(g)
  OBVIOUS
<1>1. /\ Nodes \subseteq Nat /\ 0 \in Nodes /\ End \notin Nodes /\ Null \notin Nodes /\ End # Null
      /\ Queue \in Strings /\ Elsewhere \notin Strings /\ Queue \notin Threads
      /\ Cardinality(Nodes) \in Nat /\ 1 <= Cardinality(Nodes)
  BY NodesAre, ItemsFinite, Names DEF Strings
<1>2. PICK g : g = [str |-> [n \in Nodes |-> IF n = 0 THEN Queue ELSE Elsewhere],
                    pos |-> [n \in Nodes |-> 0],
                    spot |-> [s \in Strings |-> [p \in Nat |-> 0]],
                    hi |-> [s \in Strings |-> IF s = Queue THEN 0 ELSE -1],
                    born |-> [t \in Threads |-> 0], clock |-> 0]
  OBVIOUS
<1>3. /\ \A n \in Nodes : /\ g.str[n] = IF n = 0 THEN Queue ELSE Elsewhere
                          /\ g.pos[n] = 0
      /\ \A s \in Strings : \A p \in Nat : g.spot[s][p] = 0
      /\ \A s \in Strings : g.hi[s] = IF s = Queue THEN 0 ELSE -1
      /\ \A t \in Threads : g.born[t] = 0
      /\ g.clock = 0
      /\ GhostType(g)
  BY <1>1, <1>2 DEF GhostType
<1>4. /\ head.node = 0 /\ head.seq = 0 /\ tail = head
      /\ \A n \in Nodes : next[n] = IF n = 0 THEN End ELSE Null
      /\ \A t \in Threads : thread[t] = Idle /\ thread[t].at = "idle" /\ thread[t].node = Null
      /\ freeNodes = <<>> /\ made = 1 /\ pushed \in [Threads -> Nat]
      /\ \A t \in Threads : pushed[t] = 0
      /\ popped = {} /\ count = 0
  BY DEF Init, Idle
<1>5. TypeInv
  <2>1. head \in [node : Nodes, seq : Nat] /\ tail \in [node : Nodes, seq : Nat]
    BY <1>1 DEF Init
  <2>2. next \in [Nodes -> Nodes \cup {End, Null}] /\ elem \in [Nodes -> Items \cup {Nothing}]
    BY DEF Init
  <2>3. freeNodes \in Seq(Nodes) /\ made \in 1 .. Cardinality(Nodes)
    BY <1>1, <1>4
  <2>4. thread \in [Threads -> ThreadState]
    BY IdleTyped DEF Init
  <2>5. count \in Int /\ popped \subseteq Items /\ blind \in BOOLEAN
    <3>1. blind \in BOOLEAN
      BY Zenon DEF Init
    <3> QED BY <1>4, <3>1
  <2> QED BY <1>4, <2>1, <2>2, <2>3, <2>4, <2>5 DEF TypeInv
<1>6. \A t \in Threads : ~Unlinked(t) /\ ~Pushing(t) /\ t \notin Takers
  BY <1>4 DEF Unlinked, Pushing, At, Takers
<1>7. Takers = {} /\ Free = {}
  BY <1>4, <1>6 DEF Takers, Free, Range
<1>8. Pushed = {} /\ Returned = {}
  <2>1. \A i \in Items : ~(i[2] <= pushed[i[1]])
    BY <1>4, ItemsAre
  <2>2. \A i \in Items : i[2] < pushed[i[1]] + 1 => FALSE
    BY <1>4, ItemsAre
  <2> QED BY <1>4, <2>1, <2>2, ItemsAre DEF Pushed, Returned
<1>9. Live(g) = {}
  BY <1>3, <1>4 DEF Live
<1>10. Shape(g)
  <2>1. Chains(g)
    <3>1. ASSUME NEW s \in Strings, NEW p \in Nat, Low(s) <= p, p <= g.hi[s]
          PROVE  g.str[g.spot[s][p]] = s /\ g.pos[g.spot[s][p]] = p
      <4>1. s = Queue /\ p = 0
        BY <1>3, <3>1
      <4> QED BY <1>1, <1>3, <4>1
    <3>2. \A n \in Nodes : g.str[n] # Elsewhere =>
            /\ Low(g.str[n]) <= g.pos[n] /\ g.pos[n] <= g.hi[g.str[n]]
            /\ g.spot[g.str[n]][g.pos[n]] = n
      <4> SUFFICES ASSUME NEW n \in Nodes, g.str[n] # Elsewhere
                   PROVE  /\ Low(g.str[n]) <= g.pos[n] /\ g.pos[n] <= g.hi[g.str[n]]
                          /\ g.spot[g.str[n]][g.pos[n]] = n
        OBVIOUS
      <4>1. n = 0 /\ g.str[n] = Queue /\ g.pos[n] = 0
        BY <1>3
      <4>2. g.spot[Queue][0] = 0 /\ g.hi[Queue] = 0
        BY <1>1, <1>3
      <4>3. Low(Queue) = 0
        BY <1>4 DEF Low
      <4> QED BY <4>1, <4>2, <4>3
    <3> QED BY <3>1, <3>2 DEF Chains
  <2>2. Linked(g)
    BY <1>1, <1>3, <1>4 DEF Linked
  <2>3. Ends(g)
    BY <1>1, <1>3, <1>4 DEF Ends
  <2>4. Roots(g)
    BY <1>1, <1>3, <1>6 DEF Roots, Strings
  <2>5. Spare(g)
    <3>1. \A n \in Nodes : g.str[n] = Elsewhere <=> made <= n
      BY <1>1, <1>3, <1>4
    <3>2. IsInjective(freeNodes)
      BY <1>4 DEF IsInjective
    <3> QED BY <1>6, <1>7, <3>1, <3>2 DEF Spare
  <2>6. Births(g)
    BY <1>3, <1>4 DEF Births, At
  <2> QED BY <1>3, <2>1, <2>2, <2>3, <2>4, <2>5, <2>6 DEF Shape
<1>11. Contained(g)
  <2>1. \A t \in Threads : pushed[t] <= MaxItems[t]
    BY <1>4, TSQueueAssumption
  <2> QED BY <1>4, <1>6, <1>8, <1>9, <2>1 DEF Contained
<1>12. \A t \in Threads : Place(t, g)
  BY <1>1, <1>4, <1>6 DEF Place, PushPlace, PopPlace, At
<1>13. InOrder(g)
  <2>1. FifoOrder
    BY <1>4 DEF FifoOrder
  <2>2. \A t \in Threads : g.hi[t] <= 0
    BY <1>3 DEF Strings
  <2>3. \A n \in Nodes : g.str[n] = Queue => n = head.node
    BY <1>1, <1>3, <1>4
  <2> QED BY <2>1, <2>2, <2>3 DEF InOrder
<1>14. Taken /\ Counted
  BY <1>4, <1>7, <1>8, FS_EmptySet DEF Taken, Counted
<1> QED BY <1>5, <1>10, <1>11, <1>12, <1>13, <1>14 DEF Good, Holds

\* Nothing changes.
LEMMA StutterGood ==
  ASSUME NEW g, Good(g), UNCHANGED vars PROVE Good(g)'
<1>1. UNCHANGED <<head, tail, next, elem, freeNodes, made, count, thread, pushed, popped, blind>>
  BY DEF vars, lists, histories
<1>2. TypeInv' /\ Taken' /\ Counted'
  BY <1>1 DEF Good, TypeInv, Taken, Counted, Takers, Returned, At
<1>3. Shape(g)'
  <2>1. (GhostType(g) /\ Chains(g) /\ Linked(g) /\ Ends(g))'
    BY <1>1 DEF Good, Holds, Shape, GhostType, Chains, Linked, Ends, Low
  <2>2. (Roots(g) /\ Births(g))'
    BY <1>1 DEF Good, Holds, Shape, Roots, Births, Unlinked, At
  <2>3. Takers' = Takers /\ Free' = Free
    BY <1>1 DEF Takers, Free, At
  <2>4. Spare(g)'
    BY <1>1, <2>3 DEF Good, Holds, Shape, Spare
  <2> QED BY <2>1, <2>2, <2>4 DEF Shape
<1>4. Contained(g)'
  BY <1>1 DEF Good, Holds, Contained, Live, Pushed, Unlinked, Pushing, At
<1>5. InOrder(g)'
  BY <1>1 DEF Good, Holds, InOrder, FifoOrder
<1>6. \A t \in Threads : Place(t, g)'
  <2> SUFFICES ASSUME NEW t \in Threads PROVE Place(t, g)'
    OBVIOUS
  <2>1. Place(t, g)
    BY DEF Good, Holds
  <2>2. PushPlace(t, g)'
    BY ONLY <1>1, <2>1 DEF Place, PushPlace, Pushing, Unlinked, At
  <2>3. PopPlace(t, g)'
    BY ONLY <1>1, <2>1 DEF Place, PopPlace, NextOfHead, At
  <2> QED BY <2>2, <2>3 DEF Place
<1> QED BY <1>2, <1>3, <1>4, <1>5, <1>6 DEF Good, Holds

\* Every step keeps the invariant, of a history that goes with it.
LEMMA StepGood ==
  ASSUME NEW g, Good(g), NEW t \in Threads, PushItem(t) \/ PopItem(t) \/ Step(t)
  PROVE  \E h : Good(h)'
<1>1. CASE PushItem(t)
  BY <1>1, PushItemGood
<1>2. CASE PopItem(t)
  BY <1>2, PopItemGood
<1>3. CASE PushStep(t)
  <2>1. CASE LoadTailSequence(t)
    BY <2>1, LoadTailSequenceGood
  <2>2. CASE LoadTailNode(t)
    BY <2>2, LoadTailNodeGood
  <2>3. CASE LinkNode(t)
    BY <2>3, LinkNodeGood, FailedLinkGood
  <2>4. CASE LoadLinked(t)
    BY <2>4, LoadLinkedGood
  <2>5. CASE HelpTail(t)
    BY <2>5, HelpTailGood
  <2>6. CASE FinishOwnPush(t)
    BY <2>6, FinishOwnPushGood
  <2> QED BY <1>3, <2>1, <2>2, <2>3, <2>4, <2>5, <2>6 DEF PushStep
<1>4. CASE PopStep(t)
  <2>1. CASE LoadHeadSequence(t)
    BY <2>1, LoadHeadSequenceGood
  <2>2. CASE LoadHeadNode(t)
    BY <2>2, LoadHeadNodeGood
  <2>3. CASE LoadPopTailSequence(t)
    BY <2>3, LoadPopTailSequenceGood
  <2>4. CASE LoadNext(t)
    BY <2>4, LoadNextGood
  <2>5. CASE CheckNext(t)
    BY <2>5, CheckNextGood
  <2>6. CASE CompareTail(t)
    BY <2>6, CompareTailGood
  <2>7. CASE PopHelpTail(t)
    BY <2>7, PopHelpTailGood
  <2>8. CASE LoadElem(t)
    BY <2>8, LoadElemGood
  <2>9. CASE SwapHead(t)
    BY <2>9, SwapHeadGood, FailedSwapGood
  <2>10. CASE TakeItem(t)
    BY <2>10, TakeItemGood
  <2> QED BY <1>4, <2>1, <2>2, <2>3, <2>4, <2>5, <2>6, <2>7, <2>8, <2>9, <2>10 DEF PopStep
<1> QED BY <1>1, <1>2, <1>3, <1>4 DEF Step

\* What a thread has read of the two sequences is not ahead of the tail.
Behind == \A t \in Threads : thread[t].link.seq <= tail.seq /\ thread[t].tailSeq <= tail.seq

IInv == (\E g : Good(g)) /\ Behind

\* At the start nothing has been read.
LEMMA InitBehind == Init => Behind
BY DEF Init, Behind, Idle

\* The head is not ahead of the tail.
LEMMA GoodEnds ==
  ASSUME NEW g, Good(g) PROVE /\ head.seq \in Nat /\ tail.seq \in Nat /\ head.seq <= tail.seq
BY QueueNodes, EndsTyped DEF Good, Holds, Shape

\* A step reads the sequences as they are.
LEMMA StepBehind ==
  ASSUME NEW g, Good(g), Behind, NEW t \in Threads, PushItem(t) \/ PopItem(t) \/ Step(t)
  PROVE  Behind'
<1>1. head.seq \in Nat /\ tail.seq \in Nat /\ head.seq <= tail.seq
  BY GoodEnds
<1>2. thread \in [Threads -> ThreadState] /\ tail \in [node : Nodes, seq : Nat]
  BY DEF Good, TypeInv
<1>3. \A u \in Threads : thread[u].link.seq \in Nat /\ thread[u].tailSeq \in Nat
  BY <1>2 DEF ThreadState
<1>4. /\ Idle.link.seq = 0 /\ Idle.tailSeq = 0
      /\ Restarted.link.seq = 0 /\ Restarted.tailSeq = 0
  BY DEF Idle, Restarted
<1>5. tail'.seq \in Nat /\ tail.seq <= tail'.seq
  <2>1. ASSUME NEW n, NEW old, FinishPush(n, old) PROVE tail'.seq \in Nat /\ tail.seq <= tail'.seq
    BY <1>1, <2>1 DEF FinishPush
  <2>2. CASE HelpTail(t) \/ FinishOwnPush(t) \/ PopHelpTail(t)
    BY <2>1, <2>2 DEF HelpTail, FinishOwnPush, PopHelpTail
  <2>3. CASE ~(HelpTail(t) \/ FinishOwnPush(t) \/ PopHelpTail(t))
    <3>1. tail' = tail
      BY <2>3 DEF PushItem, PopItem, Step, PushStep, PopStep, LoadTailSequence, LoadTailNode, LinkNode,
                  LoadLinked, LoadHeadSequence, LoadHeadNode, LoadPopTailSequence, LoadNext, CheckNext,
                  CompareTail, LoadElem, SwapHead, TakeItem
    <3> QED BY <1>1, <3>1
  <2> QED BY <2>2, <2>3
<1>6. ASSUME NEW u \in Threads
      PROVE  /\ thread'[u].link.seq \in {thread[u].link.seq, tail.seq, head.seq, 0}
             /\ thread'[u].tailSeq \in {thread[u].tailSeq, tail.seq, 0}
  <2>1. thread[u] \in ThreadState /\ thread \in [Threads -> ThreadState]
    BY <1>2
  <2>2. CASE PushItem(t)
    BY <1>4, <2>1, <2>2 DEF PushItem, ThreadState
  <2>3. CASE PopItem(t)
    BY <2>1, <2>3 DEF PopItem, ThreadState
  <2>4. CASE LoadTailSequence(t) \/ LoadTailNode(t)
    <3>1. CASE LoadTailSequence(t)
      BY <2>1, <3>1 DEF LoadTailSequence, ThreadState
    <3>2. CASE LoadTailNode(t)
      BY <2>1, <3>2 DEF LoadTailNode, ThreadState
    <3> QED BY <2>4, <3>1, <3>2
  <2>5. CASE LinkNode(t) \/ LoadLinked(t)
    <3>1. CASE LinkNode(t)
      <4>1. thread' = [thread EXCEPT ![t].at = "finish"] \/ thread' = [thread EXCEPT ![t].at = "help"]
        BY <3>1 DEF LinkNode, Go
      <4> QED BY <2>1, <4>1 DEF ThreadState
    <3>2. CASE LoadLinked(t)
      BY <2>1, <3>2 DEF LoadLinked, ThreadState
    <3> QED BY <2>5, <3>1, <3>2
  <2>6. CASE HelpTail(t)
    BY <1>4, <2>1, <2>6 DEF HelpTail, ThreadState
  <2>7. CASE FinishOwnPush(t) \/ TakeItem(t)
    BY <1>4, <2>1, <2>7 DEF FinishOwnPush, TakeItem
  <2>8. CASE LoadHeadSequence(t) \/ LoadHeadNode(t) \/ LoadPopTailSequence(t)
    <3>1. CASE LoadHeadSequence(t)
      BY <2>1, <3>1 DEF LoadHeadSequence, ThreadState
    <3>2. CASE LoadHeadNode(t)
      BY <2>1, <3>2 DEF LoadHeadNode, ThreadState
    <3>3. CASE LoadPopTailSequence(t)
      BY <2>1, <3>3 DEF LoadPopTailSequence, ThreadState
    <3> QED BY <2>8, <3>1, <3>2, <3>3
  <2>9. CASE LoadNext(t) \/ LoadElem(t)
    <3>1. CASE LoadNext(t)
      BY <2>1, <3>1 DEF LoadNext, ThreadState
    <3>2. CASE LoadElem(t)
      BY <2>1, <3>2 DEF LoadElem, ThreadState
    <3> QED BY <2>9, <3>1, <3>2
  <2>10. CASE CheckNext(t)
    BY <1>4, <2>1, <2>10 DEF CheckNext, ThreadState
  <2>11. CASE CompareTail(t)
    BY <1>4, <2>1, <2>11 DEF CompareTail, ThreadState
  <2>12. CASE PopHelpTail(t)
    BY <1>4, <2>1, <2>12 DEF PopHelpTail
  <2>13. CASE SwapHead(t)
    BY <1>4, <2>1, <2>13 DEF SwapHead, Go, ThreadState
  <2> QED BY <2>2, <2>3, <2>4, <2>5, <2>6, <2>7, <2>8, <2>9, <2>10, <2>11, <2>12, <2>13
          DEF Step, PushStep, PopStep
<1>7. ASSUME NEW u \in Threads PROVE thread'[u].link.seq <= tail'.seq /\ thread'[u].tailSeq <= tail'.seq
  <2>1. thread[u].link.seq <= tail.seq /\ thread[u].tailSeq <= tail.seq
    BY DEF Behind
  <2> QED BY <1>1, <1>3, <1>5, <1>6, <2>1
<1> QED BY <1>7 DEF Behind

\* The inductive invariant holds of every behaviour.
THEOREM InductiveInvariant == Spec => []IInv
<1>1. Init => IInv
  BY InitGood, InitBehind DEF IInv
<1>2. IInv /\ [Next]_vars => IInv'
  <2> SUFFICES ASSUME IInv, [Next]_vars PROVE IInv'
    OBVIOUS
  <2>1. PICK g : Good(g)
    BY DEF IInv
  <2>2. CASE Next
    <3>1. PICK t \in Threads : PushItem(t) \/ PopItem(t) \/ Step(t)
      BY <2>2 DEF Next
    <3>2. \E h : Good(h)'
      BY <2>1, <3>1, StepGood
    <3>3. Behind'
      BY <2>1, <3>1, StepBehind DEF IInv
    <3> QED BY <3>2, <3>3 DEF IInv
  <2>3. CASE UNCHANGED vars
    <3>1. Good(g)'
      BY <2>1, <2>3, StutterGood
    <3>2. Behind'
      BY <2>3 DEF IInv, Behind, vars
    <3> QED BY <3>1, <3>2 DEF IInv
  <2> QED BY <2>2, <2>3
<1> QED BY <1>1, <1>2, PTL DEF Spec

-----------------------------------------------------------------------------
(* What follows from the invariant.                                        *)

\* The node of an item that was pushed and not popped is in the queue, or a thread that has not
\* linked its node yet leads to it.
LEMMA LiveFound ==
  ASSUME NEW g, Good(g), NEW n \in Live(g)
  PROVE  \/ g.str[n] = Queue /\ n \in InQueue \ {head.node} /\ elem[n] \in Contents
         \/ \E u \in Threads : /\ Unlinked(u) /\ g.str[n] = u
                               /\ thread[u].node # Null /\ n \in After(thread[u].node)
<1>1. TypeInv /\ GhostType(g) /\ Chains(g) /\ Linked(g) /\ Ends(g) /\ Roots(g)
  BY DEF Good, Holds, Shape
<1>2. n \in Nodes /\ n # head.node /\ g.str[n] \in Strings
  BY <1>1 DEF Live, GhostType
<1>3. CASE g.str[n] = Queue
  <2>1. n \in InQueue
    BY <1>1, <1>2, <1>3, QueueNodes
  <2> QED BY <1>2, <1>3, <2>1 DEF Contents
<1>4. CASE g.str[n] # Queue
  <2>1. PICK u \in Threads : g.str[n] = u
    BY <1>2, <1>4 DEF Strings
  <2>2. u \in Strings /\ u # Queue /\ Low(u) = 0 /\ u # Elsewhere
    BY Names DEF Strings, Low
  <2>3. g.pos[n] \in Nat /\ g.pos[n] <= g.hi[u] /\ g.hi[u] \in Int
    BY <1>1, <1>2, <2>1, <2>2 DEF Chains, GhostType
  <2>4. 0 <= g.hi[u]
    BY <2>3
  <2>5. Unlinked(u) /\ g.spot[u][0] = thread[u].node
    BY <1>1, <2>3 DEF Roots
  <2>6. n \in After(thread[u].node)
    BY <1>1, <1>2, <2>1, <2>2, <2>4, <2>5, StringAfter
  <2>7. thread[u].node # Null
    BY <1>1, <2>5, OwnNode, NodesAre
  <2> QED BY <2>1, <2>5, <2>6, <2>7
<1> QED BY <1>3, <1>4

\* The items in the queue are neither popped nor twice in it.
LEMMA ContentsAre ==
  ASSUME NEW g, Good(g)
  PROVE  /\ InQueue \subseteq Nodes /\ head.node \in InQueue /\ tail.node \in InQueue
         /\ \A n \in Nodes : n \in InQueue <=> g.str[n] = Queue
         /\ InQueue \ {head.node} \subseteq Live(g)
         /\ Contents \subseteq Pushed \ popped
<1>1. TypeInv /\ GhostType(g) /\ Chains(g) /\ Linked(g) /\ Ends(g) /\ Contained(g)
  BY DEF Good, Holds, Shape
<1>2. InQueue = {n \in Nodes : g.str[n] = Queue} /\ head.node \in Nodes /\ tail.node \in Nodes
  BY <1>1, QueueNodes, EndsTyped
<1>3. InQueue \ {head.node} \subseteq Live(g)
  BY <1>2, Names DEF Live, Strings
<1>4. Contents \subseteq Pushed \ popped
  BY <1>1, <1>3 DEF Contents, Contained
<1> QED BY <1>1, <1>2, <1>3, <1>4 DEF Ends

\* What has been returned from has been pushed, and the other way round where no push is open.
LEMMA ReturnedPushed ==
  ASSUME TypeInv
  PROVE  /\ Returned \subseteq Pushed
         /\ (\A t \in Threads : thread[t].node = Null) => Returned = Pushed
<1>1. ASSUME NEW i \in Items PROVE pushed[i[1]] \in Nat /\ i[2] \in Nat /\ i[1] \in Threads
  BY ItemsAre DEF TypeInv
<1>2. ASSUME NEW i \in Returned PROVE i \in Pushed
  <2>1. i \in Items /\ i[2] < pushed[i[1]] + (IF thread[i[1]].node = Null THEN 1 ELSE 0)
    BY <1>2 DEF Returned
  <2>2. i[2] <= pushed[i[1]]
    BY <1>1, <2>1
  <2> QED BY <2>1, <2>2 DEF Pushed
<1>3. ASSUME \A t \in Threads : thread[t].node = Null, NEW i \in Pushed PROVE i \in Returned
  <2>1. i \in Items /\ i[2] <= pushed[i[1]] /\ thread[i[1]].node = Null
    BY <1>1, <1>3 DEF Pushed
  <2>2. i[2] < pushed[i[1]] + 1
    BY <1>1, <2>1
  <2> QED BY <2>1, <2>2 DEF Returned
<1> QED BY <1>2, <1>3

\* At rest no thread has a node.
LEMMA AtRest ==
  ASSUME NEW g, Good(g), Resting
  PROVE  /\ Takers = {} /\ \A t \in Threads : ~Unlinked(t) /\ thread[t].node = Null
<1>1. \A t \in Threads : thread[t].at = "idle" /\ PushPlace(t, g) /\ thread[t] \in ThreadState
  BY DEF Good, Holds, Place, TypeInv, Resting, At
<1>2. \A t \in Threads : ~Unlinked(t) /\ ~Pushing(t) /\ t \notin Takers
  BY <1>1 DEF Unlinked, Pushing, At, Takers
<1>3. \A t \in Threads : thread[t].node = Null
  BY <1>1, <1>2 DEF PushPlace, ThreadState
<1> QED BY <1>2, <1>3 DEF Takers

\* No item is lost or taken twice.
LEMMA InvExactlyOnce == IInv => ExactlyOnce
<1> SUFFICES ASSUME NEW g, Good(g) PROVE ExactlyOnce
  BY DEF IInv
<1>1. TypeInv /\ Contained(g) /\ Counted
  BY DEF Good, Holds
<1>2. popped \cap Contents = {}
  BY ContentsAre
<1>3. Returned \subseteq popped \cup Contents \cup {elem[n] : n \in Hidden}
  <2> SUFFICES ASSUME NEW i \in Returned, i \notin popped, i \notin Contents
               PROVE  \E n \in Hidden : i = elem[n]
    OBVIOUS
  <2>1. PICK n \in Live(g) : elem[n] = i
    BY <1>1, ReturnedPushed DEF Contained
  <2>2. PICK u \in Threads : thread[u].node # Null /\ n \in After(thread[u].node)
    BY <2>1, LiveFound
  <2>3. n \in Hidden
    BY <2>2 DEF Hidden
  <2> QED BY <2>1, <2>3
<1>4. ASSUME Resting PROVE count = Cardinality(Contents)
  <2>1. Takers = {} /\ \A t \in Threads : ~Unlinked(t) /\ thread[t].node = Null
    BY <1>4, AtRest
  <2>2. Returned = Pushed
    BY <1>1, <2>1, ReturnedPushed
  <2>3. Contents = Pushed \ popped
    <3> SUFFICES ASSUME NEW i \in Pushed \ popped PROVE i \in Contents
      BY ContentsAre
    <3>1. PICK n \in Live(g) : elem[n] = i
      BY <1>1 DEF Contained
    <3> QED BY <2>1, <3>1, LiveFound
  <2>4. IsFiniteSet(Pushed) /\ Pushed \cap popped = popped
    BY <1>1, ItemsFinite, FS_Subset DEF Pushed, Contained
  <2>5. Cardinality(Contents) = Cardinality(Pushed) - Cardinality(popped)
    <3>1. Cardinality(Pushed \ popped) = Cardinality(Pushed) - Cardinality(Pushed \cap popped)
      BY ONLY <2>4, FS_Difference
    <3> QED BY <2>3, <2>4, <3>1
  <2>6. Cardinality(Takers) = 0 /\ Cardinality(Pushed) \in Nat /\ Cardinality(popped) \in Nat
    BY <1>1, <2>1, <2>4, FS_EmptySet, FS_CardinalityType, EndsTyped DEF Counted
  <2> QED BY <1>1, <2>2, <2>5, <2>6 DEF Counted
<1> QED BY <1>1, <1>2, <1>3, <1>4 DEF ExactlyOnce, Counted

\* No node is used by two at a time.
LEMMA InvNodesApart == IInv => NodesApart
<1> SUFFICES ASSUME NEW g, Good(g) PROVE NodesApart
  BY DEF IInv
<1>1. TypeInv /\ Spare(g) /\ GhostType(g) /\ Chains(g) /\ Roots(g) /\ \A t \in Threads : Place(t, g)
  BY DEF Good, Holds, Shape
<1>2. Free \subseteq Nodes /\ Null \notin Nodes /\ Elsewhere # Queue /\ \A t \in Threads : t # Queue /\ t # Elsewhere
  <2>1. Free \subseteq Nodes
    BY <1>1 DEF Free, Range, TypeInv
  <2> QED BY <2>1, NodesAre, Names DEF Strings
<1>3. InQueue \cap Free = {}
  BY <1>1, <1>2, ContentsAre DEF Spare
<1>4. ASSUME NEW t \in Threads PROVE Own(t) \notin InQueue \cup Free
  <2>1. CASE At(t, "take")
    <3>1. Own(t) = thread[t].link.node /\ t \in Takers
      BY <2>1 DEF Own, Takers
    <3>2. Own(t) \in Nodes \ Free
      BY <1>1, <3>1 DEF Spare
    <3>3. g.str[Own(t)] = Elsewhere
      BY <1>1, <3>1, <3>2 DEF Spare
    <3> QED BY <1>2, <3>2, <3>3, ContentsAre
  <2>2. CASE Unlinked(t)
    <3>1. Own(t) = thread[t].node
      BY <2>2 DEF Own, Unlinked, At
    <3>2. Own(t) \in Nodes /\ g.str[Own(t)] = t
      BY <1>1, <2>2, <3>1, OwnNode
    <3>3. Own(t) \notin Free
      BY <1>1, <1>2, <3>2 DEF Spare
    <3> QED BY <1>2, <3>2, <3>3, ContentsAre
  <2>3. CASE ~At(t, "take") /\ ~Unlinked(t)
    <3>1. Own(t) = Null \/ (Own(t) = thread[t].node /\ ~Pushing(t))
      BY <2>3 DEF Own, Pushing
    <3>2. Own(t) \notin Nodes
      BY <1>1, <1>2, <3>1 DEF Place, PushPlace
    <3> QED BY <1>2, <3>2, ContentsAre
  <2> QED BY <2>1, <2>2, <2>3
<1>5. ASSUME Resting PROVE 0 .. made - 1 = InQueue \cup Free
  <2>1. Takers = {} /\ \A t \in Threads : ~Unlinked(t)
    BY <1>5, AtRest
  <2>2. \A n \in Nodes : g.str[n] \notin Threads
    <3> SUFFICES ASSUME NEW n \in Nodes, NEW t \in Threads, g.str[n] = t PROVE FALSE
      OBVIOUS
    <3>1. g.pos[n] \in Nat /\ g.pos[n] <= g.hi[t] /\ g.hi[t] = -1
      BY <1>1, <1>2, <2>1 DEF Chains, GhostType, Roots
    <3> QED BY <3>1
  <2>3. made \in Nat /\ \A n \in Nat : n < made => n \in Nodes
    BY <1>1, NodesAre, ItemsFinite DEF TypeInv
  <2>4. \A n \in Nodes : n < made <=> n \in InQueue \cup Free
    <3> SUFFICES ASSUME NEW n \in Nodes PROVE n < made <=> n \in InQueue \cup Free
      OBVIOUS
    <3>1. g.str[n] \in {Queue, Elsewhere}
      BY <1>1, <2>2 DEF GhostType, Strings
    <3>2. g.str[n] = Elsewhere <=> made <= n \/ n \in Free
      BY <1>1, <2>1 DEF Spare
    <3>3. n \in Free => n < made
      BY <1>1 DEF Spare
    <3>4. n < made <=> ~(made <= n)
      BY <2>3, NodesAre
    <3> QED BY <1>2, <3>1, <3>2, <3>3, <3>4, ContentsAre
  <2>5. \A n : n \in 0 .. made - 1 <=> n \in Nodes /\ n < made
    <3>1. \A n : n \in 0 .. made - 1 <=> n \in Nat /\ n < made
      BY <2>3
    <3> QED BY <2>3, <3>1, NodesAre
  <2> QED BY <1>2, <2>4, <2>5, ContentsAre
<1> QED BY <1>1, <1>3, <1>4, <1>5, ContentsAre DEF NodesApart, Free, Spare

\* Pop finds the queue empty only if it was.
LEMMA InvNullWhenEmpty == IInv => NullWhenEmpty
BY DEF IInv, Good, Holds, Place, PopPlace, NullWhenEmpty

\* First in, first out, unless a push was blind.
LEMMA InvInOrderUnlessBlind == IInv => InOrderUnlessBlind
<1> SUFFICES ASSUME NEW g, Good(g), ~blind PROVE FifoOrder /\ NoneHidden
  BY DEF IInv, InOrderUnlessBlind
<1>1. TypeInv /\ Contained(g) /\ GhostType(g) /\ Chains(g) /\ Roots(g)
      /\ FifoOrder /\ \A t \in Threads : g.hi[t] <= 0
  BY DEF Good, Holds, Shape, InOrder
<1>2. ASSUME NEW i \in Returned, i \notin popped PROVE i \in Contents
  <2>1. PICK n \in Live(g) : elem[n] = i
    BY <1>1, <1>2, ReturnedPushed DEF Contained
  <2>2. ASSUME NEW u \in Threads, Unlinked(u), g.str[n] = u, thread[u].node # Null PROVE FALSE
    <3>1. n \in Nodes /\ u # Elsewhere /\ u \in Strings
      BY Names DEF Live, Strings
    <3>2. g.pos[n] \in Nat /\ g.pos[n] <= g.hi[u] /\ g.spot[u][g.pos[n]] = n /\ g.hi[u] \in Int
      BY <1>1, <2>2, <3>1 DEF Chains, GhostType
    <3>3. g.pos[n] = 0
      BY <1>1, <3>2
    <3>4. n = thread[u].node
      BY <1>1, <2>2, <3>2, <3>3 DEF Roots
    <3>5. i = <<u, pushed[u]>>
      BY <1>1, <2>1, <2>2, <3>4 DEF Contained
    <3>6. i[1] = u /\ i[2] = pushed[u] /\ pushed[u] \in Nat
      BY <1>1, <3>5 DEF TypeInv
    <3>7. i[2] < pushed[u] + 0
      BY <2>2, <3>6 DEF Returned
    <3> QED BY <3>6, <3>7
  <2> QED BY <2>1, <2>2, LiveFound
<1> QED BY <1>1, <1>2 DEF NoneHidden

\* As many items are in the queue at most as have not been popped.
LEMMA QueueFits ==
  ASSUME NEW g, Good(g) PROVE g.hi[Queue] \in Nat /\ g.hi[Queue] <= Cardinality(Items)
<1>1. TypeInv /\ Contained(g) /\ GhostType(g) /\ Chains(g) /\ Counted
  BY DEF Good, Holds, Shape
<1>2. PICK low : low = head.seq
  OBVIOUS
<1>3. PICK high : high = g.hi[Queue]
  OBVIOUS
<1>4. /\ low \in Nat /\ high \in Int /\ low <= high
      /\ g.spot[Queue][low] = head.node /\ Queue \in Strings /\ Low(Queue) = low
      /\ g.spot[Queue] \in [Nat -> Nodes]
  BY <1>1, <1>2, <1>3, QueueNodes, EndsTyped DEF Good, Holds, Shape, GhostType, Strings, Low
<1>5. PICK S : S = low + 1 .. high
  OBVIOUS
<1>6. \A p \in Nat : low <= p /\ p <= high => g.pos[g.spot[Queue][p]] = p /\ g.str[g.spot[Queue][p]] = Queue
  BY <1>1, <1>3, <1>4 DEF Chains
<1>7. \A p \in S : g.spot[Queue][p] \in Live(g)
  <2> SUFFICES ASSUME NEW p \in S PROVE g.spot[Queue][p] \in Live(g)
    OBVIOUS
  <2>1. p \in Nat /\ low <= p /\ p <= high /\ p # low
    BY <1>4, <1>5
  <2>2. g.spot[Queue][p] \in Nodes /\ g.str[g.spot[Queue][p]] = Queue
    BY <1>4, <1>6, <2>1
  <2>3. g.spot[Queue][p] # head.node
    BY <1>4, <1>6, <2>1
  <2> QED BY <2>2, <2>3, Names DEF Live, Strings
<1>8. PICK f : f = [p \in S |-> elem[g.spot[Queue][p]]]
  OBVIOUS
<1>9. f \in Injection(S, Items \ popped)
  <2>1. f \in [S -> Items \ popped]
    BY <1>1, <1>7, <1>8 DEF Contained, Pushed
  <2>2. \A p, q \in S : f[p] = f[q] => p = q
    <3> SUFFICES ASSUME NEW p \in S, NEW q \in S, f[p] = f[q] PROVE p = q
      OBVIOUS
    <3>1. g.spot[Queue][p] = g.spot[Queue][q]
      BY <1>1, <1>7, <1>8 DEF Contained
    <3>2. p \in Nat /\ low <= p /\ p <= high /\ q \in Nat /\ low <= q /\ q <= high
      BY <1>4, <1>5
    <3> QED BY <1>6, <3>1, <3>2
  <2> QED BY <2>1, <2>2 DEF Injection, IsInjective
<1>10. Cardinality(S) <= Cardinality(Items \ popped) /\ Cardinality(S) = high - low
  <2>1. IsFiniteSet(Items \ popped)
    BY ItemsFinite, FS_Subset
  <2>2. Cardinality(S) <= Cardinality(Items \ popped)
    BY <1>9, <2>1, FS_Injection
  <2>3. Cardinality(S) = high - low
    <3>1. low + 1 \in Int /\ high \in Int
      BY <1>4
    <3>2. Cardinality(low + 1 .. high) = IF low + 1 > high THEN 0 ELSE high - (low + 1) + 1
      BY ONLY <3>1, FS_Interval
    <3>3. (IF low + 1 > high THEN 0 ELSE high - (low + 1) + 1) = high - low
      BY <1>4
    <3> QED BY <1>5, <3>2, <3>3
  <2> QED BY <2>2, <2>3
<1>11. Cardinality(Items \ popped) = Cardinality(Items) - low
  <2>1. Items \cap popped = popped
    BY <1>1 DEF TypeInv
  <2>2. Cardinality(Items \ popped) = Cardinality(Items) - Cardinality(Items \cap popped)
    BY ONLY ItemsFinite, FS_Difference
  <2> QED BY <1>1, <1>2, <2>1, <2>2 DEF Counted
<1> QED BY <1>3, <1>4, <1>10, <1>11, ItemsFinite

\* The bounds of the counters.
LEMMA InvTypeOK == IInv => TypeOK
<1> SUFFICES ASSUME NEW g, Good(g), Behind PROVE TypeOK
  BY DEF IInv
<1>1. TypeInv /\ Taken /\ Counted /\ Cardinality(Items) \in Nat /\ IsFiniteSet(Items)
  BY ItemsFinite DEF Good
<1>2. /\ head.seq \in Nat /\ tail.seq \in Nat /\ head.seq <= tail.seq
      /\ tail.seq <= Cardinality(Items)
  BY <1>1, QueueFits, QueueNodes, GoodEnds DEF Good, Holds, Shape
<1>3. head \in Links /\ tail \in Links
  <2>1. head.seq \in 0 .. Cardinality(Items) /\ tail.seq \in 0 .. Cardinality(Items)
    BY <1>1, <1>2
  <2> QED BY <1>1, <2>1 DEF TypeInv, Links
<1>4. count \in -Cardinality(Items) .. Cardinality(Items)
  <2>1. /\ Cardinality(Returned) \in Nat /\ Cardinality(Returned) <= Cardinality(Items)
        /\ Cardinality(popped) \in Nat /\ Cardinality(popped) <= Cardinality(Items)
        /\ IsFiniteSet(popped)
    BY <1>1, FS_Subset, FS_CardinalityType DEF Returned, TypeInv
  <2>2. Cardinality(Takers) \in Nat /\ Cardinality(Takers) <= Cardinality(popped)
    <3>1. PICK f : f = [t \in Takers |-> thread[t].elem]
      OBVIOUS
    <3>2. f \in Injection(Takers, popped)
      BY <1>1, <3>1 DEF Taken, Injection, IsInjective
    <3> QED BY <2>1, <3>2, FS_Injection, FS_CardinalityType
  <2>3. count = Cardinality(Returned) - Cardinality(popped) + Cardinality(Takers)
    BY <1>1 DEF Counted
  <2> QED BY <1>1, <2>1, <2>2, <2>3
<1>5. thread \in [Threads -> [at : Places, node : Nodes \cup {Null}, link : Links,
                              next : Nodes \cup {End, Null}, tailSeq : 0..Cardinality(Items),
                              elem : Items \cup {Nothing}, empty : BOOLEAN]]
  <2> SUFFICES ASSUME NEW t \in Threads
               PROVE  thread[t] \in [at : Places, node : Nodes \cup {Null}, link : Links,
                              next : Nodes \cup {End, Null}, tailSeq : 0..Cardinality(Items),
                              elem : Items \cup {Nothing}, empty : BOOLEAN]
    BY <1>1 DEF TypeInv
  <2>1. thread[t] \in ThreadState
    BY <1>1 DEF TypeInv
  <2>2. thread[t].link.seq \in 0 .. Cardinality(Items) /\ thread[t].tailSeq \in 0 .. Cardinality(Items)
    BY <1>1, <1>2, <2>1 DEF Behind, ThreadState
  <2>3. thread[t].link \in Links
    BY <2>1, <2>2 DEF ThreadState, Links
  <2> QED BY <2>1, <2>2, <2>3 DEF ThreadState
<1>6. made \in 0 .. Cardinality(Nodes)
  BY <1>1, NodesAre DEF TypeInv
<1> QED BY <1>1, <1>3, <1>4, <1>5, <1>6 DEF TypeInv, TypeOK

-----------------------------------------------------------------------------

\* Every variable keeps its type: no sequence exceeds the number of items that are ever pushed,
\* and m_Count that number in size, however many threads push and pop.
THEOREM QueueTypeCorrect == Spec => []TypeOK
BY InductiveInvariant, InvTypeOK, PTL

\* No item is lost or taken twice: when its PushItem has returned it was popped, is in the queue,
\* or hangs on a node that a push is about to link; when all threads rest, m_Count counts them.
THEOREM ItemsTakenOnce == Spec => []ExactlyOnce
BY InductiveInvariant, InvExactlyOnce, PTL

\* A node that is free, or that a thread alone uses, is not in the queue, the tail is in it, and
\* no node leaks: nodes are recycled only when nothing leads to them any more.
THEOREM NodesStayApart == Spec => []NodesApart
BY InductiveInvariant, InvNodesApart, PTL

\* Pop returns nullptr only to a thread during whose call the queue was empty.
THEOREM NullOnlyWhenEmpty == Spec => []NullWhenEmpty
BY InductiveInvariant, InvNullWhenEmpty, PTL

\* As long as no push has linked its node to one that was recycled, the items of each thread are
\* popped in the order in which it pushed them, and none whose push has returned is hidden.
THEOREM FirstInFirstOut == Spec => []InOrderUnlessBlind
BY InductiveInvariant, InvInOrderUnlessBlind, PTL

=============================================================================
