------------------------------ MODULE TSQueue ------------------------------
(***************************************************************************)
(* CTSQueue (public/tier0/tslist.h), the lock-free queue under the thread    *)
(* pool's job queues, the loopback sockets, call queues and others.  It is a   *)
(* chain of nodes that starts with a dummy; a push links its node behind the  *)
(* tail and moves the tail, or helps the push that has not moved it yet.       *)
(* Popped nodes go to m_FreeNodes and are used again.                          *)
(*                                                                         *)
(* A step is one access to memory that other threads write.  m_Head and       *)
(* m_Tail are swapped as a whole, but their two words are read one by one.     *)
(* A CTSListBase has a version in its head, so m_FreeNodes is a stack here;   *)
(* its links lie over pNext.  m_Count, which no thread reads on the way, and    *)
(* the node that a push alone knows are written with the step beside them.    *)
(***************************************************************************)
EXTENDS Integers, FiniteSets, SequencesExt

CONSTANTS
  Threads,
  Poppers,  \* the threads that pop
  MaxItems  \* bound: items that each thread pushes

ASSUME TSQueueAssumption ==
  IsFiniteSet(Threads) /\ Poppers \subseteq Threads /\ MaxItems \in [Threads -> Nat]

Items == UNION {{t} \X (1..MaxItems[t]) : t \in Threads}

\* Enough for all items and the dummy: "new" takes the next one.
Nodes == 0..Cardinality(Items)

\* End() is the address of the queue; a free list ends with a null pointer.
End  == -1
Null == -2
Nothing == <<>>

VARIABLES
  head, tail, \* m_Head and m_Tail: node and sequence
  next, elem, \* pNext and elem of each node
  freeNodes,  \* m_FreeNodes
  count,      \* m_Count
  made,       \* nodes allocated so far
  thread,     \* of each thread: where it is and its local variables
  pushed,     \* history: number of calls of PushItem of each thread
  popped,     \* history: items that were taken
  blind       \* history: a push linked its node to one that was not in the queue

lists == <<next, freeNodes, made>>
histories == <<pushed, popped, blind>>
vars == <<head, tail, lists, elem, count, thread, histories>>

\* at: the access that comes next.  node: the node to push.  link: oldTail of Push, head of
\* Pop.  next, tailSeq, elem: pNext, tailSequence, elem.
\* empty: history, whether the queue was empty when Pop read End().
Idle == [at |-> "idle", node |-> Null, link |-> [node |-> Null, seq |-> 0], next |-> Null,
         tailSeq |-> 0, elem |-> Nothing, empty |-> FALSE]

Init ==
  /\ head = [node |-> 0, seq |-> 0] /\ tail = head
  /\ next = [n \in Nodes |-> IF n = 0 THEN End ELSE Null]
  /\ elem = [n \in Nodes |-> Nothing]
  /\ freeNodes = <<>> /\ made = 1
  /\ count = 0
  /\ thread = [t \in Threads |-> Idle]
  /\ pushed = [t \in Threads |-> 0] /\ popped = {} /\ blind = FALSE

At(t, place) == thread[t].at = place
Go(t, place) == thread' = [thread EXCEPT ![t].at = place]

\* The nodes that a thread finds from node n on.
After(n) ==
  LET walk[k \in Nodes] == IF k = 0 THEN n
                           ELSE IF walk[k - 1] \in Nodes THEN next[walk[k - 1]] ELSE End
  IN {walk[k] : k \in Nodes} \cap Nodes

InQueue  == After(head.node)
Contents == {elem[n] : n \in InQueue \ {head.node}}

\* The items whose PushItem has returned.
Returned == {i \in Items : i[2] < pushed[i[1]] + (IF thread[i[1]].node = Null THEN 1 ELSE 0)}

-----------------------------------------------------------------------------
(* Push.                                                                   *)

\* PushItem: a node of the free list or a new one, with End() behind it.
PushItem(t) ==
  /\ At(t, "idle") /\ pushed[t] < MaxItems[t]
  /\ LET n == IF freeNodes # <<>> THEN Head(freeNodes) ELSE made IN
     /\ thread' = [thread EXCEPT ![t] = [Idle EXCEPT !.at = "tail sequence", !.node = n]]
     /\ elem' = [elem EXCEPT ![n] = <<t, pushed[t] + 1>>]
     /\ next' = [next EXCEPT ![n] = End]
  /\ IF freeNodes # <<>> THEN freeNodes' = Tail(freeNodes) /\ UNCHANGED made
                         ELSE made' = made + 1 /\ UNCHANGED freeNodes
  /\ pushed' = [pushed EXCEPT ![t] = @ + 1]
  /\ UNCHANGED <<head, tail, count, popped, blind>>

LoadTailSequence(t) ==
  /\ At(t, "tail sequence")
  /\ thread' = [thread EXCEPT ![t].at = "tail node", ![t].link.seq = tail.seq]
  /\ UNCHANGED <<head, tail, lists, elem, count, histories>>

LoadTailNode(t) ==
  /\ At(t, "tail node")
  /\ thread' = [thread EXCEPT ![t].at = "link", ![t].link.node = tail.node]
  /\ UNCHANGED <<head, tail, lists, elem, count, histories>>

\* Whether a compare and swap of pNext succeeds.  Mutant: a store.
CanLinkAlways(n) == TRUE
CanLink(n) == next[n] = End

LinkNode(t) ==
  /\ At(t, "link")
  /\ LET n == thread[t].link.node IN
     IF CanLink(n)
     THEN /\ next' = [next EXCEPT ![n] = thread[t].node]
          /\ Go(t, "finish")
          /\ blind' = (blind \/ n \notin InQueue)
     ELSE /\ Go(t, "help")
          /\ UNCHANGED <<next, blind>>
  /\ UNCHANGED <<head, tail, freeNodes, made, elem, count, pushed, popped>>

\* FinishPush.  Mutants: the sequence is not compared; the tail is not moved.
FinishPushOfNode(n, old) ==
  tail' = IF tail.node = old.node THEN [node |-> n, seq |-> tail.seq + 1] ELSE tail
NoFinishPush(n, old) == UNCHANGED tail
FinishPush(n, old) ==
  tail' = IF tail = old THEN [node |-> n, seq |-> old.seq + 1] ELSE tail

\* Another thread is trying to push: its node is read again, and the tail moved for it.
LoadLinked(t) ==
  /\ At(t, "help")
  /\ thread' = [thread EXCEPT ![t].at = "help tail",
                              ![t].next = next[thread[t].link.node]]
  /\ UNCHANGED <<head, tail, lists, elem, count, histories>>

HelpTail(t) ==
  /\ At(t, "help tail")
  /\ FinishPush(thread[t].next, thread[t].link)
  /\ thread' = [thread EXCEPT ![t].at = "tail sequence", ![t].next = Null,
                              ![t].link = Idle.link]
  /\ UNCHANGED <<head, lists, elem, count, histories>>

FinishOwnPush(t) ==
  /\ At(t, "finish")
  /\ FinishPush(thread[t].node, thread[t].link)
  /\ count' = count + 1
  /\ thread' = [thread EXCEPT ![t] = Idle]
  /\ UNCHANGED <<head, lists, elem, histories>>

-----------------------------------------------------------------------------
(* Pop.                                                                    *)

PopItem(t) ==
  /\ t \in Poppers /\ At(t, "idle")
  /\ thread' = [thread EXCEPT ![t].at = "head sequence"]
  /\ UNCHANGED <<head, tail, lists, elem, count, histories>>

LoadHeadSequence(t) ==
  /\ At(t, "head sequence")
  /\ thread' = [thread EXCEPT ![t].at = "head node", ![t].link.seq = head.seq]
  /\ UNCHANGED <<head, tail, lists, elem, count, histories>>

LoadHeadNode(t) ==
  /\ At(t, "head node")
  /\ thread' = [thread EXCEPT ![t].at = "pop tail sequence", ![t].link.node = head.node]
  /\ UNCHANGED <<head, tail, lists, elem, count, histories>>

LoadPopTailSequence(t) ==
  /\ At(t, "pop tail sequence")
  /\ thread' = [thread EXCEPT ![t].at = "next", ![t].tailSeq = tail.seq]
  /\ UNCHANGED <<head, tail, lists, elem, count, histories>>

LoadNext(t) ==
  /\ At(t, "next")
  /\ LET n == next[thread[t].link.node] IN
     thread' = [thread EXCEPT ![t].at = "check", ![t].next = n,
                              ![t].empty = n = End /\ InQueue = {head.node}]
  /\ UNCHANGED <<head, tail, lists, elem, count, histories>>

Restarted == [Idle EXCEPT !.at = "head sequence"]

\* Whether pNext belongs to the head.  Mutant: the sequence is not read again.
NextNotNull(t) == thread[t].next # Null
NextIsValid(t) == thread[t].next # Null /\ thread[t].link.seq = head.seq

CheckNext(t) ==
  /\ At(t, "check")
  /\ thread' = [thread EXCEPT ![t] = IF NextIsValid(t) THEN [@ EXCEPT !.at = "tail"]
                                                       ELSE Restarted]
  /\ UNCHANGED <<head, tail, lists, elem, count, histories>>

\* The head is the tail: the queue is empty, or another thread is trying to push.
CompareTail(t) ==
  /\ At(t, "tail")
  /\ thread' =
       [thread EXCEPT ![t] =
          IF @.link.node = tail.node
          THEN IF @.next = End THEN Idle ELSE [@ EXCEPT !.at = "pop help"]
          ELSE IF @.next = End THEN Restarted ELSE [@ EXCEPT !.at = "elem"]]
  /\ UNCHANGED <<head, tail, lists, elem, count, histories>>

PopHelpTail(t) ==
  /\ At(t, "pop help")
  /\ FinishPush(thread[t].next, [thread[t].link EXCEPT !.seq = thread[t].tailSeq])
  /\ thread' = [thread EXCEPT ![t] = Restarted]
  /\ UNCHANGED <<head, lists, elem, count, histories>>

\* The node may have been popped, and even be in use again.
LoadElem(t) ==
  /\ At(t, "elem")
  /\ thread' = [thread EXCEPT ![t].at = "head", ![t].elem = elem[thread[t].next]]
  /\ UNCHANGED <<head, tail, lists, elem, count, histories>>

\* Whether the head is the one that was read.  Mutant: without the sequence.
SameHeadNode(link) == head.node = link.node
SameHead(link) == head = link

SwapHead(t) ==
  /\ At(t, "head")
  /\ IF SameHead(thread[t].link)
     THEN /\ head' = [node |-> thread[t].next, seq |-> head.seq + 1]
          /\ popped' = popped \cup {thread[t].elem}
          /\ Go(t, "take")
     ELSE /\ thread' = [thread EXCEPT ![t] = Restarted]
          /\ UNCHANGED <<head, popped>>
  /\ UNCHANGED <<tail, lists, elem, count, pushed, blind>>

\* The former dummy gets the element; PopItem copies it, and the node is free.
TakeItem(t) ==
  /\ At(t, "take")
  /\ LET n == thread[t].link.node IN
     /\ elem' = [elem EXCEPT ![n] = thread[t].elem]
     /\ next' = [next EXCEPT ![n] = IF freeNodes = <<>> THEN Null ELSE Head(freeNodes)]
     /\ freeNodes' = <<n>> \o freeNodes
  /\ count' = count - 1
  /\ thread' = [thread EXCEPT ![t] = Idle]
  /\ UNCHANGED <<head, tail, made, histories>>

\* What a thread does once it has begun.
PushStep(t) ==
  \/ LoadTailSequence(t) \/ LoadTailNode(t) \/ LinkNode(t)
  \/ LoadLinked(t) \/ HelpTail(t) \/ FinishOwnPush(t)

PopStep(t) ==
  \/ LoadHeadSequence(t) \/ LoadHeadNode(t) \/ LoadPopTailSequence(t) \/ LoadNext(t)
  \/ CheckNext(t) \/ CompareTail(t) \/ PopHelpTail(t) \/ LoadElem(t) \/ SwapHead(t)
  \/ TakeItem(t)

Step(t) == PushStep(t) \/ PopStep(t)

Next == \E t \in Threads : PushItem(t) \/ PopItem(t) \/ Step(t)

Spec == Init /\ [][Next]_vars

\* The scheduler runs every thread; nobody has to push or to pop.
FairSpec == Spec /\ \A t \in Threads : WF_vars(Step(t))

-----------------------------------------------------------------------------
(* Properties.                                                             *)

Links == [node : Nodes \cup {Null}, seq : 0..Cardinality(Items)]

Places == {"idle", "tail sequence", "tail node", "link", "help", "help tail", "finish",
           "head sequence", "head node", "pop tail sequence", "next", "check", "tail",
           "pop help", "elem", "head", "take"}

\* The values of the variables.  Each push moves the tail once and each pop the head once,
\* whoever does it, so no sequence exceeds the number of items.
TypeOK ==
  /\ head \in Links /\ tail \in Links
  /\ next \in [Nodes -> Nodes \cup {End, Null}]
  /\ elem \in [Nodes -> Items \cup {Nothing}]
  /\ freeNodes \in Seq(Nodes) /\ made \in 0..Cardinality(Nodes)
  /\ count \in -Cardinality(Items)..Cardinality(Items)
  /\ thread \in [Threads -> [at : Places, node : Nodes \cup {Null}, link : Links,
                             next : Nodes \cup {End, Null}, tailSeq : 0..Cardinality(Items),
                             elem : Items \cup {Nothing}, empty : BOOLEAN]]
  /\ pushed \in [Threads -> Nat]
  /\ popped \subseteq Items
  /\ blind \in BOOLEAN

\* The node that a thread alone may use: it is to be linked, or has been popped.
Own(t) == IF At(t, "take") THEN thread[t].link.node
          ELSE IF At(t, "finish") THEN Null ELSE thread[t].node

\* Nodes that hang on one that is not linked yet.
Hidden == UNION {After(thread[t].node) : t \in {u \in Threads : thread[u].node # Null}}

Resting == \A t \in Threads : At(t, "idle")

\* An item is taken once, and is not lost: when its push has returned it was popped, or is in
\* the queue, or behind a node that another push is about to link.  At rest m_Count is the
\* number of items, as in ValidateQueue.
ExactlyOnce ==
  /\ Cardinality(popped) = head.seq
  /\ popped \cap Contents = {}
  /\ Returned \subseteq popped \cup Contents \cup {elem[n] : n \in Hidden}
  /\ Resting => count = Cardinality(Contents)

\* The tail never falls behind the head, and a node that is free, or a thread's own, is not in
\* the queue: nothing is recycled while the queue still leads to it, and no node leaks.
NodesApart ==
  /\ tail.node \in InQueue
  /\ InQueue \cap Range(freeNodes) = {}
  /\ \A t \in Threads : Own(t) \notin InQueue \cup Range(freeNodes)
  /\ IsInjective(freeNodes)
  /\ Resting => 0..made - 1 = InQueue \cup Range(freeNodes)

\* Pop returns nullptr only if the queue was empty at some moment of the call, although it reads
\* head, next and tail one after the other and the nodes may be in use again.
NullWhenEmpty ==
  \A t \in Threads :
    At(t, "tail") /\ thread[t].link.node = tail.node /\ thread[t].next = End => thread[t].empty

\* The items of a thread are popped in the order in which it pushed them.  The code breaks it:
\* pNext of a tail that was popped and is used again is End() before its new push links it, and
\* a push that read the old tail hangs its node on it, out of sight of Pop.
FifoOrder == \A i \in popped : \A n \in 1..i[2] - 1 : <<i[1], n>> \in popped

\* An item whose push has returned is in the queue, for Pop to find, until it is popped.
NoneHidden == Returned \subseteq popped \cup Contents

\* Nothing else disturbs the order, or hides an item: as long as no push has linked its node to
\* one that was not in the queue, CTSQueue is first in, first out.
InOrderUnlessBlind == blind \/ (FifoOrder /\ NoneHidden)

\* Every call returns, though each may have to help the others and to start again.
EventuallyReturns == \A t \in Threads : []<>At(t, "idle")

=============================================================================
