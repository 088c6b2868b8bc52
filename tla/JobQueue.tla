------------------------------ MODULE JobQueue ------------------------------
(***************************************************************************)
(* CJobQueue (vstdlib/jobthread.cpp): one lock-free queue per priority and  *)
(* a counter that a mutex guards.  Push puts the job in a queue and then    *)
(* counts it; Pop takes one from the counter and then looks for an item from *)
(* the highest priority down.  Between the two halves other threads run.    *)
(*                                                                         *)
(* m_nMaxItems is INT_MAX, so PrePush finds no overflow; m_MinPriority is    *)
(* JP_LOW.  The branch of Pop that finds no item at any priority, where the   *)
(* code asserts, is the negation of PopFindsItem: no action stands for it.  *)
(***************************************************************************)
EXTENDS Integers, Sequences, FiniteSets

CONSTANTS
  Threads,        \* the threads that push and pop
  Queues,         \* the queues
  Jobs,
  NumPriorities   \* JP_NUM_PRIORITIES

ASSUME ThreadsAssumption    == IsFiniteSet(Threads)
ASSUME PrioritiesAssumption == NumPriorities \in Nat \ {0}

Top    == NumPriorities - 1
Levels == 0 .. Top

VARIABLES
  queues,     \* m_queues[priority] of each queue
  nItems,     \* m_nItems
  available,  \* m_JobAvailableEvent, a manual-reset event
  call        \* how far each thread is in Push or Pop

queueVars == <<queues, nItems, available, call>>

\* A thread is outside the queues, has pushed an item it has still to count, or
\* has taken one from the counter and looks for it at "level".
Outside         == [op |-> "none"]
Counting(q)     == [op |-> "count", queue |-> q]
Scanning(q, l)  == [op |-> "scan", queue |-> q, level |-> l]
CallStates      == {Outside} \cup {Counting(q) : q \in Queues}
                             \cup {Scanning(q, l) : q \in Queues, l \in Levels}

QueueTypeOK ==
  /\ queues \in [Queues -> [Levels -> Seq(Jobs)]]
  /\ nItems \in [Queues -> Nat]
  /\ available \in [Queues -> BOOLEAN]
  /\ call \in [Threads -> CallStates]

QueueInit ==
  /\ queues = [q \in Queues |-> [l \in Levels |-> <<>>]]
  /\ nItems = [q \in Queues |-> 0]
  /\ available = [q \in Queues |-> FALSE]
  /\ call = [t \in Threads |-> Outside]

-----------------------------------------------------------------------------
\* CJobQueue::Push, first half: PushItem, before the mutex is taken.
PushItem(t, q, j, l) ==
  /\ call[t] = Outside
  /\ queues' = [queues EXCEPT ![q][l] = Append(@, j)]
  /\ call' = [call EXCEPT ![t] = Counting(q)]
  /\ UNCHANGED <<nItems, available>>

\* Mutant: the counter is compared before it is increased.
CountSecond(t) ==
  LET q == call[t].queue
  IN  /\ call[t].op = "count"
      /\ nItems' = [nItems EXCEPT ![q] = @ + 1]
      /\ available' = [available EXCEPT ![q] = @ \/ nItems[q] = 1]
      /\ call' = [call EXCEPT ![t] = Outside]
      /\ UNCHANGED queues
\* Second half, under the mutex: the first item sets the event.
CountItem(t) ==
  LET q == call[t].queue
  IN  /\ call[t].op = "count"
      /\ nItems' = [nItems EXCEPT ![q] = @ + 1]
      /\ available' = [available EXCEPT ![q] = @ \/ nItems[q] = 0]
      /\ call' = [call EXCEPT ![t] = Outside]
      /\ UNCHANGED queues

\* Mutant: the loop over the priorities starts one too low.
StartBelow(t, q) ==
  /\ call[t] = Outside
  /\ nItems[q] > 0
  /\ nItems' = [nItems EXCEPT ![q] = @ - 1]
  /\ available' = [available EXCEPT ![q] = @ /\ nItems[q] # 1]
  /\ call' = [call EXCEPT ![t] = Scanning(q, Top - 1)]
  /\ UNCHANGED queues
\* Mutant: the counter is not tested under the mutex.
StartUnchecked(t, q) ==
  /\ call[t] = Outside
  /\ nItems' = [nItems EXCEPT ![q] = @ - 1]
  /\ available' = [available EXCEPT ![q] = @ /\ nItems[q] # 1]
  /\ call' = [call EXCEPT ![t] = Scanning(q, Top)]
  /\ UNCHANGED queues
\* CJobQueue::Pop under the mutex, with an item counted: the last one resets
\* the event.  Without an item Pop returns false and changes nothing.
StartPop(t, q) ==
  /\ call[t] = Outside
  /\ nItems[q] > 0
  /\ nItems' = [nItems EXCEPT ![q] = @ - 1]
  /\ available' = [available EXCEPT ![q] = @ /\ nItems[q] # 1]
  /\ call' = [call EXCEPT ![t] = Scanning(q, Top)]
  /\ UNCHANGED queues

\* Is there an item at the priority that the thread looks at?
Scanned(t)   == queues[call[t].queue][call[t].level]
NoItem(t)    == call[t].op = "scan" /\ Scanned(t) = <<>>
FoundItem(t) == call[t].op = "scan" /\ Scanned(t) # <<>>

\* PopItem fails: the next lower priority.
LowerPriority(t) ==
  /\ NoItem(t)
  /\ call[t].level > 0
  /\ call' = [call EXCEPT ![t].level = @ - 1]
  /\ UNCHANGED <<queues, nItems, available>>

\* PopItem succeeds: Pop returns Head(Scanned(t)).
PopItem(t) ==
  /\ FoundItem(t)
  /\ queues' = [queues EXCEPT ![call[t].queue][call[t].level] = Tail(@)]
  /\ call' = [call EXCEPT ![t] = Outside]
  /\ UNCHANGED <<nItems, available>>

QueueNext ==
  \E t \in Threads :
    \/ \E q \in Queues, j \in Jobs, l \in Levels : PushItem(t, q, j, l)
    \/ CountItem(t)
    \/ \E q \in Queues : StartPop(t, q)
    \/ LowerPriority(t)
    \/ PopItem(t)

QueueSpec == QueueInit /\ [][QueueNext]_queueVars

-----------------------------------------------------------------------------
\* Pop always finds the item that it took from the counter, whatever the other
\* threads push and pop while it looks: the AssertMsg of Pop, "Expected at
\* least one queue item", is never reached.
PopFindsItem ==
  \A t \in Threads : NoItem(t) => call[t].level > 0

=============================================================================
