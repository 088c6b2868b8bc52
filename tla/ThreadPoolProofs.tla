-------------------------- MODULE ThreadPoolProofs --------------------------
(***************************************************************************)
(* First the queue: Pop of JobQueue always finds an item, for any number of  *)
(* threads, queues and priorities.  A thread that looks for its item at      *)
(* priority l has seen the higher queues empty, but others fill and empty    *)
(* them meanwhile; what holds is that at or below any priority there are at  *)
(* least as many items as threads that look for one there.                   *)
(*                                                                          *)
(* Then the pool: it implements JobQueue, so that its Pop always finds an    *)
(* item too, and it serves every job at most once, for any number of         *)
(* workers, handlers, jobs, priorities and calls.                            *)
(***************************************************************************)
EXTENDS ThreadPool, FiniteSetTheorems, TLAPS

\* The places of the items at or below a priority.
Positions(q, l) == {p \in Levels \X (Nat \ {0}) : p[1] <= l /\ p[2] <= Len(queues[q][p[1]])}
\* The threads that look for an item at or below it, and those that have pushed
\* one and not counted it.
Scanners(q, l)  == {t \in Threads : \E k \in 0 .. l : call[t] = Scanning(q, k)}
Counters(q)     == {t \in Threads : call[t] = Counting(q)}

Balance(q)   == Cardinality(Positions(q, Top))
                  = nItems[q] + Cardinality(Scanners(q, Top)) + Cardinality(Counters(q))
Enough(q, l) == Cardinality(Scanners(q, l)) <= Cardinality(Positions(q, l))

QueueInv ==
  /\ QueueTypeOK
  /\ \A q \in Queues : /\ IsFiniteSet(Positions(q, Top))
                       /\ Balance(q)
                       /\ \A l \in Levels : Enough(q, l)

-----------------------------------------------------------------------------
LEMMA TopLevel == Top \in Levels /\ Levels \subseteq Nat /\ \A l \in Levels : 0 <= l /\ l <= Top
BY PrioritiesAssumption DEF Top, Levels

\* The sets of threads are finite.
LEMMA FiniteThreads ==
  ASSUME NEW q, NEW l
  PROVE  /\ IsFiniteSet(Scanners(q, l)) /\ Cardinality(Scanners(q, l)) \in Nat
         /\ IsFiniteSet(Counters(q)) /\ Cardinality(Counters(q)) \in Nat
BY ThreadsAssumption, FS_Subset, FS_CardinalityType DEF Scanners, Counters

\* The places at or below a priority are among all the places.
LEMMA FinitePositions ==
  ASSUME NEW q \in Queues, IsFiniteSet(Positions(q, Top)), NEW l \in Levels
  PROVE  IsFiniteSet(Positions(q, l)) /\ Cardinality(Positions(q, l)) \in Nat
<1>1. Positions(q, l) \subseteq Positions(q, Top)
  BY TopLevel DEF Positions
<1> QED BY <1>1, FS_Subset, FS_CardinalityType

\* The three states of a call are different.
LEMMA DifferentCalls ==
  ASSUME NEW q, NEW r, NEW l
  PROVE  /\ Outside # Counting(q) /\ Outside # Scanning(r, l)
         /\ Counting(q) # Scanning(r, l)
BY DEF Outside, Counting, Scanning

LEMMA SameScan ==
  ASSUME NEW q, NEW r, NEW l, NEW k
  PROVE  Scanning(q, l) = Scanning(r, k) <=> q = r /\ l = k
<1>1. ASSUME Scanning(q, l) = Scanning(r, k) PROVE q = r /\ l = k
  <2>1. Scanning(q, l).queue = Scanning(r, k).queue /\ Scanning(q, l).level = Scanning(r, k).level
    BY <1>1
  <2> QED BY <2>1 DEF Scanning
<1> QED BY <1>1

\* What call[t].op = "scan" means.
LEMMA ScanState ==
  ASSUME QueueTypeOK, NEW t \in Threads, call[t].op = "scan"
  PROVE  \E q \in Queues, l \in Levels :
           call[t] = Scanning(q, l) /\ call[t].queue = q /\ call[t].level = l
BY DEF QueueTypeOK, CallStates, Outside, Counting, Scanning

LEMMA CountState ==
  ASSUME QueueTypeOK, NEW t \in Threads, call[t].op = "count"
  PROVE  \E q \in Queues : call[t] = Counting(q) /\ call[t].queue = q
BY DEF QueueTypeOK, CallStates, Outside, Counting, Scanning

-----------------------------------------------------------------------------
LEMMA InitInv == QueueInit => QueueInv
<1> SUFFICES ASSUME QueueInit PROVE QueueInv
  OBVIOUS
<1>1. QueueTypeOK
  BY DEF QueueInit, QueueTypeOK, CallStates
<1>2. ASSUME NEW q \in Queues, NEW l \in Levels
      PROVE  Positions(q, l) = {} /\ Scanners(q, l) = {} /\ Counters(q) = {}
  <2>1. Positions(q, l) = {}
    BY DEF QueueInit, Positions
  <2>2. Scanners(q, l) = {} /\ Counters(q) = {}
    BY DifferentCalls DEF QueueInit, Scanners, Counters
  <2> QED BY <2>1, <2>2
<1>3. ASSUME NEW q \in Queues
      PROVE  IsFiniteSet(Positions(q, Top)) /\ Balance(q) /\ \A l \in Levels : Enough(q, l)
  <2>1. nItems[q] = 0
    BY DEF QueueInit
  <2>2. IsFiniteSet({}) /\ Cardinality({}) = 0
    BY FS_EmptySet
  <2>3. Balance(q)
    BY <2>1, <2>2, <1>2, TopLevel DEF Balance
  <2>4. \A l \in Levels : Enough(q, l)
    BY <2>2, <1>2 DEF Enough
  <2>5. IsFiniteSet(Positions(q, Top))
    BY <2>2, <1>2, TopLevel
  <2> QED BY <2>3, <2>4, <2>5
<1> QED BY <1>1, <1>3 DEF QueueInv

LEMMA OutsideState == Outside \in CallStates
BY DEF CallStates

\* Every step keeps the types.
LEMMA TypeStep ==
  ASSUME QueueTypeOK, [QueueNext]_queueVars
  PROVE  QueueTypeOK'
<1> USE TopLevel
<1>1. ASSUME NEW t \in Threads, NEW q \in Queues, NEW j \in Jobs, NEW l \in Levels,
             PushItem(t, q, j, l)
      PROVE  QueueTypeOK'
  <2>1. queues' \in [Queues -> [Levels -> Seq(Jobs)]]
    BY <1>1 DEF QueueTypeOK, PushItem
  <2>2. Counting(q) \in CallStates
    BY DEF CallStates
  <2>3. call' \in [Threads -> CallStates]
    BY <1>1, <2>2 DEF QueueTypeOK, PushItem
  <2> QED BY <1>1, <2>1, <2>3 DEF QueueTypeOK, PushItem
<1>2. ASSUME NEW t \in Threads, CountItem(t) PROVE QueueTypeOK'
  <2>1. PICK q \in Queues : call[t] = Counting(q) /\ call[t].queue = q
    BY <1>2, CountState DEF CountItem
  <2>2. nItems' \in [Queues -> Nat] /\ available' \in [Queues -> BOOLEAN]
    BY <1>2, <2>1 DEF QueueTypeOK, CountItem
  <2>3. call' \in [Threads -> CallStates]
    BY <1>2, OutsideState DEF QueueTypeOK, CountItem
  <2> QED BY <1>2, <2>2, <2>3 DEF QueueTypeOK, CountItem
<1>3. ASSUME NEW t \in Threads, NEW q \in Queues, StartPop(t, q) PROVE QueueTypeOK'
  <2>1. nItems' \in [Queues -> Nat] /\ available' \in [Queues -> BOOLEAN]
    BY <1>3 DEF QueueTypeOK, StartPop
  <2>2. Scanning(q, Top) \in CallStates
    BY DEF CallStates
  <2>3. call' \in [Threads -> CallStates]
    BY <1>3, <2>2 DEF QueueTypeOK, StartPop
  <2> QED BY <1>3, <2>1, <2>3 DEF QueueTypeOK, StartPop
<1>4. ASSUME NEW t \in Threads, LowerPriority(t) PROVE QueueTypeOK'
  <2>1. PICK q \in Queues, l \in Levels : call[t] = Scanning(q, l) /\ call[t].level = l
    BY <1>4, ScanState DEF LowerPriority, NoItem
  <2>2. l - 1 \in Levels /\ [call[t] EXCEPT !.level = @ - 1] = Scanning(q, l - 1)
    BY <1>4, <2>1 DEF LowerPriority, Levels, Scanning
  <2>3. call' = [call EXCEPT ![t] = Scanning(q, l - 1)]
    BY <1>4, <2>2 DEF LowerPriority, QueueTypeOK
  <2>4. Scanning(q, l - 1) \in CallStates
    BY <2>2 DEF CallStates
  <2> QED BY <1>4, <2>3, <2>4 DEF QueueTypeOK, LowerPriority
<1>5. ASSUME NEW t \in Threads, PopItem(t) PROVE QueueTypeOK'
  <2>1. PICK q \in Queues, l \in Levels :
          call[t] = Scanning(q, l) /\ call[t].queue = q /\ call[t].level = l
    BY <1>5, ScanState DEF PopItem, FoundItem
  <2>2. Tail(queues[q][l]) \in Seq(Jobs)
    BY <1>5, <2>1 DEF PopItem, FoundItem, Scanned, QueueTypeOK
  <2>3. queues' \in [Queues -> [Levels -> Seq(Jobs)]]
    BY <1>5, <2>1, <2>2 DEF QueueTypeOK, PopItem
  <2>4. call' \in [Threads -> CallStates]
    BY <1>5, OutsideState DEF QueueTypeOK, PopItem
  <2> QED BY <1>5, <2>3, <2>4 DEF QueueTypeOK, PopItem
<1>6. CASE UNCHANGED queueVars
  BY <1>6 DEF QueueTypeOK, queueVars
<1> QED BY <1>1, <1>2, <1>3, <1>4, <1>5, <1>6 DEF QueueNext

-----------------------------------------------------------------------------
(* One lemma per action: what it does to the three sets.                   *)

LEMMA PushStep ==
  ASSUME QueueInv, NEW t \in Threads, NEW r \in Queues, NEW j \in Jobs, NEW m \in Levels,
         PushItem(t, r, j, m), NEW q \in Queues
  PROVE  IsFiniteSet(Positions(q, Top))' /\ Balance(q)' /\ \A l \in Levels : Enough(q, l)'
<1> DEFINE new == <<m, Len(queues[r][m]) + 1>>
<1>1. QueueTypeOK /\ IsFiniteSet(Positions(q, Top)) /\ Balance(q) /\ \A l \in Levels : Enough(q, l)
  BY DEF QueueInv
<1>2. \A l : Scanners(q, l)' = Scanners(q, l)
  BY <1>1, DifferentCalls DEF PushItem, Scanners, QueueTypeOK
<1>3. CASE q # r
  <2>1. \A l : Positions(q, l)' = Positions(q, l)
    BY <1>1, <1>3 DEF PushItem, Positions, QueueTypeOK
  <2>2. Counters(q)' = Counters(q)
    <3>1. Counting(q) # Counting(r)
      <4>1. Counting(q).queue # Counting(r).queue
        BY <1>3 DEF Counting
      <4> QED BY <4>1
    <3> QED BY <1>1, <3>1, DifferentCalls DEF PushItem, Counters, QueueTypeOK
  <2> QED BY <1>1, <1>2, <2>1, <2>2 DEF Balance, Enough, PushItem
<1>4. CASE q = r
  <2>1. \A l \in Levels : Positions(q, l)' = IF m <= l THEN Positions(q, l) \cup {new} ELSE Positions(q, l)
    <3>1. queues[q][m] \in Seq(Jobs) /\ queues[q][m]' = Append(queues[q][m], j)
      BY <1>1, <1>4 DEF PushItem, QueueTypeOK
    <3>2. \A k \in Levels : Len(queues[q][k])' = IF k = m THEN Len(queues[q][k]) + 1 ELSE Len(queues[q][k])
      BY <1>1, <1>4, <3>1 DEF PushItem, QueueTypeOK
    <3>3. \A k \in Levels : Len(queues[q][k]) \in Nat
      BY <1>1 DEF QueueTypeOK
    <3>4. ASSUME NEW l \in Levels, NEW p
          PROVE  p \in Positions(q, l)' <=> p \in Positions(q, l) \/ (m <= l /\ p = new)
      <4>1. CASE p \in Levels \X (Nat \ {0})
        <5>1. p = <<p[1], p[2]>> /\ p[1] \in Levels /\ p[2] \in Nat \ {0}
          BY <4>1
        <5>2. p = new <=> p[1] = m /\ p[2] = Len(queues[q][m]) + 1
          BY <1>4, <5>1
        <5>3. p[1] \in Nat /\ m \in Nat /\ l \in Nat
          BY <5>1, TopLevel
        <5>4. /\ Len(queues[q][p[1]]) \in Nat
              /\ Len(queues[q][p[1]])' = IF p[1] = m THEN Len(queues[q][p[1]]) + 1
                                         ELSE Len(queues[q][p[1]])
          BY <3>2, <3>3, <5>1
        <5>5. p \in Positions(q, l) <=> p[1] <= l /\ p[2] <= Len(queues[q][p[1]])
          BY <5>1 DEF Positions
        <5>6. p \in Positions(q, l)' <=> p[1] <= l /\ p[2] <= Len(queues[q][p[1]])'
          BY <5>1 DEF Positions
        <5> QED BY <5>1, <5>2, <5>3, <5>4, <5>5, <5>6
      <4>2. CASE p \notin Levels \X (Nat \ {0})
        <5>1. p # new
          BY <3>3, <4>2, <1>4
        <5> QED BY <4>2, <5>1 DEF Positions
      <4> QED BY <4>1, <4>2
    <3> QED BY <3>4
  <2>2. new \notin Positions(q, Top)
    BY <1>1, <1>4 DEF Positions, QueueTypeOK
  <2>3. \A l \in Levels : new \notin Positions(q, l)
    BY <2>2, TopLevel DEF Positions
  <2>4. /\ IsFiniteSet(Positions(q, Top))'
        /\ Cardinality(Positions(q, Top))' = Cardinality(Positions(q, Top)) + 1
    <3>1. Positions(q, Top)' = Positions(q, Top) \cup {new}
      BY <2>1, TopLevel
    <3> QED BY <1>1, <2>2, <3>1, FS_AddElement
  <2>5. ASSUME NEW l \in Levels
        PROVE  Cardinality(Positions(q, l))' >= Cardinality(Positions(q, l))
    <3>1. IsFiniteSet(Positions(q, l)) /\ Cardinality(Positions(q, l)) \in Nat
      BY <1>1, FinitePositions
    <3>2. Cardinality(Positions(q, l) \cup {new}) = Cardinality(Positions(q, l)) + 1
      BY <2>3, <3>1, FS_AddElement
    <3>3. CASE m <= l
      <4>1. Positions(q, l)' = Positions(q, l) \cup {new}
        BY <2>1, <3>3
      <4>2. Cardinality(Positions(q, l))' = Cardinality(Positions(q, l)) + 1
        BY <4>1, <3>2
      <4> QED BY <3>1, <4>2
    <3>4. CASE ~ (m <= l)
      <4>1. Positions(q, l)' = Positions(q, l)
        BY <2>1, <3>4
      <4> QED BY <3>1, <4>1
    <3> QED BY <3>3, <3>4
  <2>6. t \notin Counters(q) /\ Counters(q)' = Counters(q) \cup {t}
    BY <1>1, <1>4, DifferentCalls DEF PushItem, Counters, QueueTypeOK
  <2>7. Cardinality(Counters(q))' = Cardinality(Counters(q)) + 1
    BY <2>6, FiniteThreads, FS_AddElement
  <2>8. Balance(q)'
    BY <1>1, <1>2, <2>4, <2>7, FiniteThreads, FinitePositions, TopLevel
       DEF Balance, PushItem, QueueTypeOK
  <2>9. ASSUME NEW l \in Levels PROVE Enough(q, l)'
    <3>1. Cardinality(Positions(q, l))' \in Nat
      BY <2>1, <1>1, FinitePositions, FS_AddElement, FS_CardinalityType
    <3> QED BY <1>1, <1>2, <2>5, <3>1, FiniteThreads, FinitePositions DEF Enough
  <2> QED BY <2>4, <2>8, <2>9
<1> QED BY <1>3, <1>4

LEMMA CountStep ==
  ASSUME QueueInv, NEW t \in Threads, CountItem(t), NEW q \in Queues
  PROVE  IsFiniteSet(Positions(q, Top))' /\ Balance(q)' /\ \A l \in Levels : Enough(q, l)'
<1>1. QueueTypeOK /\ IsFiniteSet(Positions(q, Top)) /\ Balance(q) /\ \A l \in Levels : Enough(q, l)
  BY DEF QueueInv
<1>2. PICK r \in Queues : call[t] = Counting(r) /\ call[t].queue = r
  BY <1>1, CountState DEF CountItem
<1>3. \A l : Positions(q, l)' = Positions(q, l)
  BY DEF CountItem, Positions
<1>4. \A l : Scanners(q, l)' = Scanners(q, l)
  BY <1>1, <1>2, DifferentCalls DEF CountItem, Scanners, QueueTypeOK
<1>5. CASE q = r
  <2>1. t \in Counters(q) /\ Counters(q)' = Counters(q) \ {t}
    BY <1>1, <1>2, <1>5, DifferentCalls DEF CountItem, Counters, QueueTypeOK
  <2>2. Cardinality(Counters(q))' = Cardinality(Counters(q)) - 1
    BY <2>1, FiniteThreads, FS_RemoveElement
  <2>3. nItems[q]' = nItems[q] + 1 /\ nItems[q] \in Nat
    BY <1>1, <1>2, <1>5 DEF CountItem, QueueTypeOK
  <2>4. Balance(q)'
    BY <1>1, <1>3, <1>4, <2>2, <2>3, FiniteThreads DEF Balance
  <2> QED BY <1>1, <1>3, <1>4, <2>4 DEF Enough
<1>6. CASE q # r
  <2>1. Counting(q) # Counting(r)
    <3>1. Counting(q).queue # Counting(r).queue
      BY <1>6 DEF Counting
    <3> QED BY <3>1
  <2>2. Counters(q)' = Counters(q)
    BY <1>1, <1>2, <2>1, DifferentCalls DEF CountItem, Counters, QueueTypeOK
  <2>3. nItems[q]' = nItems[q]
    BY <1>1, <1>2, <1>6 DEF CountItem, QueueTypeOK
  <2> QED BY <1>1, <1>3, <1>4, <2>2, <2>3 DEF Enough, Balance
<1> QED BY <1>5, <1>6

\* The thread begins at the highest priority: the item it took from the counter
\* is one for it alone.
LEMMA StartStep ==
  ASSUME QueueInv, NEW t \in Threads, NEW r \in Queues, StartPop(t, r), NEW q \in Queues
  PROVE  IsFiniteSet(Positions(q, Top))' /\ Balance(q)' /\ \A l \in Levels : Enough(q, l)'
<1>1. QueueTypeOK /\ IsFiniteSet(Positions(q, Top)) /\ Balance(q) /\ \A l \in Levels : Enough(q, l)
  BY DEF QueueInv
<1>2. \A l : Positions(q, l)' = Positions(q, l)
  BY DEF StartPop, Positions
<1>3. Counters(q)' = Counters(q)
  BY <1>1, DifferentCalls DEF StartPop, Counters, QueueTypeOK
<1>4. ASSUME NEW l \in Levels, q # r \/ l # Top
      PROVE  Scanners(q, l)' = Scanners(q, l)
  <2>1. ASSUME NEW k \in 0 .. l PROVE Scanning(r, Top) # Scanning(q, k)
    BY <1>4, SameScan, TopLevel
  <2> QED BY <1>1, <2>1, DifferentCalls DEF StartPop, Scanners, QueueTypeOK
<1>5. CASE q # r
  <2>1. nItems[q]' = nItems[q]
    BY <1>1, <1>5 DEF StartPop, QueueTypeOK
  <2> QED BY <1>1, <1>2, <1>3, <1>4, <1>5, <2>1, TopLevel DEF Balance, Enough
<1>6. CASE q = r
  <2>1. t \notin Scanners(q, Top) /\ Scanners(q, Top)' = Scanners(q, Top) \cup {t}
    <3>1. Top \in 0 .. Top
      BY TopLevel
    <3> QED BY <1>1, <1>6, <3>1, DifferentCalls DEF StartPop, Scanners, QueueTypeOK
  <2>2. Cardinality(Scanners(q, Top))' = Cardinality(Scanners(q, Top)) + 1
    BY <2>1, FiniteThreads, FS_AddElement
  <2>3. nItems[q]' = nItems[q] - 1 /\ nItems[q] \in Nat /\ nItems[q] > 0
    BY <1>1, <1>6 DEF StartPop, QueueTypeOK
  <2>4. Balance(q)'
    BY <1>1, <1>2, <1>3, <2>2, <2>3, FiniteThreads DEF Balance
  <2>5. Enough(q, Top)'
    BY <1>1, <1>2, <2>2, <2>3, FiniteThreads, FinitePositions, TopLevel DEF Enough, Balance
  <2>6. ASSUME NEW l \in Levels, l # Top PROVE Enough(q, l)'
    BY <1>1, <1>2, <1>4, <2>6 DEF Enough
  <2> QED BY <1>1, <1>2, <2>4, <2>5, <2>6
<1> QED BY <1>5, <1>6

\* The thread goes down one priority.  There are as many items at or below the
\* lower priority as at or below the higher, which is empty, and the thread was
\* among those that the higher has enough for.
LEMMA LowerStep ==
  ASSUME QueueInv, NEW t \in Threads, LowerPriority(t), NEW q \in Queues
  PROVE  IsFiniteSet(Positions(q, Top))' /\ Balance(q)' /\ \A l \in Levels : Enough(q, l)'
<1>1. QueueTypeOK /\ IsFiniteSet(Positions(q, Top)) /\ Balance(q) /\ \A l \in Levels : Enough(q, l)
  BY DEF QueueInv
<1>2. PICK r \in Queues, m \in Levels :
        call[t] = Scanning(r, m) /\ call[t].queue = r /\ call[t].level = m
  BY <1>1, ScanState DEF LowerPriority, NoItem
<1>3. m - 1 \in Levels /\ m \in Nat /\ m <= Top /\ [call[t] EXCEPT !.level = @ - 1] = Scanning(r, m - 1)
  BY <1>2, TopLevel DEF LowerPriority, Levels, Scanning
<1>4. call' = [call EXCEPT ![t] = Scanning(r, m - 1)] /\ queues[r][m] = <<>>
  BY <1>1, <1>2, <1>3 DEF LowerPriority, QueueTypeOK, NoItem, Scanned
<1>5. \A l : Positions(q, l)' = Positions(q, l)
  BY DEF LowerPriority, Positions
<1>6. Counters(q)' = Counters(q)
  BY <1>1, <1>2, <1>4, DifferentCalls DEF Counters, QueueTypeOK
<1>7. nItems' = nItems
  BY DEF LowerPriority
<1>8. ASSUME NEW l \in Levels, q # r \/ l # m - 1
      PROVE  Scanners(q, l)' = Scanners(q, l)
  <2>1. (\E k \in 0 .. l : Scanning(r, m - 1) = Scanning(q, k))
          <=> (\E k \in 0 .. l : Scanning(r, m) = Scanning(q, k))
    <3>1. (\E k \in 0 .. l : Scanning(r, m - 1) = Scanning(q, k)) <=> q = r /\ m - 1 \in 0 .. l
      BY SameScan
    <3>2. (\E k \in 0 .. l : Scanning(r, m) = Scanning(q, k)) <=> q = r /\ m \in 0 .. l
      BY SameScan
    <3>3. l \in Nat /\ m - 1 >= 0
      BY <1>3, TopLevel DEF Levels
    <3> QED BY <1>3, <1>8, <3>1, <3>2, <3>3
  <2> QED BY <1>1, <1>2, <1>4, <2>1 DEF Scanners, QueueTypeOK
<1>9. Balance(q)'
  BY <1>1, <1>3, <1>5, <1>6, <1>7, <1>8, TopLevel DEF Balance
<1>10. CASE q # r
  BY <1>1, <1>5, <1>8, <1>9, <1>10 DEF Enough
<1>11. CASE q = r
  <2>1. Enough(q, m - 1)'
    <3>1. Positions(q, m - 1) = Positions(q, m)
      <4>1. \A p \in Positions(q, m) : p[1] # m
        BY <1>4, <1>11 DEF Positions
      <4>2. \A p \in Levels \X (Nat \ {0}) : p[1] \in Nat
        BY TopLevel
      <4> QED BY <1>3, <4>1, <4>2 DEF Positions
    <3>2. Scanners(q, m - 1)' \subseteq Scanners(q, m)
      <4>1. m \in 0 .. m /\ \A k \in 0 .. (m - 1) : k \in 0 .. m
        BY <1>3
      <4> QED BY <1>1, <1>2, <1>4, <1>11, <4>1 DEF Scanners, QueueTypeOK
    <3>3. Cardinality(Scanners(q, m - 1)') <= Cardinality(Scanners(q, m))
          /\ Cardinality(Scanners(q, m - 1)') \in Nat
      BY <3>2, FiniteThreads, FS_Subset, FS_CardinalityType
    <3>4. Cardinality(Scanners(q, m)) <= Cardinality(Positions(q, m))
      BY <1>1 DEF Enough
    <3>5. Cardinality(Positions(q, m)) \in Nat
      BY <1>1, FinitePositions
    <3> QED BY <1>5, <3>1, <3>3, <3>4, <3>5, FiniteThreads DEF Enough
  <2>2. ASSUME NEW l \in Levels, l # m - 1 PROVE Enough(q, l)'
    BY <1>1, <1>5, <1>8, <2>2 DEF Enough
  <2> QED BY <1>1, <1>5, <1>9, <2>1, <2>2
<1> QED BY <1>10, <1>11

\* The thread takes an item: one thread and one item less, at or below every
\* priority from this one up.
LEMMA PopStep ==
  ASSUME QueueInv, NEW t \in Threads, PopItem(t), NEW q \in Queues
  PROVE  IsFiniteSet(Positions(q, Top))' /\ Balance(q)' /\ \A l \in Levels : Enough(q, l)'
<1>1. QueueTypeOK /\ IsFiniteSet(Positions(q, Top)) /\ Balance(q) /\ \A l \in Levels : Enough(q, l)
  BY DEF QueueInv
<1>2. PICK r \in Queues, m \in Levels :
        call[t] = Scanning(r, m) /\ call[t].queue = r /\ call[t].level = m
  BY <1>1, ScanState DEF PopItem, FoundItem
<1> DEFINE last == <<m, Len(queues[r][m])>>
<1>3. Counters(q)' = Counters(q)
  BY <1>1, <1>2, DifferentCalls DEF PopItem, Counters, QueueTypeOK
<1>4. nItems' = nItems
  BY DEF PopItem
<1>5. CASE q # r
  <2>1. \A l : Positions(q, l)' = Positions(q, l)
    BY <1>1, <1>2, <1>5 DEF PopItem, Positions, QueueTypeOK
  <2>2. ASSUME NEW l PROVE Scanners(q, l)' = Scanners(q, l)
    <3>1. \A k : Scanning(r, m) # Scanning(q, k)
      BY <1>5, SameScan
    <3> QED BY <1>1, <1>2, <3>1, DifferentCalls DEF PopItem, Scanners, QueueTypeOK
  <2> QED BY <1>1, <1>3, <1>4, <2>1, <2>2 DEF Balance, Enough
<1>6. CASE q = r
  <2>1. /\ queues[q][m] \in Seq(Jobs) /\ queues[q][m] # <<>>
        /\ queues[q][m]' = Tail(queues[q][m])
    BY <1>1, <1>2, <1>6 DEF PopItem, FoundItem, Scanned, QueueTypeOK
  <2>2. \A k \in Levels : Len(queues[q][k])' = IF k = m THEN Len(queues[q][k]) - 1 ELSE Len(queues[q][k])
    BY <1>1, <1>2, <1>6, <2>1 DEF PopItem, QueueTypeOK
  <2>3. \A k \in Levels : Len(queues[q][k]) \in Nat
    BY <1>1 DEF QueueTypeOK
  <2>4. Len(queues[q][m]) \in Nat \ {0}
    BY <2>1
  <2>5. ASSUME NEW l \in Levels, m <= l
        PROVE  /\ last \in Positions(q, l) /\ Positions(q, l)' = Positions(q, l) \ {last}
               /\ t \in Scanners(q, l) /\ Scanners(q, l)' = Scanners(q, l) \ {t}
    <3>1. last \in Positions(q, l)
      BY <1>6, <2>4, <2>5 DEF Positions
    <3>2. ASSUME NEW p PROVE p \in Positions(q, l)' <=> p \in Positions(q, l) /\ p # last
      <4>1. CASE p \in Levels \X (Nat \ {0})
        <5>1. p = <<p[1], p[2]>> /\ p[1] \in Levels /\ p[2] \in Nat \ {0}
          BY <4>1
        <5>2. p = last <=> p[1] = m /\ p[2] = Len(queues[q][m])
          BY <1>6, <5>1
        <5>3. p[1] \in Nat /\ m \in Nat /\ l \in Nat
          BY <5>1, TopLevel
        <5>4. /\ Len(queues[q][p[1]]) \in Nat
              /\ Len(queues[q][p[1]])' = IF p[1] = m THEN Len(queues[q][p[1]]) - 1
                                         ELSE Len(queues[q][p[1]])
          BY <2>2, <2>3, <5>1
        <5>5. p \in Positions(q, l) <=> p[1] <= l /\ p[2] <= Len(queues[q][p[1]])
          BY <5>1 DEF Positions
        <5>6. p \in Positions(q, l)' <=> p[1] <= l /\ p[2] <= Len(queues[q][p[1]])'
          BY <5>1 DEF Positions
        <5> QED BY <2>5, <5>1, <5>2, <5>3, <5>4, <5>5, <5>6
      <4>2. CASE p \notin Levels \X (Nat \ {0})
        BY <4>2 DEF Positions
      <4> QED BY <4>1, <4>2
    <3>3. m \in 0 .. l
      BY <2>5, TopLevel
    <3>4. t \in Scanners(q, l) /\ Scanners(q, l)' = Scanners(q, l) \ {t}
      BY <1>1, <1>2, <1>6, <3>3, DifferentCalls DEF PopItem, Scanners, QueueTypeOK
    <3> QED BY <3>1, <3>2, <3>4
  <2>6. ASSUME NEW l \in Levels, ~ (m <= l)
        PROVE  Positions(q, l)' = Positions(q, l) /\ Scanners(q, l)' = Scanners(q, l)
    <3>1. ASSUME NEW k \in Levels, k <= l PROVE Len(queues[q][k])' = Len(queues[q][k])
      BY <2>2, <2>6, <3>1
    <3>2. Positions(q, l)' = Positions(q, l)
      BY <3>1 DEF Positions
    <3>3. \A k \in 0 .. l : Scanning(r, m) # Scanning(q, k)
      BY <2>6, SameScan, TopLevel
    <3>4. Scanners(q, l)' = Scanners(q, l)
      BY <1>1, <1>2, <3>3, DifferentCalls DEF PopItem, Scanners, QueueTypeOK
    <3> QED BY <3>2, <3>4
  <2>7. ASSUME NEW l \in Levels, m <= l
        PROVE  /\ IsFiniteSet(Positions(q, l))'
               /\ Cardinality(Positions(q, l))' = Cardinality(Positions(q, l)) - 1
               /\ Cardinality(Scanners(q, l))' = Cardinality(Scanners(q, l)) - 1
    <3>1. IsFiniteSet(Positions(q, l)) /\ IsFiniteSet(Scanners(q, l))
      BY <1>1, FinitePositions, FiniteThreads
    <3>2. /\ last \in Positions(q, l) /\ Positions(q, l)' = Positions(q, l) \ {last}
          /\ t \in Scanners(q, l) /\ Scanners(q, l)' = Scanners(q, l) \ {t}
      BY <2>5, <2>7
    <3>3. /\ IsFiniteSet(Positions(q, l) \ {last})
          /\ Cardinality(Positions(q, l) \ {last}) = Cardinality(Positions(q, l)) - 1
      BY <3>1, <3>2, FS_RemoveElement
    <3>4. Cardinality(Scanners(q, l) \ {t}) = Cardinality(Scanners(q, l)) - 1
      BY <3>1, <3>2, FS_RemoveElement
    <3> HIDE DEF last
    <3> QED BY <3>2, <3>3, <3>4
  <2>8. m <= Top
    BY TopLevel
  <2>9. nItems[q] \in Nat
    BY <1>1 DEF QueueTypeOK
  <2>10. Balance(q)'
    BY <1>1, <1>3, <1>4, <2>7, <2>8, <2>9, TopLevel, FinitePositions, FiniteThreads DEF Balance
  <2>11. ASSUME NEW l \in Levels PROVE Enough(q, l)'
    <3>1. CASE m <= l
      BY <1>1, <2>7, <3>1, FinitePositions, FiniteThreads DEF Enough
    <3>2. CASE ~ (m <= l)
      BY <1>1, <2>6, <3>2 DEF Enough
    <3> QED BY <3>1, <3>2
  <2> QED BY <2>7, <2>8, <2>10, <2>11, TopLevel
<1> QED BY <1>5, <1>6

-----------------------------------------------------------------------------
LEMMA InvStep == QueueInv /\ [QueueNext]_queueVars => QueueInv'
<1> SUFFICES ASSUME QueueInv, [QueueNext]_queueVars PROVE QueueInv'
  OBVIOUS
<1>1. QueueTypeOK'
  BY TypeStep DEF QueueInv
<1>2. ASSUME NEW q \in Queues
      PROVE  IsFiniteSet(Positions(q, Top))' /\ Balance(q)' /\ \A l \in Levels : Enough(q, l)'
  <2>1. CASE UNCHANGED queueVars
    <3>1. \A l : Positions(q, l)' = Positions(q, l) /\ Scanners(q, l)' = Scanners(q, l)
      BY <2>1 DEF queueVars, Positions, Scanners
    <3>2. Counters(q)' = Counters(q) /\ nItems' = nItems
      BY <2>1 DEF queueVars, Counters
    <3> QED BY <3>1, <3>2 DEF QueueInv, Balance, Enough
  <2>2. CASE QueueNext
    BY <2>2, PushStep, CountStep, StartStep, LowerStep, PopStep DEF QueueNext
  <2> QED BY <2>1, <2>2
<1> QED BY <1>1, <1>2 DEF QueueInv

\* A thread at the lowest priority has an item there.
LEMMA InvFindsItem == QueueInv => PopFindsItem
<1> SUFFICES ASSUME QueueInv, NEW t \in Threads, NoItem(t), ~ (call[t].level > 0) PROVE FALSE
  BY DEF PopFindsItem
<1>1. PICK q \in Queues, l \in Levels :
        call[t] = Scanning(q, l) /\ call[t].queue = q /\ call[t].level = l
  BY ScanState DEF QueueInv, NoItem
<1>2. l = 0
  BY <1>1, TopLevel
<1>3. t \in Scanners(q, 0)
  BY <1>1, <1>2 DEF Scanners
<1>4. Positions(q, 0) = {}
  <2>1. Len(queues[q][0]) = 0
    BY <1>1, <1>2 DEF NoItem, Scanned
  <2>2. ASSUME NEW p \in Positions(q, 0) PROVE FALSE
    <3>1. p[1] \in Levels /\ p[1] <= 0 /\ p[2] \in Nat \ {0} /\ p[2] <= Len(queues[q][p[1]])
      BY <2>2 DEF Positions
    <3>2. p[1] = 0
      BY <3>1 DEF Levels
    <3> QED BY <2>1, <3>1, <3>2
  <2> QED BY <2>2
<1>5. Cardinality(Scanners(q, 0)) <= 0
  BY <1>1, <1>2, <1>4, FS_EmptySet DEF QueueInv, Enough
<1> QED BY <1>3, <1>5, FiniteThreads, FS_EmptySet

\* The AssertMsg in Pop, "Expected at least one queue item", is never reached,
\* whatever threads push and pop at the same time.
THEOREM PopFindsItemCorrect == QueueSpec => []PopFindsItem
<1>1. QueueSpec => []QueueInv
  BY InitInv, InvStep, PTL DEF QueueSpec
<1> QED BY <1>1, InvFindsItem, PTL

-----------------------------------------------------------------------------
(* The pool.                                                                *)

\* The local variables of the master's call.
Locals == [to : Levels, accepted : SUBSET Jobs, called : SUBSET Workers, back : Seq(Jobs),
           waited : Jobs \cup {None}]

Statuses == {"unserviced", "pending", "in progress", "ok", "aborted"}

JobTypes ==
  /\ status \in [Jobs -> Statuses] /\ priority \in [Jobs -> Levels]
  /\ owner \in [Jobs -> Threads \cup {None}] /\ complete \in [Jobs -> BOOLEAN]
  /\ runs \in [Jobs -> Nat] /\ cleanups \in [Jobs -> Nat]
  /\ pc \in [Threads -> Places] /\ after \in [Threads -> Returns]
  /\ job \in [Threads -> Jobs \cup {None}]

\* What is true of a thread, and what is true of a job.
ThreadOK(t) ==
  /\ pc[t] \in Serving => job[t] \in Jobs
  /\ pc[t] \in Holding => owner[job[t]] = t
  /\ pc[t] = "running" => status[job[t]] = "in progress"
  /\ pc[t] = "clean up" => IsFinished(job[t]) /\ ~complete[job[t]]

JobOK(j) ==
  /\ runs[j] = (IF status[j] \in {"in progress", "ok"} THEN 1 ELSE 0)
  /\ cleanups[j] = (IF complete[j] THEN 1 ELSE 0)
  /\ complete[j] => IsFinished(j)
  /\ status[j] = "in progress" =>
       owner[j] \in Threads /\ job[owner[j]] = j /\ pc[owner[j]] = "running"

JobInv ==
  /\ JobTypes
  /\ local \in Locals
  /\ \A t \in Threads : ThreadOK(t)
  /\ \A j \in Jobs : JobOK(j)

-----------------------------------------------------------------------------
LEMMA Actors ==
  /\ Master \in Threads /\ Master \notin Workers
  /\ Workers \subseteq Threads /\ Clients \subseteq Threads
  /\ Shared \in Queues /\ Workers \subseteq Queues /\ First \in Queues
  /\ \A j \in Jobs : QueueOf(j) \in Queues
BY PoolAssumption DEF Clients, QueueOf

LEMMA NoneIsNoThread == None \notin Threads /\ None \notin Jobs
BY PoolAssumption

\* A thread that neither holds nor takes a mutex moves; jobs do not change.
LEMMA Frame ==
  ASSUME JobInv, NEW t \in Threads, NEW l \in Places, NEW x \in Jobs \cup {None},
         UNCHANGED <<status, owner, complete, runs, cleanups>>,
         priority' \in [Jobs -> Levels], after' \in [Threads -> Returns],
         local' \in Locals,
         pc' = [pc EXCEPT ![t] = l], job' = [job EXCEPT ![t] = x],
         pc[t] \notin Holding, l \notin Holding, l \in Serving => x \in Jobs
  PROVE  JobInv'
<1>1. JobTypes'
  BY DEF JobInv, JobTypes
<1>2. ASSUME NEW u \in Threads PROVE ThreadOK(u)'
  <2>1. ThreadOK(u)
    BY DEF JobInv
  <2>2. CASE u = t
    <3>1. pc'[u] = l /\ job'[u] = x
      BY <2>2 DEF JobInv, JobTypes
    <3> QED BY <3>1 DEF ThreadOK, Holding
  <2>3. CASE u # t
    <3>1. pc'[u] = pc[u] /\ job'[u] = job[u]
      BY <2>3 DEF JobInv, JobTypes
    <3> QED BY <2>1, <3>1 DEF ThreadOK, IsFinished
  <2> QED BY <2>2, <2>3
<1>3. ASSUME NEW j \in Jobs PROVE JobOK(j)'
  <2>1. JobOK(j)
    BY DEF JobInv
  <2>2. ASSUME status[j] = "in progress"
        PROVE  owner[j] \in Threads /\ job'[owner[j]] = j /\ pc'[owner[j]] = "running"
    <3>1. owner[j] # t
      BY <2>1, <2>2 DEF JobOK, Holding
    <3> QED BY <2>1, <2>2, <3>1 DEF JobOK, JobInv, JobTypes
  <2> QED BY <2>1, <2>2 DEF JobOK, IsFinished
<1> QED BY <1>1, <1>2, <1>3 DEF JobInv

\* The same when the job of the thread stays.
LEMMA FrameSameJob ==
  ASSUME JobInv, NEW t \in Threads, NEW l \in Places,
         UNCHANGED <<status, owner, complete, runs, cleanups, job>>,
         priority' \in [Jobs -> Levels], after' \in [Threads -> Returns],
         local' \in Locals,
         pc' = [pc EXCEPT ![t] = l],
         pc[t] \notin Holding, l \notin Holding, l \in Serving => job[t] \in Jobs
  PROVE  JobInv'
<1>1. job[t] \in Jobs \cup {None} /\ job' = [job EXCEPT ![t] = job[t]]
  BY DEF JobInv, JobTypes
<1> QED BY <1>1, Frame

\* The thread returns to where its call came from.
LEMMA ReturnPlaces ==
  ASSUME JobInv, NEW t \in Threads
  PROVE  after[t] \in Places /\ after[t] \notin Serving /\ after[t] \notin Holding
<1>1. after[t] \in Returns
  BY DEF JobInv, JobTypes
<1> QED BY <1>1 DEF Places, Returns, Serving, Holding

\* What the two lemmas above need of a step that leaves priorities, places of
\* return and local variables alone.
LEMMA Unchanged ==
  ASSUME JobInv, UNCHANGED <<priority, after, local>>
  PROVE  priority' \in [Jobs -> Levels] /\ after' \in [Threads -> Returns] /\ local' \in Locals
BY DEF JobInv, JobTypes

LEMMA CheckStep ==
  ASSUME JobInv, NEW t \in Threads, Check(t) PROVE JobInv'
<1> DEFINE l == IF IsFinished(job[t]) THEN after[t] ELSE "trylock"
<1>1. /\ pc' = [pc EXCEPT ![t] = l] /\ pc[t] = "check" /\ UNCHANGED <<jobVars, after, job, local>>
  BY DEF Check, Goto, At, callVars
<1>2. job[t] \in Jobs
  BY <1>1 DEF JobInv, ThreadOK, Serving
<1>3. l \in Places /\ l \notin Holding /\ pc[t] \notin Holding
  BY <1>1, ReturnPlaces DEF Places, Serving, Holding
<1> QED BY <1>1, <1>2, <1>3, FrameSameJob, Unchanged DEF jobVars

LEMMA CallStep ==
  ASSUME JobInv, NEW t \in Threads, Call(t) PROVE JobInv'
<1> DEFINE l == CASE IsFinished(job[t])     -> after[t]
                  [] At(t, "call execute")  -> "lock execute"
                  [] At(t, "call abort")    -> "lock abort"
<1>1. /\ pc' = [pc EXCEPT ![t] = l] /\ pc[t] \in {"call execute", "call abort"}
      /\ UNCHANGED <<jobVars, after, job, local>>
  BY DEF Call, Goto, At, callVars
<1>2. job[t] \in Jobs
  BY <1>1 DEF JobInv, ThreadOK, Serving
<1>3. l \in {after[t], "lock execute", "lock abort"}
  BY <1>1 DEF At
<1>4. l \in Places /\ l \notin Holding /\ pc[t] \notin Holding
  BY <1>1, <1>3, ReturnPlaces DEF Places, Serving, Holding
<1> QED BY <1>1, <1>2, <1>4, FrameSameJob, Unchanged DEF jobVars

\* A thread that holds the mutex of its job, or takes or releases it, changes
\* that job only: the other threads are in the middle of other jobs.
LEMMA OwnJob ==
  ASSUME JobInv, NEW t \in Threads, NEW l \in Places, job[t] \in Jobs,
         owner[job[t]] \in {None, t},
         UNCHANGED <<job, priority, after, local>>, JobTypes', pc' = [pc EXCEPT ![t] = l],
         \A k \in Jobs \ {job[t]} :
           /\ status'[k] = status[k] /\ owner'[k] = owner[k] /\ complete'[k] = complete[k]
           /\ runs'[k] = runs[k] /\ cleanups'[k] = cleanups[k],
         ThreadOK(t)', JobOK(job[t])'
  PROVE  JobInv'
<1>1. ASSUME NEW u \in Threads, u # t PROVE ThreadOK(u)'
  <2>1. ThreadOK(u)
    BY DEF JobInv
  <2>2. pc'[u] = pc[u] /\ job'[u] = job[u]
    BY <1>1 DEF JobInv, JobTypes
  <2>3. CASE pc[u] \notin Holding
    BY <2>1, <2>2, <2>3 DEF ThreadOK, Holding
  <2>4. CASE pc[u] \in Holding
    <3>1. job[u] \in Jobs /\ owner[job[u]] = u
      BY <2>1, <2>4 DEF ThreadOK, Serving
    <3>2. job[u] # job[t]
      BY <1>1, <3>1, NoneIsNoThread
    <3> QED BY <2>1, <2>2, <3>1, <3>2 DEF ThreadOK, IsFinished
  <2> QED BY <2>3, <2>4
<1>2. ASSUME NEW k \in Jobs, k # job[t] PROVE JobOK(k)'
  <2>1. JobOK(k)
    BY DEF JobInv
  <2>2. ASSUME status[k] = "in progress"
        PROVE  owner[k] \in Threads /\ job[owner[k]] = k /\ pc'[owner[k]] = "running"
    <3>1. owner[k] \in Threads /\ job[owner[k]] = k /\ pc[owner[k]] = "running"
      BY <2>1, <2>2 DEF JobOK
    <3>2. owner[k] # t
      BY <1>2, <3>1
    <3> QED BY <3>1, <3>2 DEF JobInv, JobTypes
  <2> QED BY <1>2, <2>1, <2>2 DEF JobOK, IsFinished
<1>3. local' \in Locals
  BY DEF JobInv
<1> QED BY <1>1, <1>2, <1>3 DEF JobInv

\* A thread that is about to take a free mutex.
LEMMA TakeMutex ==
  ASSUME JobInv, NEW t \in Threads, NEW l \in {"execute", "abort"}, job[t] \in Jobs,
         pc[t] \notin Holding, owner[job[t]] = None,
         owner' = [owner EXCEPT ![job[t]] = t], pc' = [pc EXCEPT ![t] = l],
         UNCHANGED <<status, priority, complete, runs, cleanups, after, job, local>>
  PROVE  JobInv'
<1>1. l \in Places
  BY DEF Places, Serving, Holding
<1>2. JobTypes'
  BY <1>1 DEF JobInv, JobTypes
<1>3. pc'[t] = l /\ owner'[job[t]] = t
  BY DEF JobInv, JobTypes
<1>4. ThreadOK(t)'
  BY <1>3 DEF ThreadOK, Holding
<1>5. JobOK(job[t])'
  <2>1. JobOK(job[t])
    BY DEF JobInv
  <2>2. status[job[t]] # "in progress"
    BY <2>1, NoneIsNoThread DEF JobOK
  <2> QED BY <2>1, <2>2 DEF JobOK, IsFinished
<1> QED BY <1>1, <1>2, <1>4, <1>5, OwnJob DEF JobInv, JobTypes

LEMMA TryLockStep ==
  ASSUME JobInv, NEW t \in Threads, TryLock(t) PROVE JobInv'
<1>1. /\ pc[t] = "trylock"
      /\ UNCHANGED <<status, priority, complete, runs, cleanups, after, job, local>>
  BY DEF TryLock, At, callVars
<1>2. job[t] \in Jobs /\ pc[t] \notin Holding
  BY <1>1 DEF JobInv, ThreadOK, Serving, Holding
<1>3. CASE owner[job[t]] = None
  <2>1. owner' = [owner EXCEPT ![job[t]] = t] /\ pc' = [pc EXCEPT ![t] = "execute"]
    BY <1>3 DEF TryLock, Goto
  <2> QED BY <1>1, <1>2, <1>3, <2>1, TakeMutex
<1>4. CASE owner[job[t]] # None
  <2>1. UNCHANGED owner /\ pc' = [pc EXCEPT ![t] = after[t]]
    BY <1>4 DEF TryLock, Goto
  <2> QED BY <1>1, <1>2, <2>1, FrameSameJob, ReturnPlaces, Unchanged
<1> QED BY <1>3, <1>4

LEMMA LockStep ==
  ASSUME JobInv, NEW t \in Threads, Lock(t) PROVE JobInv'
<1> DEFINE l == IF At(t, "lock execute") THEN "execute" ELSE "abort"
<1>1. /\ pc[t] \in {"lock execute", "lock abort"} /\ owner[job[t]] = None
      /\ owner' = [owner EXCEPT ![job[t]] = t] /\ pc' = [pc EXCEPT ![t] = l]
      /\ UNCHANGED <<status, priority, complete, runs, cleanups, after, job, local>>
  BY DEF Lock, At, Goto, callVars
<1>2. job[t] \in Jobs /\ pc[t] \notin Holding
  BY <1>1 DEF JobInv, ThreadOK, Serving, Holding
<1> QED BY <1>1, <1>2, TakeMutex

\* A thread that holds the mutex of its job.
LEMMA Holder ==
  ASSUME JobInv, NEW t \in Threads, pc[t] \in Holding
  PROVE  /\ job[t] \in Jobs /\ owner[job[t]] = t
         /\ JobOK(job[t]) /\ ThreadOK(t)
         /\ pc[t] # "running" => status[job[t]] # "in progress"
<1>1. job[t] \in Jobs /\ owner[job[t]] = t /\ ThreadOK(t)
  BY DEF JobInv, ThreadOK, Serving
<1>2. JobOK(job[t])
  BY <1>1 DEF JobInv
<1> QED BY <1>1, <1>2 DEF JobOK

LEMMA UnlockStep ==
  ASSUME JobInv, NEW t \in Threads, Unlock(t) PROVE JobInv'
<1>1. /\ pc[t] \in {"execute", "abort"}
      /\ owner' = [owner EXCEPT ![job[t]] = None] /\ pc' = [pc EXCEPT ![t] = after[t]]
      /\ UNCHANGED <<status, priority, complete, runs, cleanups, after, job, local>>
  BY DEF Unlock, At, Goto, callVars
<1>2. pc[t] \in Holding /\ pc[t] # "running"
  BY <1>1 DEF Holding
<1>3. JobTypes'
  BY <1>1, ReturnPlaces DEF JobInv, JobTypes
<1>4. pc'[t] = after[t]
  BY <1>1 DEF JobInv, JobTypes
<1>5. ThreadOK(t)'
  BY <1>1, <1>4, ReturnPlaces DEF ThreadOK, Holding
<1>6. JobOK(job[t])'
  BY <1>1, <1>2, Holder DEF JobOK, IsFinished
<1> QED BY <1>1, <1>2, <1>3, <1>5, <1>6, Holder, ReturnPlaces, OwnJob DEF JobInv, JobTypes

LEMMA ExecuteStep ==
  ASSUME JobInv, NEW t \in Threads, Execute(t) PROVE JobInv'
<1>1. /\ pc[t] = "execute" /\ CanExecute(job[t])
      /\ status' = [status EXCEPT ![job[t]] = "in progress"]
      /\ runs' = [runs EXCEPT ![job[t]] = @ + 1]
      /\ pc' = [pc EXCEPT ![t] = "running"]
      /\ UNCHANGED <<priority, owner, complete, cleanups, after, job, local>>
  BY DEF Execute, At, Goto, callVars
<1>2. pc[t] \in Holding /\ "running" \in Places
  BY <1>1 DEF Holding, Serving, Places
<1>3. JobTypes'
  <2>1. job[t] \in Jobs /\ runs \in [Jobs -> Nat]
    BY <1>2, Holder DEF JobInv, JobTypes
  <2>2. runs' = [runs EXCEPT ![job[t]] = @ + 1]
    BY <1>1
  <2>3. runs' \in [Jobs -> Nat]
    BY <2>1, <2>2
  <2>4. status' \in [Jobs -> Statuses] /\ pc' \in [Threads -> Places]
    BY <1>1, <1>2 DEF JobInv, JobTypes, Statuses
  <2> QED BY <1>1, <2>3, <2>4 DEF JobInv, JobTypes
<1>4. pc'[t] = "running" /\ status'[job[t]] = "in progress" /\ runs'[job[t]] = runs[job[t]] + 1
  BY <1>1, <1>2, Holder DEF JobInv, JobTypes
<1>5. ThreadOK(t)'
  BY <1>1, <1>2, <1>4, Holder DEF ThreadOK
<1>6. JobOK(job[t])'
  <2>1. JobOK(job[t]) /\ owner[job[t]] = t
    BY <1>2, Holder
  <2>2. ~complete[job[t]]
    BY <1>1, <2>1 DEF JobOK, IsFinished, CanExecute
  <2>3. runs[job[t]] = 0
    BY <1>1, <2>1 DEF JobOK, CanExecute
  <2>4. runs'[job[t]] = runs[job[t]] + 1
    BY <1>4
  <2>5. runs'[job[t]] = 1
    BY <2>3, <2>4
  <2> QED BY <1>1, <1>4, <2>1, <2>2, <2>5 DEF JobOK
<1> QED BY <1>1, <1>2, <1>3, <1>5, <1>6, Holder, OwnJob DEF JobInv, JobTypes

LEMMA ReturnStep ==
  ASSUME JobInv, NEW t \in Threads, Return(t) PROVE JobInv'
<1> DEFINE s == IF At(t, "abort") THEN "aborted" ELSE "ok"
<1>1. /\ pc[t] = "running" \/ (pc[t] = "abort" /\ CanExecute(job[t]))
      /\ status' = [status EXCEPT ![job[t]] = s]
      /\ pc' = [pc EXCEPT ![t] = "clean up"]
      /\ UNCHANGED <<priority, owner, complete, runs, cleanups, after, job, local>>
  BY DEF Return, At, Goto, callVars
<1>2. pc[t] \in Holding /\ "clean up" \in Places
  BY <1>1 DEF Holding, Serving, Places
<1>3. s \in {"ok", "aborted"} /\ (s = "aborted" <=> pc[t] = "abort")
  BY DEF At
<1>4. JobTypes'
  BY <1>1, <1>2, <1>3, Holder DEF JobInv, JobTypes, Statuses
<1>5. pc'[t] = "clean up" /\ status'[job[t]] = s
  BY <1>1, <1>2, Holder DEF JobInv, JobTypes
<1>6. pc[t] = "running" => status[job[t]] = "in progress"
  BY <1>2, Holder DEF ThreadOK
<1>7. ~IsFinished(job[t]) /\ ~complete[job[t]]
  BY <1>1, <1>2, <1>6, Holder DEF JobOK, IsFinished, CanExecute
<1>8. ThreadOK(t)'
  BY <1>1, <1>2, <1>3, <1>5, <1>7, Holder DEF ThreadOK, IsFinished
<1>9. JobOK(job[t])'
  <2>1. JobOK(job[t]) /\ status'[job[t]] \in {"ok", "aborted"}
    BY <1>2, <1>3, <1>5, Holder
  <2>2. pc[t] = "abort" => CanExecute(job[t])
    BY <1>1
  <2>3. runs[job[t]] = IF status'[job[t]] = "ok" THEN 1 ELSE 0
    BY <1>1, <1>3, <1>5, <1>6, <2>1, <2>2 DEF JobOK, CanExecute
  <2>4. runs'[job[t]] = runs[job[t]] /\ ~complete'[job[t]] /\ cleanups'[job[t]] = 0
    BY <1>1, <1>7, <2>1 DEF JobOK
  <2>5. /\ runs'[job[t]] = IF status'[job[t]] \in {"in progress", "ok"} THEN 1 ELSE 0
        /\ cleanups'[job[t]] = IF complete'[job[t]] THEN 1 ELSE 0
    BY <2>1, <2>3, <2>4
  <2>6. job' = job
    BY <1>1
  <2> QED BY <2>1, <2>4, <2>5, <2>6 DEF JobOK
<1> QED BY <1>1, <1>2, <1>4, <1>8, <1>9, Holder, OwnJob DEF JobInv, JobTypes

LEMMA CleanUpStep ==
  ASSUME JobInv, NEW t \in Threads, CleanUp(t) PROVE JobInv'
<1>1. /\ pc[t] = "clean up"
      /\ cleanups' = [cleanups EXCEPT ![job[t]] = @ + 1]
      /\ complete' = [complete EXCEPT ![job[t]] = TRUE]
      /\ owner' = [owner EXCEPT ![job[t]] = None] /\ pc' = [pc EXCEPT ![t] = after[t]]
      /\ UNCHANGED <<status, priority, runs, after, job, local>>
  BY DEF CleanUp, At, Goto, callVars
<1>2. pc[t] \in Holding
  BY <1>1 DEF Holding
<1>3. JobTypes'
  <2>1. job[t] \in Jobs /\ cleanups \in [Jobs -> Nat]
    BY <1>2, Holder DEF JobInv, JobTypes
  <2>2. cleanups' = [cleanups EXCEPT ![job[t]] = @ + 1]
    BY <1>1
  <2>3. cleanups' \in [Jobs -> Nat]
    BY <2>1, <2>2
  <2>4. complete' \in [Jobs -> BOOLEAN] /\ owner' \in [Jobs -> Threads \cup {None}]
        /\ pc' \in [Threads -> Places]
    BY <1>1, ReturnPlaces DEF JobInv, JobTypes
  <2> QED BY <1>1, <2>3, <2>4 DEF JobInv, JobTypes
<1>4. /\ pc'[t] = after[t] /\ complete'[job[t]] = TRUE
      /\ cleanups'[job[t]] = cleanups[job[t]] + 1
  BY <1>1, <1>2, Holder DEF JobInv, JobTypes
<1>5. IsFinished(job[t]) /\ ~complete[job[t]]
  BY <1>1, <1>2, Holder DEF ThreadOK
<1>6. ThreadOK(t)'
  BY <1>1, <1>4, ReturnPlaces DEF ThreadOK, Holding, Serving
<1>7. JobOK(job[t])'
  <2>1. JobOK(job[t])
    BY <1>2, Holder
  <2>2. cleanups[job[t]] = 0
    BY <1>5, <2>1 DEF JobOK
  <2>3. cleanups'[job[t]] = 1
    BY <1>4, <2>2
  <2> QED BY <1>1, <1>4, <1>5, <2>1, <2>3 DEF JobOK, IsFinished
<1> QED BY <1>1, <1>2, <1>3, <1>6, <1>7, Holder, ReturnPlaces, OwnJob DEF JobInv, JobTypes

LEMMA ServeStep ==
  ASSUME JobInv, NEW t \in Threads, ServeJob(t) PROVE JobInv'
BY CheckStep, TryLockStep, CallStep, LockStep, UnlockStep, ExecuteStep, ReturnStep, CleanUpStep
   DEF ServeJob

\* The item that Pop finds is a job.
LEMMA FoundIsJob ==
  ASSUME QueueTypeOK, NEW t \in Threads, FoundItem(t)
  PROVE  Head(Scanned(t)) \in Jobs
<1>1. call[t] \in CallStates /\ call[t].op = "scan"
  BY DEF QueueTypeOK, FoundItem
<1>2. PICK q \in Queues, l \in Levels : call[t] = Scanning(q, l)
  BY <1>1 DEF CallStates, Outside, Counting
<1>3. Scanned(t) \in Seq(Jobs) /\ Scanned(t) # <<>>
  BY <1>2 DEF QueueTypeOK, Scanned, Scanning, FoundItem
<1> QED BY <1>3

LEMMA ScanStep ==
  ASSUME JobInv, QueueTypeOK, NEW t \in Threads, Scan(t) PROVE JobInv'
<1>1. pc[t] = "scan" /\ UNCHANGED <<jobVars, after, local>>
  BY DEF Scan, At, callVars
<1>2. CASE LowerPriority(t) /\ UNCHANGED <<pc, job, took>>
  <2>1. job[t] \in Jobs \cup {None} /\ pc' = [pc EXCEPT ![t] = pc[t]] /\ pc[t] \in Places
    BY <1>2 DEF JobInv, JobTypes
  <2> QED BY <1>1, <1>2, <2>1, FrameSameJob, Unchanged DEF jobVars, Holding, Serving
<1>3. CASE PopItem(t) /\ job' = [job EXCEPT ![t] = Head(Scanned(t))] /\ Goto(t, Taken(t))
  <2>1. Head(Scanned(t)) \in Jobs
    BY <1>3, FoundIsJob DEF PopItem
  <2>2. Taken(t) \in Places /\ Taken(t) \notin Holding
    BY DEF Taken, Places, Serving, Holding
  <2> QED BY <1>1, <1>3, <2>1, <2>2, Frame, Unchanged DEF jobVars, Holding, Goto
<1> QED BY <1>1, <1>2, <1>3 DEF Scan

\* A step that only moves a thread to a place where it has no job.
LEMMA Move ==
  ASSUME JobInv, NEW t \in Threads, NEW l \in Places \ Serving, Goto(t, l),
         UNCHANGED <<jobVars, after, job, local>>, pc[t] \notin Holding
  PROVE  JobInv'
BY FrameSameJob, Unchanged DEF Goto, jobVars, Serving

LEMMA WorkStep ==
  ASSUME JobInv, NEW t \in Threads, Work(t) PROVE JobInv'
<1>1. UNCHANGED <<jobVars, after, job, local>>
  BY DEF Work, Wake, PopDirect, PopShared, Served, Reply, SuspendSelf, Resumed, callVars
<1>2. pc[t] \in {"wait", "direct", "shared", "served", "reply", "replied", "suspended"}
  BY DEF Work, Wake, PopDirect, PopShared, Served, Reply, SuspendSelf, Resumed, At
<1>3. \E l \in {"reply", "direct", "scan", "shared", "wait", "replied", "suspended"} : Goto(t, l)
  BY DEF Work, Wake, PopDirect, PopShared, Served, Reply, SuspendSelf, Resumed
<1>4. PICK l \in {"reply", "direct", "scan", "shared", "wait", "replied", "suspended"} : Goto(t, l)
  BY <1>3
<1>5. l \in Places \ Serving /\ pc[t] \notin Holding
  BY <1>2 DEF Places, Serving, Holding
<1> QED BY <1>1, <1>4, <1>5, Move

-----------------------------------------------------------------------------
(* The master's steps once a call has begun.                               *)

LEMMA MasterMove ==
  ASSUME JobInv, Counted \/ YieldWait \/ Unblock \/ WorkersSuspended \/ ResumeExecution \/ Drain \/ AbortNext
  PROVE  JobInv'
<1>1. UNCHANGED <<jobVars, after, job, local>>
  BY DEF Counted, YieldWait, Unblock, WorkersSuspended, ResumeExecution, Drain, AbortNext, callVars
<1>2. pc[Master] \in {"count", "yield", "blocked", "suspending", "resume", "free", "drain", "abort all"}
  BY DEF Counted, YieldWait, Unblock, WorkersSuspended, ResumeExecution, Drain, AbortNext, At
<1>3. \E l \in {after[Master], "free", "scan", "blocked", "put back", "resume"} : Goto(Master, l)
  BY DEF Counted, YieldWait, Unblock, WorkersSuspended, ResumeExecution, Drain, AbortNext
<1>4. PICK l \in {after[Master], "free", "scan", "blocked", "put back", "resume"} : Goto(Master, l)
  BY <1>3
<1>5. l \in Places \ Serving
  <2>1. CASE l = after[Master]
    BY <2>1, ReturnPlaces, Actors
  <2>2. CASE l \in {"free", "scan", "blocked", "put back", "resume"}
    BY <2>2 DEF Places, Returns, Serving, Holding
  <2> QED BY <1>4, <2>1, <2>2
<1>6. pc[Master] \notin Holding
  BY <1>2 DEF Holding
<1> QED BY <1>1, <1>4, <1>5, <1>6, Move, Actors

LEMMA CallWorkerStep ==
  ASSUME JobInv, CallWorker PROVE JobInv'
<1>1. pc[Master] = "calling" /\ UNCHANGED <<jobVars, after, job>> /\ local \in Locals
  BY DEF CallWorker, At, JobInv
<1>2. CASE \E w \in Workers \ local.called :
             local' = [local EXCEPT !.called = @ \cup {w}] /\ UNCHANGED pc
  <2>1. local' \in Locals
    BY <1>1, <1>2 DEF Locals
  <2>2. pc' = [pc EXCEPT ![Master] = "calling"] /\ "calling" \in Places \ Serving /\ "calling" \notin Holding
    BY <1>1, <1>2 DEF JobInv, JobTypes, Places, Serving, Holding
  <2> QED BY <1>1, <2>1, <2>2, FrameSameJob, Actors DEF jobVars, JobInv, JobTypes
<1>3. CASE Goto(Master, "suspending") /\ UNCHANGED local
  BY <1>1, <1>3, Move, Actors DEF Places, Serving, Holding
<1> QED BY <1>2, <1>3 DEF CallWorker

LEMMA FilterStep ==
  ASSUME JobInv, Filter PROVE JobInv'
<1>1. pc[Master] = "filter" /\ UNCHANGED <<jobVars, after, job>>
  BY DEF Filter, At
<1>2. job[Master] \in Jobs /\ local \in Locals
  BY <1>1, Actors DEF JobInv, ThreadOK, Serving
<1>3. local' \in Locals
  BY <1>2 DEF Filter, Locals
<1>4. PICK l \in {"check", "drain"} : Goto(Master, l)
  BY DEF Filter
<1>5. l \in Places /\ l \notin Holding /\ pc[Master] \notin Holding
  BY <1>1 DEF Places, Returns, Serving, Holding
<1> QED BY <1>1, <1>2, <1>3, <1>4, <1>5, FrameSameJob, Actors DEF jobVars, JobInv, JobTypes, Goto

LEMMA PutBackStep ==
  ASSUME JobInv, PutBack PROVE JobInv'
<1>1. /\ pc[Master] = "put back" /\ UNCHANGED <<jobVars, job>>
      /\ after' = [after EXCEPT ![Master] = "put back"] /\ local \in Locals
  BY DEF PutBack, At, JobInv
<1>2. PICK l \in {"resume", "count"} : Goto(Master, l)
  BY DEF PutBack
<1>3. l \in Places \ Serving /\ pc[Master] \notin Holding /\ l \notin Holding
  BY <1>1 DEF Places, Returns, Serving, Holding
<1>4. local' \in Locals
  <2>1. CASE UNCHANGED local
    BY <1>1, <2>1
  <2>2. CASE local.back # <<>> /\ local' = [local EXCEPT !.back = Tail(@)]
    <3>1. local.back \in Seq(Jobs)
      BY <1>1 DEF Locals
    <3>2. Tail(local.back) \in Seq(Jobs)
      BY <2>2, <3>1
    <3> QED BY <1>1, <2>2, <3>2 DEF Locals
  <2> QED BY <2>1, <2>2 DEF PutBack
<1>5. after' \in [Threads -> Returns]
  BY <1>1 DEF JobInv, JobTypes, Returns
<1> QED BY <1>1, <1>2, <1>3, <1>4, <1>5, FrameSameJob, Actors DEF jobVars, JobInv, JobTypes, Goto

LEMMA StepKeeps ==
  ASSUME JobInv, QueueTypeOK, NEW t \in Threads, Step(t) PROVE JobInv'
<1>1. CASE t \in Workers /\ Work(t)
  BY <1>1, WorkStep
<1>2. CASE t = Master /\ \/ Counted \/ YieldWait \/ Unblock \/ CallWorker \/ WorkersSuspended
                         \/ Drain \/ Filter \/ PutBack \/ AbortNext \/ ResumeExecution
  BY <1>2, MasterMove, CallWorkerStep, FilterStep, PutBackStep
<1> QED BY <1>1, <1>2, ServeStep, ScanStep DEF Step

-----------------------------------------------------------------------------
(* A new call.                                                             *)

\* A client begins a call; jobs do not change, but for a priority.
LEMMA Begins ==
  ASSUME JobInv, NEW t \in Clients, NEW l \in Places, NEW ret \in Returns, NEW S, Begin(t, l, ret, S),
         NEW x \in Jobs \cup {None}, job' = [job EXCEPT ![t] = x],
         l \notin Holding, l \in Serving => x \in Jobs,
         UNCHANGED <<status, owner, complete, runs, cleanups>>,
         priority' \in [Jobs -> Levels], local' \in Locals
  PROVE  JobInv'
<1>1. /\ pc[t] = "free" /\ pc' = [pc EXCEPT ![t] = l] /\ after' = [after EXCEPT ![t] = ret]
      /\ t \in Threads
  BY Actors DEF Begin, At, Goto
<1>2. after' \in [Threads -> Returns]
  BY <1>1 DEF JobInv, JobTypes
<1>3. pc[t] \notin Holding
  BY <1>1 DEF Holding
<1> QED BY <1>1, <1>2, <1>3, Frame

\* The same when the client's job stays as it was.
LEMMA BeginsSameJob ==
  ASSUME JobInv, NEW t \in Clients, NEW l \in Places \ Serving, NEW ret \in Returns, NEW S,
         Begin(t, l, ret, S), UNCHANGED <<status, owner, complete, runs, cleanups, job>>,
         priority' \in [Jobs -> Levels], local' \in Locals
  PROVE  JobInv'
<1>1. job[t] \in Jobs \cup {None} /\ job' = [job EXCEPT ![t] = job[t]] /\ l \notin Holding
  BY Actors DEF JobInv, JobTypes, Serving
<1> QED BY <1>1, Begins

LEMMA CallPlaces ==
  /\ {"free", "yield", "drain", "abort all"} \subseteq Returns /\ Returns \subseteq Places
  /\ {"count", "calling", "free", "yield", "drain", "abort all"} \subseteq Places \ Serving
  /\ {"call execute", "call abort"} \subseteq Places \cap Serving
  /\ "call execute" \notin Holding /\ "call abort" \notin Holding
BY DEF Places, Returns, Serving, Holding

LEMMA SuspendStep ==
  ASSUME JobInv, NEW ret \in {"free", "drain", "abort all"}, NEW to \in Levels, NEW S \in SUBSET Jobs,
         NEW P, SuspendExecution(ret, to, S, P)
  PROVE  JobInv'
<1> DEFINE l == IF nSuspend = 0 THEN "calling" ELSE ret
<1>1. /\ Begin(Master, l, ret, P)
      /\ local' = [local EXCEPT !.to = to, !.accepted = S, !.called = {}]
      /\ UNCHANGED <<jobVars, job>>
  BY DEF SuspendExecution
<1>2. local' \in Locals
  <2>1. local \in Locals
    BY DEF JobInv
  <2> QED BY <1>1, <2>1 DEF Locals
<1>3. l \in Places \ Serving /\ ret \in Returns /\ Master \in Clients
  BY CallPlaces DEF Clients
<1> QED BY <1>1, <1>2, <1>3, BeginsSameJob DEF jobVars, JobInv, JobTypes

\* A job is marked as pending and queued: no thread is in the middle of it.
LEMMA Pending ==
  ASSUME JobInv, NEW j \in Jobs, status[j] = "unserviced",
         status' = [status EXCEPT ![j] = "pending"],
         UNCHANGED <<owner, complete, runs, cleanups, job, local>>,
         priority' \in [Jobs -> Levels], Begin(Master, "count", "free", {})
  PROVE  JobInv'
<1>1. /\ pc[Master] = "free" /\ pc' = [pc EXCEPT ![Master] = "count"]
      /\ after' = [after EXCEPT ![Master] = "free"]
  BY DEF Begin, At, Goto
<1>2. JobTypes'
  BY <1>1, CallPlaces DEF JobInv, JobTypes, Statuses
<1>3. status'[j] = "pending" /\ \A k \in Jobs \ {j} : status'[k] = status[k]
  BY DEF JobInv, JobTypes
<1>4. ASSUME NEW u \in Threads PROVE ThreadOK(u)'
  <2>1. ThreadOK(u)
    BY DEF JobInv
  <2>2. CASE u = Master
    <3>1. pc'[u] = "count"
      BY <1>1, <2>2 DEF JobInv, JobTypes
    <3> QED BY <3>1 DEF ThreadOK, Serving, Holding
  <2>3. CASE u # Master
    <3>1. pc'[u] = pc[u]
      BY <1>1, <2>3 DEF JobInv, JobTypes
    <3>2. CASE job[u] = j
      BY <2>1, <3>1, <3>2 DEF ThreadOK, IsFinished
    <3>3. CASE job[u] # j
      <4>1. pc[u] \in {"running", "clean up"} => job[u] \in Jobs \ {j}
        BY <2>1, <3>3 DEF ThreadOK, Serving, Holding
      <4> QED BY <1>3, <2>1, <3>1, <4>1 DEF ThreadOK, IsFinished
    <3> QED BY <3>2, <3>3
  <2> QED BY <2>2, <2>3
<1>5. ASSUME NEW k \in Jobs PROVE JobOK(k)'
  <2>1. JobOK(k)
    BY DEF JobInv
  <2>2. CASE k = j
    <3>1. ~complete[k]
      BY <2>1, <2>2 DEF JobOK, IsFinished
    <3> QED BY <1>3, <2>1, <2>2, <3>1 DEF JobOK
  <2>3. CASE k # j
    <3>1. ASSUME status[k] = "in progress" PROVE pc'[owner[k]] = "running"
      <4>1. owner[k] \in Threads /\ pc[owner[k]] = "running"
        BY <2>1, <3>1 DEF JobOK
      <4>2. owner[k] # Master
        BY <1>1, <4>1
      <4> QED BY <1>1, <4>1, <4>2 DEF JobInv, JobTypes
    <3> QED BY <1>3, <2>1, <2>3, <3>1 DEF JobOK, IsFinished
  <2> QED BY <2>2, <2>3
<1>6. local' \in Locals
  BY DEF JobInv
<1> QED BY <1>2, <1>4, <1>5, <1>6 DEF JobInv

LEMMA AddJobStep ==
  ASSUME JobInv, NEW j \in Jobs, AddJob(j) PROVE JobInv'
<1>1. status[j] = "unserviced" /\ UNCHANGED <<owner, complete, runs, cleanups, local>> /\ Master \in Clients
  BY DEF AddJob, Clients
<1>2. CASE /\ Begin(Master, "call execute", "free", {j})
           /\ job' = [job EXCEPT ![Master] = j] /\ UNCHANGED <<status, priority>>
  BY <1>1, <1>2, Begins, CallPlaces DEF JobInv, JobTypes
<1>3. CASE /\ Begin(Master, "count", "free", {})
           /\ status' = [status EXCEPT ![j] = "pending"]
           /\ priority' = [priority EXCEPT ![j] = IF j \in IO THEN @ ELSE Top]
           /\ UNCHANGED job
  <2>1. priority' \in [Jobs -> Levels]
    BY <1>3, TopLevel DEF JobInv, JobTypes
  <2> QED BY <1>1, <1>3, <2>1, Pending
<1> QED BY <1>2, <1>3 DEF AddJob

LEMMA ChangePriorityStep ==
  ASSUME JobInv, NEW j \in Jobs, NEW l \in Levels, ChangePriority(j, l) PROVE JobInv'
<1>1. priority' \in [Jobs -> Levels] /\ local' \in Locals
  BY DEF ChangePriority, JobInv, JobTypes
<1>2. Begin(Master, "count", "free", {}) /\ UNCHANGED <<status, owner, complete, runs, cleanups, job>>
  BY DEF ChangePriority
<1> QED BY <1>1, <1>2, BeginsSameJob, CallPlaces DEF Clients

LEMMA UseHandleStep ==
  ASSUME JobInv, NEW t \in Clients, NEW j \in Jobs, NEW how \in {"call execute", "call abort"},
         UseHandle(t, j, how)
  PROVE  JobInv'
<1>1. /\ Begin(t, how, "free", {j}) /\ job' = [job EXCEPT ![t] = j]
      /\ UNCHANGED <<jobVars, local>>
  BY DEF UseHandle
<1> QED BY <1>1, Begins, CallPlaces DEF jobVars, JobInv, JobTypes

LEMMA WaitStep ==
  ASSUME JobInv, NEW j \in Jobs, WaitForFinish(j) PROVE JobInv'
<1>1. /\ Begin(Master, "yield", "yield", {j}) /\ local' = [local EXCEPT !.waited = j]
      /\ UNCHANGED <<jobVars, job>>
  BY DEF WaitForFinish
<1>2. local' \in Locals
  BY <1>1 DEF JobInv, Locals
<1> QED BY <1>1, <1>2, BeginsSameJob, CallPlaces DEF jobVars, JobInv, JobTypes, Clients

LEMMA CallKeeps == ASSUME JobInv, NewCall PROVE JobInv'
<1>1. CASE \E j \in Jobs : AddJob(j) \/ WaitForFinish(j) \/ \E l \in Levels : ChangePriority(j, l)
  BY <1>1, AddJobStep, WaitStep, ChangePriorityStep
<1>2. CASE \E t \in Clients, j \in Jobs, how \in {"call execute", "call abort"} : UseHandle(t, j, how)
  BY <1>2, UseHandleStep
<1>3. CASE \E l \in Levels, S \in {Jobs, Serial} : ExecuteToPriority(l, S)
  <2>1. PICK l \in Levels, S \in {Jobs, Serial} : ExecuteToPriority(l, S)
    BY <1>3
  <2>2. S \in SUBSET Jobs
    BY PoolAssumption
  <2> QED BY <2>1, <2>2, SuspendStep DEF ExecuteToPriority
<1>4. CASE Suspend \/ AbortAll
  <2>1. 0 \in Levels /\ {} \in SUBSET Jobs
    BY TopLevel, PrioritiesAssumption DEF Levels, Top
  <2> QED BY <1>4, <2>1, SuspendStep DEF Suspend, AbortAll
<1> QED BY <1>1, <1>2, <1>3, <1>4 DEF NewCall

LEMMA JobInvStep == JobInv /\ QueueTypeOK /\ [Next]_vars => JobInv'
<1> SUFFICES ASSUME JobInv, QueueTypeOK, [Next]_vars PROVE JobInv'
  OBVIOUS
<1>1. CASE UNCHANGED vars
  <2>1. UNCHANGED <<pc, after, job, status, priority, owner, complete, runs, cleanups, local>>
    BY <1>1 DEF vars, jobVars, threadVars, callVars
  <2> QED BY <2>1 DEF JobInv, JobTypes, ThreadOK, JobOK, IsFinished
<1>2. CASE NewCall
  BY <1>2, CallKeeps
<1>3. CASE \E t \in Threads : Step(t)
  BY <1>3, StepKeeps
<1> QED BY <1>1, <1>2, <1>3 DEF Next

-----------------------------------------------------------------------------
(* Every step of the pool is a step of the queues, or leaves them alone.    *)

LEMMA QueueOfCall == JobInv /\ NewCall => [QueueNext]_queueVars
<1> SUFFICES ASSUME JobInv, NewCall PROVE [QueueNext]_queueVars
  OBVIOUS
<1>1. ASSUME NEW j \in Jobs, AddJob(j) PROVE [QueueNext]_queueVars
  <2>1. CASE UNCHANGED queueVars
    BY <2>1
  <2>2. CASE /\ priority' = [priority EXCEPT ![j] = IF j \in IO THEN @ ELSE Top]
             /\ PushItem(Master, QueueOf(j), j, priority'[j])
    <3>1. priority'[j] \in Levels
      BY <2>2, TopLevel DEF JobInv, JobTypes
    <3> QED BY <2>2, <3>1, Actors DEF QueueNext
  <2> QED BY <1>1, <2>1, <2>2 DEF AddJob
<1>2. ASSUME NEW j \in Jobs, NEW l \in Levels, ChangePriority(j, l) PROVE [QueueNext]_queueVars
  BY <1>2, Actors DEF ChangePriority, QueueNext
<1>3. CASE \E j \in Jobs : AddJob(j) \/ WaitForFinish(j) \/ \E l \in Levels : ChangePriority(j, l)
  <2>1. ASSUME NEW j \in Jobs, WaitForFinish(j) PROVE UNCHANGED queueVars
    BY <2>1 DEF WaitForFinish
  <2> QED BY <1>1, <1>2, <1>3, <2>1
<1>4. CASE \E t \in Clients, j \in Jobs, how \in {"call execute", "call abort"} : UseHandle(t, j, how)
  BY <1>4 DEF UseHandle
<1>5. CASE (\E l \in Levels, S \in {Jobs, Serial} : ExecuteToPriority(l, S)) \/ Suspend \/ AbortAll
  BY <1>5 DEF ExecuteToPriority, Suspend, AbortAll, SuspendExecution
<1> QED BY <1>3, <1>4, <1>5 DEF NewCall

LEMMA QueueOfServe == \A t \in Threads : ServeJob(t) => UNCHANGED queueVars
BY DEF ServeJob, Check, TryLock, Call, Lock, Unlock, Execute, Return, CleanUp

LEMMA QueueOfWork ==
  ASSUME NEW t \in Workers, Work(t) PROVE [QueueNext]_queueVars
<1>1. CASE PopDirect(t) \/ PopShared(t)
  BY <1>1, Actors DEF PopDirect, PopShared, QueueNext
<1>2. CASE Wake(t) \/ Served(t) \/ Reply(t) \/ SuspendSelf(t) \/ Resumed(t)
  BY <1>2 DEF Wake, Served, Reply, SuspendSelf, Resumed
<1> QED BY <1>1, <1>2 DEF Work

LEMMA QueueOfMaster ==
  ASSUME JobInv, \/ Counted \/ YieldWait \/ Unblock \/ CallWorker \/ WorkersSuspended
                 \/ Drain \/ Filter \/ PutBack \/ AbortNext \/ ResumeExecution
  PROVE  [QueueNext]_queueVars
<1>1. CASE Counted
  BY <1>1, Actors DEF Counted, QueueNext
<1>2. CASE YieldWait
  BY <1>2, Actors DEF YieldWait, QueueNext
<1>3. CASE Drain
  <2>1. NextQueues \subseteq Queues
    BY DEF NextQueues, Undrained
  <2> QED BY <1>3, <2>1, Actors DEF Drain, QueueNext
<1>4. CASE AbortNext
  BY <1>4, Actors DEF AbortNext, QueueNext
<1>5. CASE PutBack
  <2>1. CASE UNCHANGED queueVars
    BY <2>1
  <2>2. CASE /\ local.back # <<>>
             /\ LET j == Head(local.back) IN PushItem(Master, QueueOf(j), j, priority[j])
    <3>1. local.back \in Seq(Jobs)
      BY DEF JobInv, Locals
    <3>2. Head(local.back) \in Jobs
      BY <2>2, <3>1
    <3>3. priority[Head(local.back)] \in Levels
      BY <3>2 DEF JobInv, JobTypes
    <3> QED BY <2>2, <3>2, <3>3, Actors DEF QueueNext
  <2> QED BY <1>5, <2>1, <2>2 DEF PutBack
<1>6. CASE Unblock \/ CallWorker \/ WorkersSuspended \/ Filter \/ ResumeExecution
  BY <1>6 DEF Unblock, CallWorker, WorkersSuspended, Filter, ResumeExecution
<1> QED BY <1>1, <1>2, <1>3, <1>4, <1>5, <1>6

LEMMA QueueStep == JobInv /\ [Next]_vars => [QueueNext]_queueVars
<1> SUFFICES ASSUME JobInv, [Next]_vars PROVE [QueueNext]_queueVars
  OBVIOUS
<1>1. ASSUME NEW t \in Threads, Step(t) PROVE [QueueNext]_queueVars
  <2>1. CASE Scan(t)
    BY <2>1 DEF Scan, QueueNext
  <2> QED BY <1>1, <2>1, QueueOfServe, QueueOfWork, QueueOfMaster DEF Step
<1>2. CASE UNCHANGED vars
  BY <1>2 DEF vars
<1> QED BY <1>1, <1>2, QueueOfCall DEF Next

LEMMA PoolInit == Init => JobInv
<1> SUFFICES ASSUME Init PROVE JobInv
  OBVIOUS
<1>1. 0 \in Levels
  BY TopLevel, PrioritiesAssumption DEF Levels, Top
<1>2. local \in Locals
  BY <1>1 DEF Init, Locals
<1>3. JobTypes
  BY PoolAssumption DEF Init, JobTypes, Statuses, Places, Returns
<1>4. ASSUME NEW t \in Threads PROVE ThreadOK(t)
  <2>1. pc[t] \in {"wait", "free"}
    BY DEF Init
  <2> QED BY <2>1 DEF ThreadOK, Serving, Holding
<1>5. ASSUME NEW j \in Jobs PROVE JobOK(j)
  BY DEF Init, JobOK
<1> QED BY <1>2, <1>3, <1>4, <1>5 DEF JobInv

LEMMA JobInvServedOnce == JobInv => ServedOnce
<1> SUFFICES ASSUME JobInv, NEW j \in Jobs
             PROVE  /\ runs[j] + (IF status[j] = "aborted" THEN 1 ELSE 0) <= 1
                    /\ cleanups[j] = (IF complete[j] THEN 1 ELSE 0)
                    /\ status[j] = "in progress" =>
                         \E t \in Threads : owner[j] = t /\ job[t] = j /\ At(t, "running")
  BY DEF ServedOnce
<1>1. JobOK(j)
  BY DEF JobInv
<1>2. runs[j] + (IF status[j] = "aborted" THEN 1 ELSE 0) <= 1
  <2>1. runs[j] = (IF status[j] \in {"in progress", "ok"} THEN 1 ELSE 0)
    BY <1>1 DEF JobOK
  <2>2. CASE status[j] = "aborted"
    <3>1. runs[j] = 0
      BY <2>1, <2>2
    <3> QED BY <2>2, <3>1
  <2>3. CASE status[j] # "aborted"
    <3>1. runs[j] \in {0, 1}
      BY <2>1
    <3> QED BY <2>3, <3>1
  <2> QED BY <2>2, <2>3
<1> QED BY <1>1, <1>2 DEF JobOK, At

-----------------------------------------------------------------------------
\* What the pool is proved to keep: the jobs are served as JobInv says, and the
\* queues keep their own invariant.
LEMMA PoolInv == Spec => [](JobInv /\ QueueInv)
<1>1. Init => JobInv /\ QueueInv
  BY PoolInit, InitInv DEF Init
<1>2. JobInv /\ QueueInv /\ [Next]_vars => (JobInv /\ QueueInv)'
  BY JobInvStep, QueueStep, InvStep DEF QueueInv
<1> QED BY <1>1, <1>2, PTL DEF Spec

\* Whatever the workers, the master and the holders of handles do, each job is
\* executed or aborted at most once and cleaned up once, under its own mutex.
THEOREM ServedOnceCorrect == Spec => []ServedOnce
BY PoolInv, JobInvServedOnce, PTL

\* The pool uses its queues as JobQueue allows, so that no Pop of any thread
\* ever fails to find the item that it took from the counter.
THEOREM PoolImplementsJobQueue == Spec => QueueSpec
<1>1. Init => QueueInit
  BY DEF Init
<1> QED BY <1>1, QueueStep, PoolInv, PTL DEF Spec, QueueSpec

\* No thread of the pool ever reaches the AssertMsg of Pop.
THEOREM PoolPopFindsItem == Spec => []PopFindsItem
BY PoolImplementsJobQueue, PopFindsItemCorrect, PTL

-----------------------------------------------------------------------------
(* Pausing: where every thread can be, what the local variables of the       *)
(* master's call are there, and that the workers stay suspended while         *)
(* nSuspend is positive.                                                     *)

Paused ==
  /\ took \in [Workers -> BOOLEAN]
  /\ asked \subseteq Workers /\ suspended \subseteq Workers /\ nSuspend \in Nat
  /\ \A w \in suspended : pc[w] = "suspended"
  /\ nSuspend > 0 => suspended = Workers

Calling == {"call execute", "call abort", "lock execute", "lock abort"}

WorkerPlaces == {"wait", "direct", "shared", "scan", "reply", "replied", "suspended", "served",
                 "check", "trylock"} \cup Holding
HandlerPlaces == {"free"} \cup Calling \cup Holding

\* Where a thread can be, and what it will go back to.
PlaceOK(t) ==
  /\ t \in Workers => after[t] = "served" /\ pc[t] \in WorkerPlaces
  /\ t \in Handlers => after[t] = "free" /\ pc[t] \in HandlerPlaces
  /\ pc[t] \notin {"scan", "count"} => call[t] = Outside

MasterOK ==
  LET l == pc[Master]
      a == after[Master]
  IN
  /\ l \notin {"wait", "direct", "shared", "reply", "replied", "suspended", "served"}
  /\ a \in {"free", "yield", "drain", "put back", "abort all"}
  /\ l \in {"drain", "filter"} => a = "drain"
  /\ l = "put back" => a \in {"drain", "put back"}
  /\ l = "abort all" => a = "abort all"
  /\ l = "resume" => a \in {"put back", "abort all"}
  /\ l \in {"yield", "blocked"} => a = "yield"
  /\ a = "put back" => l \in {"put back", "count", "resume", "free"}
  /\ l = "count" => a \in {"put back", "free"}
  /\ l = "free" => a # "drain"
  /\ l \in {"scan", "check", "trylock"} => a # "free"
  /\ a \in {"drain", "put back", "abort all"} /\ l \notin {"calling", "suspending", "free"} => nSuspend > 0
  /\ a = "yield" => local.waited \in Jobs
  /\ local.back # <<>> => a = "drain" \/ (a = "put back" /\ l \in {"put back", "count"})
  /\ a = "drain" => \A i \in 1..Len(local.back) : local.back[i] \notin local.accepted

PauseInv == Paused /\ MasterOK /\ \A t \in Threads : PlaceOK(t)

\* Where a thread that serves a job may go.
GoesOn(t, l) ==
  \/ l = after[t] \/ l \in Holding
  \/ l = "trylock" /\ pc[t] = "check"
  \/ l \in {"lock execute", "lock abort"} /\ pc[t] \in Calling

\* What a thread does to everything but its job and the job's mutex when it serves a job.
LEMMA Serves ==
  ASSUME NEW t \in Threads, ServeJob(t)
  PROVE  /\ \E l : GoesOn(t, l) /\ Goto(t, l)
         /\ pc[t] \in Serving \ {"filter"}
         /\ UNCHANGED <<queueVars, priority, after, job, took, pauseVars, callVars>>
<1>1. CASE Check(t) \/ TryLock(t)
  BY <1>1 DEF Check, TryLock, At, Goto, GoesOn, Holding, Serving, jobVars
<1>2. CASE Call(t) \/ Lock(t) 
  BY <1>2 DEF Call, Lock, At, Goto, GoesOn, Holding, Serving, Calling, jobVars
<1>3. CASE Unlock(t) \/ Execute(t)
  BY <1>3 DEF Unlock, Execute, At, Goto, GoesOn, Holding, Serving, jobVars
<1>4. CASE Return(t) \/ CleanUp(t)
  BY <1>4 DEF Return, CleanUp, At, Goto, GoesOn, Holding, Serving, jobVars
<1> QED BY <1>1, <1>2, <1>3, <1>4 DEF ServeJob

LEMMA PausedServe ==
  ASSUME JobInv, PauseInv, NEW t \in Threads, ServeJob(t) PROVE Paused'
<1>1. PICK l : Goto(t, l)
  BY Serves
<1>2. pc[t] # "suspended" /\ UNCHANGED <<took, pauseVars>>
  BY Serves DEF Serving, Holding
<1> QED BY <1>1, <1>2 DEF JobInv, JobTypes, PauseInv, Paused, Goto, pauseVars

LEMMA PausedWork ==
  ASSUME JobInv, PauseInv, NEW t \in Workers, Work(t) PROVE Paused'
BY Actors DEF JobInv, JobTypes, PauseInv, Paused, Work, Wake, PopDirect, PopShared, Served, Reply, SuspendSelf, Resumed, Goto, At, pauseVars

LEMMA PausedScan ==
  ASSUME JobInv, PauseInv, NEW t \in Threads, Scan(t) PROVE Paused'
BY Actors DEF JobInv, JobTypes, PauseInv, Paused, Scan, Goto, At, pauseVars

MasterStep == \/ Counted \/ YieldWait \/ Unblock \/ CallWorker \/ WorkersSuspended
              \/ Drain \/ Filter \/ PutBack \/ AbortNext \/ ResumeExecution

LEMMA PausedMaster ==
  ASSUME JobInv, PauseInv, MasterStep PROVE Paused'
<1>1. \A w \in Workers : pc'[w] = pc[w]
  BY Actors DEF JobInv, JobTypes, MasterStep, Counted, YieldWait, Unblock, CallWorker, WorkersSuspended,
                Drain, Filter, PutBack, AbortNext, ResumeExecution, Goto
<1>2. CASE CallWorker
  BY <1>1, <1>2 DEF PauseInv, Paused, CallWorker
<1>4. CASE WorkersSuspended
  BY <1>1, <1>4 DEF PauseInv, Paused, WorkersSuspended, AllSuspended
<1>5. CASE ResumeExecution
  <2>1. nSuspend \in Nat /\ nSuspend > 0
    BY <1>5 DEF PauseInv, Paused, MasterOK, ResumeExecution, At
  <2>2. nSuspend' \in Nat /\ (nSuspend' > 0 => suspended' = suspended) /\ suspended' \subseteq suspended
    BY <1>5, <2>1 DEF ResumeExecution
  <2>3. UNCHANGED <<took, asked>>
    BY <1>5 DEF ResumeExecution
  <2> QED BY <1>1, <2>1, <2>2, <2>3 DEF PauseInv, Paused
<1>3. CASE UNCHANGED <<took, pauseVars>>
  BY <1>1, <1>3 DEF PauseInv, Paused, pauseVars
<1> QED BY <1>2, <1>3, <1>4, <1>5 DEF MasterStep, Counted, YieldWait, Unblock, Drain, Filter, PutBack, AbortNext

LEMMA Kinds ==
  /\ Threads = Workers \cup {Master} \cup Handlers
  /\ Master \notin Workers /\ Master \notin Handlers /\ Workers \cap Handlers = {}
  /\ Clients = {Master} \cup Handlers
BY PoolAssumption DEF Clients

\* A new call: who makes it, where it leads and what it leaves alone.
Entries == {<<"count", "free">>, <<"call execute", "free">>, <<"call abort", "free">>, <<"yield", "yield">>,
            <<"calling", "free">>, <<"calling", "drain">>, <<"calling", "abort all">>,
            <<"free", "free">>, <<"drain", "drain">>, <<"abort all", "abort all">>}

\* What the call promises of the jobs of S.
Promises(t, l, r, S) ==
  /\ S \subseteq Jobs
  /\ r = "free" => \A j \in S : l \in Calling /\ job'[t] = j
  /\ r = "yield" => \A j \in S : j = local'.waited
  /\ r \in {"drain", "abort all"} => \A j \in S : status'[j] # "unserviced"
  /\ r = "drain" => \A j \in S : j \in local'.accepted /\ priority'[j] >= local'.to

Starts(t, l, r, S) ==
  /\ Begin(t, l, r, S)
  /\ Promises(t, l, r, S)
  /\ \E x \in Jobs \cup {None} : job' = [job EXCEPT ![t] = x]
  /\ UNCHANGED <<owner, complete, runs, cleanups, took, asked, suspended>>
  /\ nSuspend' = nSuspend \/ (nSuspend # 0 /\ nSuspend' = nSuspend + 1)
  /\ <<l, r>> \in Entries
  /\ l = r /\ l # "yield" => nSuspend # 0
  /\ t \in Handlers => l \in Calling /\ UNCHANGED <<local, nSuspend>>
  /\ IF l = "count" THEN \E q \in Queues, j \in Jobs, k \in Levels : PushItem(t, q, j, k)
                    ELSE UNCHANGED queueVars
  /\ local'.back = local.back
  /\ r = "yield" => local'.waited \in Jobs

LEMMA SameJob ==
  ASSUME JobInv, UNCHANGED job, NEW t \in Threads
  PROVE  \E x \in Jobs \cup {None} : job' = [job EXCEPT ![t] = x]
<1>1. job[t] \in Jobs \cup {None} /\ job' = [job EXCEPT ![t] = job[t]]
  BY DEF JobInv, JobTypes
<1> QED BY <1>1

\* SuspendExecution with what it promises, which the three callers fill in.
LEMMA SuspendStarts ==
  ASSUME JobInv, NEW r \in {"free", "drain", "abort all"}, NEW to, NEW S, NEW P, SuspendExecution(r, to, S, P),
         P \subseteq Jobs, r = "free" => P = {}, \A j \in P : status[j] # "unserviced",
         r = "drain" => P \subseteq S /\ \A j \in P : priority[j] >= to
  PROVE  Starts(Master, IF nSuspend = 0 THEN "calling" ELSE r, r, P)
<1> DEFINE l == IF nSuspend = 0 THEN "calling" ELSE r
<1>1. local \in Locals /\ Master \in Threads /\ Master \notin Handlers
  BY Kinds DEF JobInv
<1>2. UNCHANGED <<queueVars, status, priority, owner, complete, runs, cleanups, job, took, asked, suspended>>
  BY DEF SuspendExecution, jobVars
<1>3. /\ Begin(Master, l, r, P) /\ local' = [local EXCEPT !.to = to, !.accepted = S, !.called = {}]
      /\ nSuspend' = IF nSuspend = 0 THEN 0 ELSE nSuspend + 1
  BY DEF SuspendExecution
<1>4. local'.back = local.back /\ local'.accepted = S /\ local'.to = to
  BY <1>1, <1>3 DEF Locals
<1>5. \E x \in Jobs \cup {None} : job' = [job EXCEPT ![Master] = x]
  BY <1>1, <1>2, SameJob
<1>6. Promises(Master, l, r, P)
  BY <1>2, <1>4 DEF Promises
<1>7. <<l, r>> \in Entries /\ l # "count" /\ (l = r /\ l # "yield" => nSuspend # 0)
  BY DEF Entries
<1>8. nSuspend' = nSuspend \/ (nSuspend # 0 /\ nSuspend' = nSuspend + 1)
  BY <1>3
<1> QED BY <1>1, <1>2, <1>3, <1>4, <1>5, <1>6, <1>7, <1>8 DEF Starts

LEMMA NewCalls ==
  ASSUME JobInv, NewCall
  PROVE  \E t \in Clients : \E l, r, S : Starts(t, l, r, S)
<1> DEFINE G == \E t \in Clients : \E l, r, S : Starts(t, l, r, S)
<1>0. Master \in Clients /\ Master \notin Handlers /\ Master \in Threads /\ local \in Locals
  BY Kinds DEF JobInv
<1>1. ASSUME NEW j \in Jobs, AddJob(j) PROVE G
  <2>1. CASE Begin(Master, "call execute", "free", {j}) /\ job' = [job EXCEPT ![Master] = j] /\ UNCHANGED queueVars
    <3>1. Promises(Master, "call execute", "free", {j})
      BY <1>0, <2>1 DEF Promises, Calling, JobInv, JobTypes
    <3>2. Starts(Master, "call execute", "free", {j})
      BY <1>0, <1>1, <2>1, <3>1 DEF AddJob, Starts, pauseVars, Entries
    <3> QED BY <1>0, <3>2
  <2>2. CASE /\ Begin(Master, "count", "free", {}) /\ UNCHANGED job
             /\ priority' = [priority EXCEPT ![j] = IF j \in IO THEN @ ELSE Top]
             /\ PushItem(Master, QueueOf(j), j, priority'[j])
    <3>1. priority'[j] \in Levels /\ QueueOf(j) \in Queues
      BY <2>2, TopLevel, Actors DEF JobInv, JobTypes
    <3>2. Promises(Master, "count", "free", {}) /\ \E x \in Jobs \cup {None} : job' = [job EXCEPT ![Master] = x]
      BY <1>0, <2>2, SameJob DEF Promises
    <3>3. Starts(Master, "count", "free", {})
      BY <1>0, <1>1, <2>2, <3>1, <3>2 DEF AddJob, Starts, pauseVars, Entries
    <3> QED BY <1>0, <3>3
  <2> QED BY <1>1, <2>1, <2>2 DEF AddJob
<1>2. ASSUME NEW j \in Jobs, WaitForFinish(j) PROVE G
  <2>1. local'.back = local.back /\ local'.waited = j
    BY <1>0, <1>2 DEF WaitForFinish, Locals
  <2>2. Promises(Master, "yield", "yield", {j}) /\ \E x \in Jobs \cup {None} : job' = [job EXCEPT ![Master] = x]
    BY <1>0, <1>2, <2>1, SameJob DEF Promises, WaitForFinish
  <2>3. Starts(Master, "yield", "yield", {j})
    BY <1>0, <1>2, <2>1, <2>2 DEF WaitForFinish, Starts, jobVars, pauseVars, Entries
  <2> QED BY <1>0, <2>3
<1>3. ASSUME NEW j \in Jobs, NEW l \in Levels, ChangePriority(j, l) PROVE G
  <2>1. Promises(Master, "count", "free", {}) /\ \E x \in Jobs \cup {None} : job' = [job EXCEPT ![Master] = x]
    BY <1>0, <1>3, SameJob DEF Promises, ChangePriority
  <2>2. Starts(Master, "count", "free", {})
    BY <1>0, <1>3, <2>1, Actors DEF ChangePriority, Starts, pauseVars, Entries
  <2> QED BY <1>0, <2>2
<1>4. ASSUME NEW t \in Clients, NEW j \in Jobs, NEW how \in {"call execute", "call abort"}, UseHandle(t, j, how)
      PROVE  G
  <2>1. job' = [job EXCEPT ![t] = j] /\ t \in Threads
    BY <1>4, Kinds DEF UseHandle
  <2>2. Promises(t, how, "free", {j})
    BY <2>1 DEF Promises, Calling, JobInv, JobTypes
  <2>3. Starts(t, how, "free", {j})
    BY <1>4, <2>1, <2>2 DEF UseHandle, Starts, jobVars, pauseVars, Entries, Calling
  <2> QED BY <2>3
<1>5. ASSUME NEW l \in Levels, NEW S \in {Jobs, Serial}, ExecuteToPriority(l, S) PROVE G
  <2> DEFINE P == {j \in Added \cap S : priority[j] >= l}
  <2>1. SuspendExecution("drain", l, S, P)
    BY <1>5, Zenon DEF ExecuteToPriority
  <2>2. P \subseteq Jobs /\ P \subseteq S /\ \A j \in P : status[j] # "unserviced" /\ priority[j] >= l
    BY DEF Added
  <2> HIDE DEF P
  <2>3. Starts(Master, IF nSuspend = 0 THEN "calling" ELSE "drain", "drain", P)
    BY <2>1, <2>2, SuspendStarts
  <2> QED BY <1>0, <2>3
<1>6. ASSUME Suspend PROVE G
  <2>1. Starts(Master, IF nSuspend = 0 THEN "calling" ELSE "free", "free", {})
    BY <1>6, SuspendStarts DEF Suspend
  <2> QED BY <1>0, <2>1
<1>7. ASSUME AbortAll PROVE G
  <2>1. SuspendExecution("abort all", 0, {}, Added) /\ Added \subseteq Jobs /\ \A j \in Added : status[j] # "unserviced"
    BY <1>7 DEF AbortAll, Added
  <2>2. Starts(Master, IF nSuspend = 0 THEN "calling" ELSE "abort all", "abort all", Added)
    BY <2>1, SuspendStarts
  <2> QED BY <1>0, <2>2
<1>8. G
  <2> HIDE DEF G
  <2> QED BY <1>1, <1>2, <1>3, <1>4, <1>5, <1>6, <1>7 DEF NewCall
<1> QED BY <1>8

LEMMA PausedCall ==
  ASSUME JobInv, PauseInv, NewCall
   PROVE Paused'
<1>1. PICK t, l, r, S : t \in Clients /\ Starts(t, l, r, S)
  BY NewCalls
<1>2. \A w \in Workers : pc[w] = "suspended" => pc'[w] = pc[w]
  BY <1>1, Actors DEF JobInv, JobTypes, Starts, Begin, Goto, At
<1>3. nSuspend' \in Nat /\ (nSuspend' > 0 => nSuspend > 0)
  BY <1>1 DEF PauseInv, Paused, Starts
<1> QED BY <1>1, <1>2, <1>3 DEF PauseInv, Paused, Starts

\* A thread that does not move stays where it is.
LEMMA StaysPut ==
  ASSUME JobInv, NEW t \in Threads, NEW u \in Threads, u # t, PlaceOK(u), NEW l, Goto(t, l),
         after'[u] = after[u], call'[u] = call[u]
  PROVE  PlaceOK(u)'
<1>1. pc'[u] = pc[u]
  BY DEF JobInv, JobTypes, Goto
<1> QED BY <1>1 DEF PlaceOK

\* What PushItem, CountItem, StartPop and the steps of Pop leave of the other threads' calls.
LEMMA OwnCall ==
  ASSUME QueueTypeOK, NEW t \in Threads,
         \/ UNCHANGED queueVars
         \/ \E q \in Queues : \E j, l : PushItem(t, q, j, l)
         \/ CountItem(t) \/ (\E q : StartPop(t, q)) \/ LowerPriority(t) \/ PopItem(t)
  PROVE  /\ \A u \in Threads : u # t => call'[u] = call[u]
         /\ CountItem(t) \/ PopItem(t) => call'[t] = Outside
BY DEF QueueTypeOK, queueVars, PushItem, CountItem, StartPop, LowerPriority, PopItem

LEMMA PlacesServe ==
  ASSUME JobInv, PauseInv, NEW t \in Threads, ServeJob(t), NEW u \in Threads PROVE PlaceOK(u)'
<1>1. PlaceOK(u) /\ PlaceOK(t)
  BY DEF PauseInv
<1>2. UNCHANGED <<after, call>>
  BY Serves DEF queueVars
<1>3. PICK l : GoesOn(t, l) /\ Goto(t, l)
  BY Serves
<1>4. CASE u = t
  <2>1. pc'[u] = l /\ pc[u] \in Serving
    BY <1>3, <1>4, Serves DEF JobInv, JobTypes, Goto
  <2>2. call[u] = Outside
    BY <1>1, <2>1 DEF PlaceOK, Serving, Holding
  <2>3. u \in Workers => after[u] = "served" /\ l \in WorkerPlaces
    BY <1>1, <1>3, <1>4, Kinds DEF PlaceOK, WorkerPlaces, Holding, Calling, GoesOn
  <2>4. u \in Handlers => after[u] = "free" /\ l \in HandlerPlaces
    BY <1>1, <1>3, <1>4, Kinds DEF PlaceOK, HandlerPlaces, Holding, Calling, GoesOn
  <2> QED BY <1>2, <2>1, <2>2, <2>3, <2>4 DEF PlaceOK
<1>5. CASE u # t
  BY <1>1, <1>2, <1>3, <1>5, StaysPut
<1> QED BY <1>4, <1>5

LEMMA PlacesWork ==
  ASSUME JobInv, PauseInv, QueueTypeOK, NEW t \in Workers, Work(t), NEW u \in Threads PROVE PlaceOK(u)'
<1>1. PlaceOK(u) /\ PlaceOK(t) /\ t \in Threads
  BY Kinds DEF PauseInv
<1>2. UNCHANGED after
  BY DEF Work, Wake, PopDirect, PopShared, Served, Reply, SuspendSelf, Resumed
<1>3. PICK l \in {"reply", "direct", "scan", "shared", "wait", "replied", "suspended"} :
        Goto(t, l) /\ (l # "scan" => UNCHANGED queueVars)
  BY DEF Work, Wake, PopDirect, PopShared, Served, Reply, SuspendSelf, Resumed
<1>4. UNCHANGED queueVars \/ \E q : StartPop(t, q)
  BY DEF Work, Wake, PopDirect, PopShared, Served, Reply, SuspendSelf, Resumed
<1>5. CASE u = t
  <2>1. pc'[u] = l /\ pc[t] \notin {"scan", "count"}
    BY <1>1, <1>3, <1>5 DEF JobInv, JobTypes, Goto, Work, Wake, PopDirect, PopShared, Served, Reply, SuspendSelf, Resumed, At
  <2>2. l # "scan" => call'[u] = Outside
    BY <1>1, <1>3, <1>5, <2>1 DEF PlaceOK, queueVars
  <2> QED BY <1>1, <1>2, <1>3, <1>5, <2>1, <2>2, Kinds DEF PlaceOK, WorkerPlaces
<1>6. CASE u # t
  <2>1. call'[u] = call[u]
    BY <1>1, <1>4, <1>6, OwnCall
  <2> QED BY <1>1, <1>2, <1>3, <1>6, <2>1, StaysPut
<1> QED BY <1>5, <1>6

LEMMA PlacesScan ==
  ASSUME JobInv, PauseInv, QueueTypeOK, NEW t \in Threads, Scan(t), NEW u \in Threads PROVE PlaceOK(u)'
<1>1. PlaceOK(u) /\ PlaceOK(t) /\ pc[t] = "scan" /\ UNCHANGED after
  BY DEF PauseInv, Scan, At
<1>2. CASE LowerPriority(t) /\ UNCHANGED pc
  <2>1. u # t => call'[u] = call[u]
    BY <1>2, OwnCall
  <2> QED BY <1>1, <1>2, <2>1 DEF PlaceOK
<1>3. CASE PopItem(t) /\ Goto(t, Taken(t))
  <2>1. call'[t] = Outside /\ (u # t => call'[u] = call[u])
    BY <1>3, OwnCall
  <2>2. CASE u = t
    <3>1. pc'[u] = Taken(t)
      BY <1>3, <2>2 DEF JobInv, JobTypes, Goto
    <3>2. u \notin Handlers
      BY <1>1, <2>2 DEF PlaceOK, HandlerPlaces, Calling, Holding
    <3>3. u \in Workers => after[t] = "served"
      BY <1>1, <2>2 DEF PlaceOK
    <3>4. u \in Workers => Taken(t) = "check"
      BY <3>3 DEF Taken
    <3> QED BY <1>1, <2>1, <2>2, <3>1, <3>2, <3>3, <3>4 DEF PlaceOK, WorkerPlaces
  <2>3. CASE u # t
    BY <1>1, <1>3, <2>1, <2>3, StaysPut
  <2> QED BY <2>2, <2>3
<1> QED BY <1>1, <1>2, <1>3 DEF Scan

LEMMA PlacesMaster ==
  ASSUME JobInv, PauseInv, QueueTypeOK, MasterStep, NEW u \in Threads PROVE PlaceOK(u)'
<1>1. Master \in Threads /\ PlaceOK(u) /\ PlaceOK(Master)
  BY Kinds DEF PauseInv
<1>2. (\E l : Goto(Master, l)) \/ UNCHANGED pc
  BY DEF MasterStep, Counted, YieldWait, Unblock, CallWorker, WorkersSuspended,
         Drain, Filter, PutBack, AbortNext, ResumeExecution
<1>3. UNCHANGED after \/ after' = [after EXCEPT ![Master] = "put back"]
  BY DEF MasterStep, Counted, YieldWait, Unblock, CallWorker, WorkersSuspended,
         Drain, Filter, PutBack, AbortNext, ResumeExecution
<1>4. CASE \/ Goto(Master, "scan") /\ \E q : StartPop(Master, q)
           \/ Goto(Master, "count") /\ \E q, j, l : PushItem(Master, q, j, l)
           \/ CountItem(Master)
           \/ UNCHANGED queueVars /\ pc[Master] \notin {"scan", "count"}
  <2>1. u # Master => call'[u] = call[u]
    BY <1>4, <1>1 DEF QueueTypeOK, queueVars, PushItem, CountItem, StartPop
  <2>2. CASE u = Master
    <3>1. pc'[u] \notin {"scan", "count"} => call'[u] = Outside
      BY <1>1, <1>4, <2>2 DEF PlaceOK, JobInv, JobTypes, Goto, queueVars, QueueTypeOK, CountItem
    <3> QED BY <2>2, <3>1, Kinds DEF PlaceOK
  <2>3. CASE u # Master
    <3>1. after'[u] = after[u] /\ pc'[u] = pc[u]
      BY <1>2, <1>3, <2>3 DEF JobInv, JobTypes, Goto
    <3> QED BY <1>1, <2>1, <2>3, <3>1 DEF PlaceOK
  <2> QED BY <2>2, <2>3
<1>5. CASE Counted
  BY <1>4, <1>5 DEF Counted
<1>6. CASE YieldWait \/ Unblock \/ Drain
  BY <1>4, <1>6 DEF YieldWait, Unblock, Drain, At
<1>7. CASE CallWorker \/ WorkersSuspended \/ Filter \/ ResumeExecution
  BY <1>4, <1>7 DEF CallWorker, WorkersSuspended, Filter, ResumeExecution, At
<1>8. CASE PutBack \/ AbortNext
  BY <1>4, <1>8 DEF PutBack, AbortNext, At
<1> QED BY <1>5, <1>6, <1>7, <1>8 DEF MasterStep

LEMMA PlacesCall ==
  ASSUME JobInv, PauseInv, QueueTypeOK, NewCall, NEW u \in Threads PROVE PlaceOK(u)'
<1>1. PICK t, l, r, S : t \in Clients /\ Starts(t, l, r, S)
  BY NewCalls
<1>2. t \in Threads /\ PlaceOK(u) /\ PlaceOK(t) /\ pc[t] = "free" /\ Goto(t, l) /\ after' = [after EXCEPT ![t] = r]
  BY <1>1, Kinds DEF PauseInv, Starts, Begin, At
<1>3. CASE u = t
  <2>1. pc'[u] = l /\ after'[u] = r
    BY <1>2, <1>3 DEF JobInv, JobTypes, Goto
  <2>2. l # "count" => call'[u] = Outside
    BY <1>1, <1>2, <1>3 DEF Starts, PlaceOK, queueVars
  <2>3. t \in Handlers => l \in Calling /\ r = "free"
    BY <1>1 DEF Starts, Entries, Calling
  <2> QED BY <1>1, <1>3, <2>1, <2>2, <2>3, Kinds DEF PlaceOK, HandlerPlaces
<1>4. CASE u # t
  <2>1. call'[u] = call[u]
    BY <1>1, <1>2, <1>4, OwnCall DEF Starts
  <2>2. after'[u] = after[u]
    BY <1>2, <1>4 DEF JobInv, JobTypes
  <2> QED BY <1>2, <1>4, <2>1, <2>2, StaysPut
<1> QED BY <1>3, <1>4

-----------------------------------------------------------------------------
(* The master.                                                             *)

LEMMA MasterRests ==
  ASSUME MasterOK, pc'[Master] = pc[Master], after'[Master] = after[Master], UNCHANGED <<local, nSuspend>>
  PROVE  MasterOK'
BY DEF MasterOK

LEMMA OthersServe ==
  ASSUME JobInv, PauseInv, NEW t \in Threads, t # Master, ServeJob(t) PROVE MasterOK'
<1>1. UNCHANGED <<after, local, nSuspend>> /\ \E l : Goto(t, l)
  BY Serves DEF callVars, pauseVars
<1> QED BY <1>1, MasterRests, Kinds DEF PauseInv, JobInv, JobTypes, Goto

LEMMA OthersScan ==
  ASSUME JobInv, PauseInv, NEW t \in Threads, t # Master, Scan(t) PROVE MasterOK'
<1>1. UNCHANGED <<after, local, nSuspend>> /\ (UNCHANGED pc \/ \E l : Goto(t, l))
  BY DEF Scan, callVars, pauseVars
<1> QED BY <1>1, MasterRests, Kinds DEF PauseInv, JobInv, JobTypes, Goto

LEMMA OthersWork ==
  ASSUME JobInv, PauseInv, NEW t \in Workers, Work(t) PROVE MasterOK'
<1>1. UNCHANGED <<after, local, nSuspend>> /\ \E l : Goto(t, l)
  BY DEF Work, Wake, PopDirect, PopShared, Served, Reply, SuspendSelf, Resumed, callVars, pauseVars
<1> QED BY <1>1, MasterRests, Kinds DEF PauseInv, JobInv, JobTypes, Goto

LEMMA MasterServes ==
  ASSUME JobInv, PauseInv, ServeJob(Master) PROVE MasterOK'
<1>1. UNCHANGED <<after, local, nSuspend>> /\ pc[Master] \in Serving \ {"filter"}
  BY Serves, Kinds DEF callVars, pauseVars
<1>2. PICK l : GoesOn(Master, l) /\ Goto(Master, l)
  BY Serves, Kinds
<1>3. pc'[Master] = l /\ MasterOK
  BY <1>2, Kinds DEF JobInv, JobTypes, Goto, PauseInv
<1>4. CASE l = after[Master]
  BY <1>1, <1>3, <1>4 DEF MasterOK, Serving, Holding
<1>5. CASE l \in Holding \cup {"lock execute", "lock abort"}
  BY <1>1, <1>3, <1>5 DEF MasterOK, Serving, Holding
<1>6. CASE l = "trylock" /\ pc[Master] = "check"
  BY <1>1, <1>3, <1>6 DEF MasterOK
<1> QED BY <1>2, <1>4, <1>5, <1>6 DEF GoesOn

LEMMA MasterScans ==
  ASSUME JobInv, PauseInv, Scan(Master) PROVE MasterOK'
<1>1. UNCHANGED <<after, local, nSuspend>> /\ pc[Master] = "scan" /\ MasterOK
  BY DEF callVars, pauseVars, Scan, At, PauseInv
<1>2. UNCHANGED pc \/ Goto(Master, Taken(Master))
  BY DEF Scan
<1>3. pc'[Master] = pc[Master] \/ pc'[Master] = Taken(Master)
  BY <1>2, Kinds DEF JobInv, JobTypes, Goto
<1>4. CASE pc'[Master] = Taken(Master)
  BY <1>1, <1>4 DEF MasterOK, Taken
<1> QED BY <1>1, <1>3, <1>4, MasterRests

LEMMA MasterCalls ==
  ASSUME JobInv, PauseInv, NewCall PROVE MasterOK'
<1>1. PICK t, l, r, S : t \in Clients /\ Starts(t, l, r, S)
  BY NewCalls
<1>2. t \in Threads /\ pc[t] = "free" /\ pc' = [pc EXCEPT ![t] = l] /\ after' = [after EXCEPT ![t] = r]
  BY <1>1, Kinds DEF Starts, Begin, At, Goto
<1>3. MasterOK /\ nSuspend \in Nat
  BY DEF PauseInv, Paused
<1>4. CASE t = Master
  <2>1. pc'[Master] = l /\ after'[Master] = r
    BY <1>2, <1>4 DEF JobInv, JobTypes
  <2>2. local'.back = <<>>
    BY <1>1, <1>2, <1>3, <1>4 DEF MasterOK, Starts
  <2>3. <<l, r>> \in Entries /\ (l = r /\ l # "yield" => nSuspend' > 0) /\ (r = "yield" => local'.waited \in Jobs)
    BY <1>1, <1>3 DEF Starts
  <2>4. l = "count" \/ l \in {"call execute", "call abort"} \/ l \in {"yield", "calling", "free", "drain", "abort all"}
    BY <2>3 DEF Entries
  <2>5. r \in {"free", "yield", "drain", "abort all"} /\ (l \in {"count", "call execute", "call abort"} => r = "free")
        /\ (l \in {"free", "yield", "drain", "abort all"} => l = r)
    BY <2>3 DEF Entries
  <2>8. \A i \in 1..Len(local'.back) : local'.back[i] \notin local'.accepted
    BY <2>2
  <2> HIDE <1>1, <1>2, <1>4
  <2>6. CASE l \in {"count", "call execute", "call abort", "calling"}
    BY <2>1, <2>2, <2>8, <2>3, <2>5, <2>6 DEF MasterOK
  <2>7. CASE l \in {"free", "yield", "drain", "abort all"}
    BY <2>1, <2>2, <2>8, <2>3, <2>5, <2>7 DEF MasterOK
  <2> QED BY <2>4, <2>6, <2>7
<1>5. CASE t # Master
  <2>1. UNCHANGED <<local, nSuspend>>
    BY <1>1, <1>5, Kinds DEF Starts
  <2> QED BY <1>2, <1>3, <1>5, <2>1, MasterRests, Kinds DEF JobInv, JobTypes
<1> QED BY <1>4, <1>5

\* The steps that leave the local variables and the place of return alone.
LEMMA MasterGoes ==
  ASSUME JobInv, PauseInv, Counted \/ YieldWait \/ Unblock \/ Drain \/ AbortNext PROVE MasterOK'
<1>1. MasterOK /\ UNCHANGED <<after, local, nSuspend>>
  BY DEF PauseInv, Counted, YieldWait, Unblock, Drain, AbortNext, callVars, pauseVars
<1>2. PICK l : Goto(Master, l) /\ pc'[Master] = l
  <2>1. \E l : Goto(Master, l)
    BY DEF Counted, YieldWait, Unblock, Drain, AbortNext
  <2> QED BY <2>1, Kinds DEF JobInv, JobTypes, Goto
<1>3. pc[Master] \in Places /\ l = pc'[Master]
  BY <1>2, Kinds DEF JobInv, JobTypes
<1>4. CASE Counted
  <2>1. pc[Master] = "count" /\ l = after[Master]
    BY <1>2, <1>4, Kinds DEF Counted, At, Goto, JobInv, JobTypes
  <2> QED BY <1>1, <1>2, <2>1 DEF MasterOK
<1>5. CASE YieldWait
  <2>1. pc[Master] = "yield" /\ l \in {"free", "scan", "blocked"}
    BY <1>2, <1>5, Kinds DEF YieldWait, At, Goto, JobInv, JobTypes
  <2> QED BY <1>1, <1>2, <2>1 DEF MasterOK
<1>6. CASE Unblock
  <2>1. pc[Master] = "blocked" /\ l = "free"
    BY <1>2, <1>6, Kinds DEF Unblock, At, Goto, JobInv, JobTypes
  <2> QED BY <1>1, <1>2, <2>1 DEF MasterOK
<1>7. CASE Drain
  <2>1. pc[Master] = "drain" /\ l \in {"put back", "scan"}
    BY <1>2, <1>7, Kinds DEF Drain, At, Goto, JobInv, JobTypes
  <2> QED BY <1>1, <1>2, <2>1 DEF MasterOK
<1>8. CASE AbortNext
  <2>1. pc[Master] = "abort all" /\ l \in {"scan", "resume"}
    BY <1>2, <1>8, Kinds DEF AbortNext, At, Goto, JobInv, JobTypes
  <2> QED BY <1>1, <1>2, <2>1 DEF MasterOK
<1> QED BY <1>4, <1>5, <1>6, <1>7, <1>8

LEMMA MasterPauses ==
  ASSUME JobInv, PauseInv, CallWorker \/ WorkersSuspended \/ ResumeExecution PROVE MasterOK'
<1>1. MasterOK /\ local \in Locals /\ after' = after /\ pc \in [Threads -> Places]
  BY DEF PauseInv, JobInv, JobTypes, CallWorker, WorkersSuspended, ResumeExecution
<1>2. CASE CallWorker
  <2>1. pc[Master] = "calling" /\ pc'[Master] \in {"calling", "suspending"} /\ UNCHANGED nSuspend
    BY <1>1, <1>2, Kinds DEF CallWorker, At, Goto
  <2>2. local'.back = local.back /\ local'.waited = local.waited /\ local'.accepted = local.accepted
    BY <1>1, <1>2 DEF CallWorker, Locals
  <2> QED BY <1>1, <2>1, <2>2 DEF MasterOK
<1>3. CASE WorkersSuspended
  <2>1. pc[Master] = "suspending" /\ pc'[Master] = after[Master] /\ UNCHANGED local /\ nSuspend' = 1
    BY <1>1, <1>3, Kinds DEF WorkersSuspended, At, Goto, callVars
  <2>5. after[Master] # "put back"
    BY <1>1, <2>1 DEF MasterOK
  <2>2. after[Master] \in {"free", "yield", "drain", "abort all"} /\ after'[Master] = after[Master]
    BY <1>1, <2>5 DEF MasterOK
  <2>3. CASE after[Master] \in {"free", "yield"}
    BY <1>1, <2>1, <2>2, <2>3 DEF MasterOK
  <2>4. CASE after[Master] = "drain"
    <3>1. \A i \in 1..Len(local'.back) : local'.back[i] \notin local'.accepted
      BY <1>1, <2>1, <2>4 DEF MasterOK
    <3>2. pc'[Master] = "drain" /\ after'[Master] = "drain" /\ nSuspend' > 0
      BY <2>1, <2>2, <2>4
    <3> HIDE <1>1, <2>1
    <3>3. local'.back # <<>> => after'[Master] = "drain"
      BY <3>2
    <3> QED BY <3>1, <3>2, <3>3 DEF MasterOK
  <2>6. CASE after[Master] = "abort all"
    <3>1. local'.back = <<>>
      BY <1>1, <2>1, <2>6 DEF MasterOK
    <3>2. pc'[Master] = "abort all"
      BY <2>1, <2>6
    <3>3. after'[Master] = "abort all"
      BY <2>2, <2>6
    <3>4. nSuspend' > 0
      BY <2>1
    <3> HIDE <1>1, <2>1
    <3> QED BY <3>1, <3>2, <3>3, <3>4 DEF MasterOK
  <2> QED BY <2>2, <2>3, <2>4, <2>6
<1>4. CASE ResumeExecution
  <2>1. pc[Master] \in {"resume", "free"} /\ pc'[Master] = "free" /\ UNCHANGED local
    BY <1>1, <1>4, Kinds DEF ResumeExecution, At, Goto, callVars
  <2> QED BY <1>1, <2>1 DEF MasterOK
<1> QED BY <1>2, <1>3, <1>4

LEMMA MasterFilters ==
  ASSUME JobInv, PauseInv, Filter PROVE MasterOK'
<1>1. MasterOK /\ local \in Locals /\ after' = after /\ nSuspend' = nSuspend /\ pc[Master] = "filter"
  BY DEF PauseInv, JobInv, JobTypes, Filter, pauseVars, At
<1>2. CASE UNCHANGED local
  <2>1. pc'[Master] \in {"check", "drain"}
    BY Kinds DEF Filter, Goto, JobInv, JobTypes
  <2> QED BY <1>1, <1>2, <2>1 DEF MasterOK
<1>3. CASE /\ job[Master] \notin local.accepted /\ pc'[Master] = "drain"
           /\ local' = [local EXCEPT !.back = Append(@, job[Master])]
  <2>1. job[Master] \in Jobs
    BY <1>1, Kinds DEF JobInv, ThreadOK, Serving
  <2>2. /\ local'.back = Append(local.back, job[Master]) /\ local'.waited = local.waited
        /\ local'.accepted = local.accepted /\ local.back \in Seq(Jobs)
    BY <1>1, <1>3 DEF Locals
  <2>3. ASSUME NEW i \in 1..Len(local'.back) PROVE local'.back[i] = job[Master] \/ (i \in 1..Len(local.back) /\ local'.back[i] = local.back[i])
    BY <2>1, <2>2
  <2>4. after[Master] = "drain" /\ \A i \in 1..Len(local'.back) : local'.back[i] \notin local'.accepted
    BY <1>1, <1>3, <2>2, <2>3 DEF MasterOK
  <2>5. pc'[Master] = "drain" /\ after'[Master] = "drain" /\ local'.waited = local.waited
    BY <1>1, <1>3, <2>2, <2>4
  <2> HIDE <1>3, <2>2
  <2> QED BY <1>1, <2>4, <2>5 DEF MasterOK
<1>4. pc'[Master] = "drain" \/ UNCHANGED local
  BY Kinds DEF Filter, Goto, JobInv, JobTypes
<1> QED BY <1>2, <1>3, <1>4 DEF Filter

LEMMA MasterPutsBack ==
  ASSUME JobInv, PauseInv, PutBack PROVE MasterOK'
<1>1. MasterOK /\ local \in Locals /\ nSuspend' = nSuspend /\ pc[Master] = "put back" /\ after'[Master] = "put back"
  BY Kinds DEF PauseInv, JobInv, JobTypes, PutBack, pauseVars, At
<1>2. CASE local.back = <<>> /\ Goto(Master, "resume") /\ UNCHANGED local
  <2>1. pc'[Master] = "resume"
    BY <1>2, Kinds DEF Goto, JobInv, JobTypes
  <2> QED BY <1>1, <1>2, <2>1 DEF MasterOK
<1>3. CASE Goto(Master, "count")
  <2>1. pc'[Master] = "count"
    BY <1>3, Kinds DEF Goto, JobInv, JobTypes
  <2> QED BY <1>1, <2>1 DEF MasterOK
<1> QED BY <1>2, <1>3 DEF PutBack

LEMMA PauseStep == JobInv /\ QueueTypeOK /\ PauseInv /\ [Next]_vars => PauseInv'
<1> SUFFICES ASSUME JobInv, QueueTypeOK, PauseInv, [Next]_vars PROVE PauseInv'
  OBVIOUS
<1>1. CASE UNCHANGED vars
  <2>1. UNCHANGED <<took, asked, suspended, nSuspend, pc, after, local, call>>
    BY <1>1 DEF vars, threadVars, pauseVars, callVars, queueVars
  <2> QED BY <2>1 DEF PauseInv, Paused, PlaceOK, MasterOK
<1>2. CASE NewCall
  BY <1>2, PausedCall, PlacesCall, MasterCalls DEF PauseInv
<1>3. ASSUME NEW t \in Threads, Step(t) PROVE PauseInv'
  <2>1. CASE ServeJob(t)
    <3>1. MasterOK'
      <4>1. CASE t = Master
        BY <2>1, <4>1, MasterServes
      <4>2. CASE t # Master
        BY <2>1, <4>2, OthersServe
      <4> QED BY <4>1, <4>2
    <3>2. Paused' /\ \A u \in Threads : PlaceOK(u)'
      BY <2>1, PausedServe, PlacesServe
    <3> QED BY <3>1, <3>2 DEF PauseInv
  <2>2. CASE Scan(t)
    <3>1. MasterOK'
      <4>1. CASE t = Master
        BY <2>2, <4>1, MasterScans
      <4>2. CASE t # Master
        BY <2>2, <4>2, OthersScan
      <4> QED BY <4>1, <4>2
    <3>2. Paused' /\ \A u \in Threads : PlaceOK(u)'
      BY <2>2, PausedScan, PlacesScan
    <3> QED BY <3>1, <3>2 DEF PauseInv
  <2>3. CASE t \in Workers /\ Work(t)
    <3>2. MasterOK' /\ Paused'
      BY <2>3, OthersWork, PausedWork
    <3>3. \A u \in Threads : PlaceOK(u)'
      BY <2>3, PlacesWork
    <3> QED BY <3>2, <3>3 DEF PauseInv
  <2>4. CASE MasterStep
    <3>1. MasterOK'
      BY <2>4, MasterGoes, MasterPauses, MasterFilters, MasterPutsBack DEF MasterStep
    <3>2. Paused' /\ \A u \in Threads : PlaceOK(u)'
      BY <2>4, PausedMaster, PlacesMaster
    <3> QED BY <3>1, <3>2 DEF PauseInv
  <2> QED BY <1>3, <2>1, <2>2, <2>3, <2>4 DEF Step, MasterStep
<1> QED BY <1>1, <1>2, <1>3 DEF Next

LEMMA PauseInit == Init => PauseInv
<1> SUFFICES ASSUME Init PROVE PauseInv
  OBVIOUS
<1>1. Paused
  BY DEF Init, Paused
<1>2. ASSUME NEW t \in Threads PROVE PlaceOK(t)
  <2>1. call[t] = Outside /\ (t \in Workers => pc[t] = "wait" /\ after[t] = "served")
        /\ (t \in Handlers => pc[t] = "free" /\ after[t] = "free")
    BY Kinds DEF Init, QueueInit
  <2> QED BY <2>1 DEF PlaceOK, WorkerPlaces, HandlerPlaces
<1>3. MasterOK
  <2>1. pc[Master] = "free" /\ after[Master] = "free" /\ local.back = <<>>
    BY Kinds DEF Init
  <2> QED BY <2>1 DEF MasterOK
<1> QED BY <1>1, <1>2, <1>3 DEF PauseInv

LEMMA PausedIsQuiet == PauseInv => QuietWhileSuspended
BY DEF PauseInv, Paused, QuietWhileSuspended, At

-----------------------------------------------------------------------------
(* Draining: with the workers suspended nobody is in the middle of Push or     *)
(* Pop, so that the counter of each queue is the number of its items.         *)

\* While the workers are suspended no thread is in the middle of Push or Pop.
LEMMA AllOutside ==
  ASSUME PauseInv, nSuspend > 0, pc[Master] \notin {"scan", "count"}, NEW t \in Threads
  PROVE  call[t] = Outside
<1>1. PlaceOK(t)
  BY DEF PauseInv
<1>2. t \in Workers => pc[t] = "suspended"
  BY DEF PauseInv, Paused
<1>3. t \in Handlers => pc[t] \notin {"scan", "count"}
  BY <1>1 DEF PlaceOK, HandlerPlaces, Calling, Holding
<1> QED BY <1>1, <1>2, <1>3, Kinds DEF PlaceOK

\* Then the counter of a queue is the number of its items.
LEMMA CountsAll ==
  ASSUME QueueInv, \A t \in Threads : call[t] = Outside, NEW q \in Queues, NEW l \in Levels,
         queues[q][l] # <<>>
  PROVE  nItems[q] > 0
<1> DEFINE P == Positions(q, Top)
<1>1. Scanners(q, Top) = {} /\ Counters(q) = {}
  BY DifferentCalls DEF Scanners, Counters
<1>2. IsFiniteSet(P) /\ Cardinality(P) \in Nat /\ nItems[q] \in Nat
  BY TopLevel, FinitePositions DEF QueueInv, QueueTypeOK
<1>3. Cardinality(P) = nItems[q]
  <2>1. Cardinality(P) = nItems[q] + Cardinality({}) + Cardinality({})
    BY <1>1 DEF QueueInv, Balance
  <2>2. Cardinality({}) = 0
    BY FS_EmptySet
  <2> HIDE DEF P
  <2> QED BY <1>2, <2>1, <2>2
<1>4. <<l, 1>> \in P
  <2>1. queues[q][l] \in Seq(Jobs) /\ l <= Top
    BY TopLevel DEF QueueInv, QueueTypeOK
  <2> QED BY <2>1 DEF Positions
<1>5. Cardinality(P) # 0
  <2> HIDE DEF P
  <2> QED BY <1>2, <1>4, FS_EmptySet
<1> QED BY <1>2, <1>3, <1>5

LEMMA DrainFinds == PauseInv /\ QueueInv => DrainFindsJob
<1> SUFFICES ASSUME PauseInv, QueueInv, At(Master, "drain"), NEW q \in NextQueues PROVE nItems[q] > 0
  BY DEF DrainFindsJob
<1>1. pc[Master] = "drain" /\ nSuspend > 0
  BY DEF PauseInv, MasterOK, At
<1>2. q \in Queues /\ Urgent(q) # {}
  BY DEF NextQueues, Undrained
<1>3. PICK l \in Levels : Count(q, l) > 0
  BY <1>2 DEF Urgent
<1>4. queues[q][l] # <<>>
  BY <1>3 DEF Count
<1> QED BY <1>1, <1>2, <1>4, AllOutside, CountsAll

-----------------------------------------------------------------------------
\* A thread that holds the mutex of a job is in the middle of that job.
OwnerOK(j) == owner[j] # None => job[owner[j]] = j /\ pc[owner[j]] \in Holding
OwnerInv == \A j \in Jobs : OwnerOK(j)

\* A thread that holds no mutex and takes none moves.
LEMMA OwnersStay ==
  ASSUME JobInv, OwnerInv, UNCHANGED owner, NEW t \in Threads, pc[t] \notin Holding,
         pc' = [pc EXCEPT ![t] = pc'[t]], job' = [job EXCEPT ![t] = job'[t]]
  PROVE  OwnerInv'
<1> SUFFICES ASSUME NEW j \in Jobs, owner[j] # None PROVE job'[owner[j]] = j /\ pc'[owner[j]] \in Holding
  BY DEF OwnerInv, OwnerOK
<1>1. job[owner[j]] = j /\ pc[owner[j]] \in Holding /\ owner[j] \in Threads
  BY DEF OwnerInv, OwnerOK, JobInv, JobTypes
<1> QED BY <1>1 DEF JobInv, JobTypes

LEMMA OwnersServe ==
  ASSUME JobInv, OwnerInv, NEW t \in Threads, ServeJob(t) PROVE OwnerInv'
<1>1. job[t] \in Jobs /\ pc[t] \in Serving /\ UNCHANGED job /\ t # None
  BY Serves, NoneIsNoThread DEF JobInv, ThreadOK
<1>2. CASE UNCHANGED owner /\ pc[t] \notin Holding
  <2>1. pc' = [pc EXCEPT ![t] = pc'[t]]
    BY Serves DEF Goto, JobInv, JobTypes
  <2> QED BY <1>1, <1>2, <2>1, OwnersStay DEF JobInv, JobTypes
<1>3. CASE /\ pc[t] \notin Holding /\ owner' = [owner EXCEPT ![job[t]] = t] /\ \E l \in Holding : Goto(t, l)
  BY <1>1, <1>3 DEF OwnerInv, OwnerOK, JobInv, JobTypes, Goto
<1>4. CASE /\ pc[t] \in Holding /\ owner' = [owner EXCEPT ![job[t]] = None] /\ \E l : Goto(t, l)
  BY <1>1, <1>4 DEF OwnerInv, OwnerOK, JobInv, JobTypes, Goto
<1>5. CASE /\ UNCHANGED owner /\ \E l \in Holding : Goto(t, l)
  BY <1>1, <1>5 DEF OwnerInv, OwnerOK, JobInv, JobTypes, Goto
<1>6. CASE Check(t) \/ Call(t)
  BY <1>2, <1>6 DEF Check, Call, At, jobVars, Holding
<1>7. CASE TryLock(t)
  BY <1>2, <1>3, <1>7 DEF TryLock, At, Holding
<1>8. CASE Lock(t)
  BY <1>3, <1>8 DEF Lock, At, Holding, Goto
<1>9. CASE Unlock(t) \/ CleanUp(t)
  BY <1>4, <1>9 DEF Unlock, CleanUp, At, Holding
<1>10. CASE Execute(t) \/ Return(t)
  BY <1>5, <1>10 DEF Execute, Return, At, Holding
<1> QED BY <1>6, <1>7, <1>8, <1>9, <1>10 DEF ServeJob

LEMMA OwnersCall ==
  ASSUME JobInv, OwnerInv, NewCall PROVE OwnerInv'
<1>1. PICK t, l, r, S : t \in Clients /\ Starts(t, l, r, S)
  BY NewCalls
<1>2. t \in Threads /\ pc[t] \notin Holding /\ UNCHANGED owner /\ pc' = [pc EXCEPT ![t] = pc'[t]]
  BY <1>1, Kinds DEF Starts, Begin, At, Goto, Holding, JobInv, JobTypes
<1>3. job' = [job EXCEPT ![t] = job'[t]]
  BY <1>1, <1>2 DEF Starts, JobInv, JobTypes
<1> QED BY <1>2, <1>3, OwnersStay

LEMMA OwnersScan ==
  ASSUME JobInv, OwnerInv, NEW t \in Threads, Scan(t) PROVE OwnerInv'
<1>1. UNCHANGED owner /\ pc[t] \notin Holding
  BY DEF Scan, jobVars, At, Holding
<1>2. (UNCHANGED pc \/ \E l : Goto(t, l)) /\ (UNCHANGED job \/ \E x : job' = [job EXCEPT ![t] = x])
  BY DEF Scan
<1>3. pc' = [pc EXCEPT ![t] = pc'[t]] /\ job' = [job EXCEPT ![t] = job'[t]]
  BY <1>2 DEF Goto, JobInv, JobTypes
<1> QED BY <1>1, <1>3, OwnersStay

LEMMA OwnersWork ==
  ASSUME JobInv, OwnerInv, NEW t \in Workers, Work(t) PROVE OwnerInv'
<1>1. UNCHANGED <<owner, job>> /\ pc[t] \notin Holding /\ t \in Threads /\ \E l : Goto(t, l)
  BY Kinds DEF Work, Wake, PopDirect, PopShared, Served, Reply, SuspendSelf, Resumed, jobVars, At, Holding
<1>2. pc' = [pc EXCEPT ![t] = pc'[t]] /\ job' = [job EXCEPT ![t] = job'[t]]
  BY <1>1 DEF Goto, JobInv, JobTypes
<1> QED BY <1>1, <1>2, OwnersStay

LEMMA OwnersMaster ==
  ASSUME JobInv, OwnerInv, MasterStep PROVE OwnerInv'
<1>1. UNCHANGED <<owner, job>> /\ pc[Master] \notin Holding /\ Master \in Threads
      /\ (UNCHANGED pc \/ \E l : Goto(Master, l))
  BY Kinds DEF MasterStep, Counted, YieldWait, Unblock, CallWorker, WorkersSuspended, Drain, Filter, PutBack,
               AbortNext, ResumeExecution, jobVars, At, Holding
<1>2. pc' = [pc EXCEPT ![Master] = pc'[Master]] /\ job' = [job EXCEPT ![Master] = job'[Master]]
  BY <1>1 DEF Goto, JobInv, JobTypes
<1> QED BY <1>1, <1>2, OwnersStay

\* A step is one of these.
LEMMA Steps ==
  ASSUME NEW t \in Threads, Step(t)
  PROVE  ServeJob(t) \/ Scan(t) \/ (t \in Workers /\ Work(t)) \/ (t = Master /\ MasterStep)
BY DEF Step, MasterStep

LEMMA OwnersKeep == JobInv /\ OwnerInv /\ [Next]_vars => OwnerInv'
<1> SUFFICES ASSUME JobInv, OwnerInv, [Next]_vars PROVE OwnerInv'
  OBVIOUS
<1>1. CASE UNCHANGED vars
  <2>1. UNCHANGED <<owner, job, pc>>
    BY <1>1 DEF vars, threadVars, jobVars
  <2> QED BY <2>1 DEF OwnerInv, OwnerOK
<1>2. ASSUME NEW t \in Threads, Step(t) PROVE OwnerInv'
  BY <1>2, Steps, OwnersServe, OwnersScan, OwnersWork, OwnersMaster
<1> QED BY <1>1, <1>2, OwnersCall DEF Next

-----------------------------------------------------------------------------
\* What the clients wait for: the job is finished, or in the hands of a thread
\* that has its handle.
Done(j) == IsFinished(j) \/ owner[j] \in Handlers

\* What a step never undoes.
Lasts ==
  \A j \in Jobs :
    /\ IsFinished(j) => IsFinished(j)'
    /\ Done(j) => Done(j)'
    /\ status[j] # "unserviced" => status'[j] # "unserviced"
    /\ status'[j] \in {status[j], "ok", "aborted", "in progress"}
         \/ (status[j] = "unserviced" /\ status'[j] = "pending")

LEMMA LastsWithoutChange ==
  ASSUME JobInv, UNCHANGED <<status, owner>> PROVE Lasts
BY DEF Lasts, Done, IsFinished

\* A mutex is released when its job is finished.
LEMMA ReleasedFinished ==
  ASSUME JobInv, NEW t \in Threads, Unlock(t) \/ CleanUp(t) PROVE IsFinished(job[t])
<1>1. pc[t] \in {"execute", "abort", "clean up"}
  BY DEF Unlock, CleanUp, At
<1>2. pc[t] \in Holding
  BY <1>1 DEF Holding
<1>3. status[job[t]] \in Statuses /\ status[job[t]] # "in progress"
  BY <1>1, <1>2, Holder DEF JobInv, JobTypes
<1>4. CASE ~CanExecute(job[t])
  BY <1>3, <1>4 DEF Statuses, CanExecute, IsFinished
<1>5. CASE pc[t] = "clean up"
  BY <1>5, <1>2, Holder DEF ThreadOK
<1> QED BY <1>4, <1>5 DEF Unlock, CleanUp, At

LEMMA LastsServe ==
  ASSUME JobInv, OwnerInv, NEW t \in Threads, ServeJob(t) PROVE Lasts
<1>1. job[t] \in Jobs
  BY Serves DEF JobInv, ThreadOK
<1>2. CASE Check(t) \/ Call(t)
  BY <1>2, LastsWithoutChange DEF Check, Call, jobVars
<1>3. CASE TryLock(t) \/ Lock(t)
  <2>1. UNCHANGED status /\ (UNCHANGED owner \/ (owner[job[t]] = None /\ owner' = [owner EXCEPT ![job[t]] = t]))
    BY <1>3 DEF TryLock, Lock
  <2>2. \A j \in Jobs : owner[j] # None => owner'[j] = owner[j]
    BY <1>1, <2>1 DEF JobInv, JobTypes
  <2> QED BY <2>1, <2>2, NoneIsNoThread, Kinds DEF Lasts, Done, IsFinished
<1>4. CASE Unlock(t) \/ CleanUp(t)
  <2>1. UNCHANGED status /\ owner' = [owner EXCEPT ![job[t]] = None] /\ pc[t] \in {"execute", "abort", "clean up"}
    BY <1>4 DEF Unlock, CleanUp, At
  <2>2. IsFinished(job[t])
    BY <1>4, ReleasedFinished
  <2>3. \A j \in Jobs : owner'[j] = owner[j] \/ IsFinished(j)
    BY <1>1, <2>1, <2>2 DEF JobInv, JobTypes
  <2> QED BY <2>1, <2>3 DEF Lasts, Done, IsFinished
<1>5. CASE Execute(t) \/ Return(t)
  <2>1. PICK s \in {"in progress", "ok", "aborted"} : status' = [status EXCEPT ![job[t]] = s]
    BY <1>5 DEF Execute, Return
  <2>2. UNCHANGED owner
    BY <1>5 DEF Execute, Return
  <2>3. ~IsFinished(job[t])
    <3>1. CASE CanExecute(job[t])
      BY <3>1 DEF CanExecute, IsFinished
    <3>2. CASE pc[t] = "running"
      BY <3>2 DEF JobInv, ThreadOK, IsFinished
    <3> QED BY <1>5, <3>1, <3>2 DEF Execute, Return, At
  <2>4. \A j \in Jobs : status'[j] = status[j] \/ (j = job[t] /\ status'[j] = s)
    BY <1>1, <2>1 DEF JobInv, JobTypes
  <2> QED BY <2>1, <2>2, <2>3, <2>4 DEF Lasts, Done, IsFinished
<1> QED BY <1>2, <1>3, <1>4, <1>5 DEF ServeJob

LEMMA LastsCall ==
  ASSUME JobInv, NewCall PROVE Lasts
<1>1. CASE \E j \in Jobs : AddJob(j)
  <2>1. PICK j \in Jobs : AddJob(j)
    BY <1>1
  <2>2. status[j] = "unserviced" /\ UNCHANGED owner /\ (UNCHANGED status \/ status' = [status EXCEPT ![j] = "pending"])
    BY <2>1 DEF AddJob
  <2>3. \A k \in Jobs : status'[k] = status[k] \/ (status[k] = "unserviced" /\ status'[k] = "pending")
    BY <2>2 DEF JobInv, JobTypes
  <2> QED BY <2>2, <2>3 DEF Lasts, Done, IsFinished
<1>2. CASE UNCHANGED <<status, owner>>
  BY <1>2, LastsWithoutChange
<1> QED BY <1>1, <1>2 DEF NewCall, WaitForFinish, ChangePriority, UseHandle, ExecuteToPriority, Suspend, AbortAll,
                          SuspendExecution, jobVars

LEMMA StepLasts == JobInv /\ OwnerInv /\ [Next]_vars => Lasts
<1> SUFFICES ASSUME JobInv, OwnerInv, [Next]_vars PROVE Lasts
  OBVIOUS
<1>1. CASE UNCHANGED vars
  BY <1>1, LastsWithoutChange DEF vars, jobVars
<1>2. ASSUME NEW t \in Threads, Step(t) PROVE Lasts
  <2>1. CASE Scan(t) \/ (t \in Workers /\ Work(t)) \/ MasterStep
    <3>1. UNCHANGED <<status, owner>>
      BY <2>1 DEF Scan, Work, Wake, PopDirect, PopShared, Served, Reply, SuspendSelf, Resumed,
                  MasterStep, Counted, YieldWait, Unblock, CallWorker, WorkersSuspended, Drain, Filter, PutBack,
                  AbortNext, ResumeExecution, jobVars
    <3> QED BY <3>1, LastsWithoutChange
  <2> QED BY <1>2, <2>1, Steps, LastsServe
<1> QED BY <1>1, <1>2, LastsCall DEF Next

-----------------------------------------------------------------------------
(* A pending job is not lost: until somebody takes its mutex it is in a queue *)
(* at its priority, in the hands of a thread that took it, or among the jobs  *)
(* that the drain puts back.                                                 *)

In(s, x) == \E i \in 1..Len(s) : s[i] = x

\* Where a job is served on behalf of the pool: a client that has a job by its handle
\* does not count.
Hands      == Calling \cup {"filter", "check", "trylock"}
Hand(t, j) == job[t] = j /\ pc[t] \in Hands /\ after[t] # "free"

\* A pending job is in a queue, in somebody's hands or among those to be put back.
Somewhere(j) ==
  \/ \E q \in Queues : In(queues[q][priority[j]], j)
  \/ \E t \in Threads : Hand(t, j)
  \/ In(local.back, j)
InPlay(j) == status[j] = "pending" /\ owner[j] = None => Somewhere(j)
PlayInv   == \A j \in Jobs : InPlay(j)

LEMMA InAppend ==
  ASSUME NEW s \in Seq(Jobs), NEW y \in Jobs, NEW x
  PROVE  /\ In(s, x) => In(Append(s, y), x)
         /\ In(Append(s, y), y)
<1>1. Len(Append(s, y)) = Len(s) + 1 /\ Append(s, y)[Len(s) + 1] = y /\ Len(s) \in Nat
  OBVIOUS
<1>2. \A i \in 1..Len(s) : Append(s, y)[i] = s[i] /\ i \in 1..Len(Append(s, y))
  OBVIOUS
<1> QED BY <1>1, <1>2 DEF In

LEMMA InTail ==
  ASSUME NEW s \in Seq(Jobs), s # <<>>, NEW x, In(s, x)
  PROVE  x = Head(s) \/ In(Tail(s), x)
<1>1. PICK i \in 1..Len(s) : s[i] = x
  BY DEF In
<1>2. CASE i = 1
  BY <1>1, <1>2
<1>3. CASE i # 1
  <2>1. i - 1 \in 1..Len(Tail(s)) /\ Tail(s)[i - 1] = x
    BY <1>1, <1>3
  <2> QED BY <2>1 DEF In
<1> QED BY <1>2, <1>3

\* An entry stays in its queue unless Pop takes it.
LEMMA EntriesStay ==
  ASSUME QueueTypeOK, NEW t \in Threads, NEW q \in Queues, NEW l \in Levels, NEW x, In(queues[q][l], x),
         \/ UNCHANGED queueVars
         \/ \E r \in Queues, j \in Jobs, m \in Levels : PushItem(t, r, j, m)
         \/ CountItem(t) \/ (\E r : StartPop(t, r)) \/ LowerPriority(t)
  PROVE  In(queues'[q][l], x)
<1>1. CASE UNCHANGED queues
  BY <1>1
<1>2. ASSUME NEW r \in Queues, NEW j \in Jobs, NEW m \in Levels, PushItem(t, r, j, m) PROVE In(queues'[q][l], x)
  <2>1. queues[q][l] \in Seq(Jobs)
    BY DEF QueueTypeOK
  <2>2. queues'[q][l] = queues[q][l] \/ queues'[q][l] = Append(queues[q][l], j)
    BY <1>2 DEF PushItem, QueueTypeOK
  <2> QED BY <2>1, <2>2, InAppend
<1> QED BY <1>1, <1>2 DEF queueVars, CountItem, StartPop, LowerPriority

LEMMA EntryPushed ==
  ASSUME QueueTypeOK, NEW t, NEW q \in Queues, NEW j \in Jobs, NEW l \in Levels, PushItem(t, q, j, l)
  PROVE  In(queues'[q][l], j)
<1>1. queues[q][l] \in Seq(Jobs) /\ queues'[q][l] = Append(queues[q][l], j)
  BY DEF QueueTypeOK, PushItem
<1> QED BY <1>1, InAppend

LEMMA EntryPopped ==
  ASSUME QueueTypeOK, NEW t \in Threads, PopItem(t), NEW q \in Queues, NEW l \in Levels, NEW x, In(queues[q][l], x)
  PROVE  In(queues'[q][l], x) \/ x = Head(Scanned(t))
<1>1. queues[q][l] \in Seq(Jobs)
  BY DEF QueueTypeOK
<1>2. CASE queues'[q][l] = queues[q][l]
  BY <1>2
<1>3. CASE queues'[q][l] # queues[q][l]
  <2>1. call[t].queue = q /\ call[t].level = l /\ queues'[q][l] = Tail(queues[q][l])
    BY <1>3 DEF PopItem, QueueTypeOK
  <2>2. Scanned(t) = queues[q][l] /\ queues[q][l] # <<>>
    BY <2>1 DEF Scanned, PopItem, FoundItem
  <2> QED BY <1>1, <2>1, <2>2, InTail
<1> QED BY <1>2, <1>3

\* A step of one thread leaves the job where it is, unless it was in that thread's hands.
LEMMA OtherHands ==
  ASSUME JobInv, NEW t \in Threads, NEW u \in Threads, u # t, NEW j, Hand(u, j), after'[u] = after[u],
         UNCHANGED pc \/ (\E l : Goto(t, l)), UNCHANGED job \/ \E x : job' = [job EXCEPT ![t] = x]
  PROVE  Hand(u, j)'
<1>1. pc'[u] = pc[u] /\ job'[u] = job[u]
  BY DEF JobInv, JobTypes, Goto
<1> QED BY <1>1 DEF Hand

LEMMA PlayServe ==
  ASSUME JobInv, PlayInv, NEW t \in Threads, ServeJob(t) PROVE PlayInv'
<1> SUFFICES ASSUME NEW j \in Jobs, status'[j] = "pending", owner'[j] = None PROVE Somewhere(j)'
  BY DEF PlayInv, InPlay
<1>1. job[t] \in Jobs /\ UNCHANGED <<queues, priority, local, after, job>> /\ (\E l : Goto(t, l)) /\ t # None
  BY Serves, NoneIsNoThread DEF JobInv, ThreadOK, queueVars, callVars
<1>2. status[j] = "pending" /\ owner[j] = None
  <2>1. CASE Check(t) \/ Call(t)
    BY <2>1 DEF Check, Call, jobVars
  <2>2. CASE TryLock(t) \/ Lock(t)
    <3>1. UNCHANGED status /\ (UNCHANGED owner \/ owner' = [owner EXCEPT ![job[t]] = t])
      BY <2>2 DEF TryLock, Lock
    <3> QED BY <1>1, <3>1 DEF JobInv, JobTypes
  <2>3. CASE Unlock(t) \/ CleanUp(t)
    <3>1. UNCHANGED status /\ owner' = [owner EXCEPT ![job[t]] = None] /\ IsFinished(job[t])
      BY <2>3, ReleasedFinished DEF Unlock, CleanUp
    <3> QED BY <1>1, <3>1 DEF JobInv, JobTypes, IsFinished
  <2>4. CASE Execute(t) \/ Return(t)
    <3>1. UNCHANGED owner /\ \E s \in {"in progress", "ok", "aborted"} : status' = [status EXCEPT ![job[t]] = s]
      BY <2>4 DEF Execute, Return
    <3> QED BY <1>1, <3>1 DEF JobInv, JobTypes
  <2> QED BY <2>1, <2>2, <2>3, <2>4 DEF ServeJob
<1>3. Somewhere(j)
  BY <1>2 DEF PlayInv, InPlay
<1>4. CASE Hand(t, j)
  <2>1. job[t] = j /\ pc[t] \in Hands
    BY <1>4 DEF Hand
  <2>2. CASE Check(t) \/ Call(t)
    <3>1. ~IsFinished(job[t])
      BY <1>2, <2>1 DEF IsFinished
    <3>2. pc'[t] \in {"trylock", "lock execute", "lock abort"}
      BY <2>2, <3>1 DEF Check, Call, Goto, JobInv, JobTypes, At
    <3>3. Hand(t, j)'
      BY <1>1, <1>4, <3>2 DEF Hand, Hands, Calling
    <3> QED BY <3>3 DEF Somewhere
  <2>3. CASE TryLock(t) \/ Lock(t)
    <3>1. owner' = [owner EXCEPT ![job[t]] = t]
      BY <1>2, <2>1, <2>3 DEF TryLock, Lock
    <3>2. owner'[j] = t
      BY <1>1, <2>1, <3>1 DEF JobInv, JobTypes
    <3> QED BY <1>1, <3>2
  <2>4. CASE Unlock(t) \/ CleanUp(t) \/ Execute(t) \/ Return(t)
    BY <2>1, <2>4 DEF Unlock, CleanUp, Execute, Return, At, Hands, Calling
  <2> QED BY <2>2, <2>3, <2>4 DEF ServeJob
<1>5. ASSUME NEW u \in Threads, u # t, Hand(u, j) PROVE Hand(u, j)'
  BY <1>1, <1>5, OtherHands
<1> QED BY <1>1, <1>3, <1>4, <1>5 DEF Somewhere

\* A step that changes no job, pops nothing and keeps what is to be put back.
LEMMA PlayStays ==
  ASSUME JobInv, PlayInv, QueueTypeOK, NEW t \in Threads, UNCHANGED <<status, owner, priority>>,
         pc[t] \notin Hands, local'.back = local.back, \A u \in Threads \ {t} : after'[u] = after[u],
         UNCHANGED pc \/ (\E l : Goto(t, l)), UNCHANGED job \/ \E x : job' = [job EXCEPT ![t] = x],
         \/ UNCHANGED queueVars
         \/ \E r \in Queues, j \in Jobs, m \in Levels : PushItem(t, r, j, m)
         \/ CountItem(t) \/ (\E r : StartPop(t, r)) \/ LowerPriority(t)
  PROVE  PlayInv'
<1> SUFFICES ASSUME NEW j \in Jobs, status[j] = "pending", owner[j] = None PROVE Somewhere(j)'
  BY DEF PlayInv, InPlay
<1>1. Somewhere(j)
  BY DEF PlayInv, InPlay
<1>2. ASSUME NEW q \in Queues, In(queues[q][priority[j]], j) PROVE In(queues'[q][priority'[j]], j)
  BY <1>2, EntriesStay DEF JobInv, JobTypes
<1>3. ASSUME NEW u \in Threads, Hand(u, j) PROVE Hand(u, j)'
  <2>1. u # t
    BY <1>3 DEF Hand
  <2> QED BY <1>3, <2>1, OtherHands
<1> QED BY <1>1, <1>2, <1>3 DEF Somewhere

LEMMA PlayScan ==
  ASSUME JobInv, PauseInv, PlayInv, QueueTypeOK, NEW t \in Threads, Scan(t) PROVE PlayInv'
<1>1. pc[t] = "scan" /\ UNCHANGED <<status, owner, priority, after, local>>
  BY DEF Scan, At, jobVars, callVars
<1>2. CASE LowerPriority(t) /\ UNCHANGED <<pc, job>>
  BY <1>1, <1>2, PlayStays DEF Hands, Calling
<1>3. CASE PopItem(t) /\ job' = [job EXCEPT ![t] = Head(Scanned(t))] /\ Goto(t, Taken(t))
  <2> SUFFICES ASSUME NEW j \in Jobs, status[j] = "pending", owner[j] = None PROVE Somewhere(j)'
    BY <1>1 DEF PlayInv, InPlay
  <2>1. Somewhere(j)
    BY DEF PlayInv, InPlay
  <2>2. after[t] # "free"
    <3>1. PlaceOK(t) /\ MasterOK
      BY DEF PauseInv
    <3>2. t \notin Handlers
      BY <1>1, <3>1 DEF PlaceOK, HandlerPlaces, Calling, Holding
    <3>3. t = Master => after[t] # "free"
      BY <1>1, <3>1 DEF MasterOK
    <3>4. t \in Workers => after[t] = "served"
      BY <3>1 DEF PlaceOK
    <3> QED BY <3>2, <3>3, <3>4, Kinds
  <2>3. ASSUME NEW q \in Queues, In(queues[q][priority[j]], j) PROVE In(queues'[q][priority'[j]], j) \/ Hand(t, j)'
    <3>1. In(queues'[q][priority'[j]], j) \/ j = Head(Scanned(t))
      BY <1>1, <1>3, <2>3, EntryPopped DEF JobInv, JobTypes
    <3>2. Taken(t) \in Hands
      BY DEF Taken, Hands, Calling
    <3>3. pc'[t] = Taken(t) /\ job'[t] = Head(Scanned(t))
      BY <1>3 DEF JobInv, JobTypes, Goto
    <3> QED BY <1>1, <2>2, <3>1, <3>2, <3>3 DEF Hand
  <2>4. ASSUME NEW u \in Threads, Hand(u, j) PROVE Hand(u, j)'
    <3>1. u # t
      BY <1>1, <2>4 DEF Hand, Hands, Calling
    <3> QED BY <1>1, <1>3, <2>4, <3>1, OtherHands
  <2> QED BY <1>1, <2>1, <2>3, <2>4 DEF Somewhere
<1> QED BY <1>2, <1>3 DEF Scan

LEMMA PlayWork ==
  ASSUME JobInv, PlayInv, QueueTypeOK, NEW t \in Workers, Work(t) PROVE PlayInv'
<1>1. UNCHANGED <<status, owner, priority, after, job, local>> /\ t \in Threads /\ \E l : Goto(t, l)
  BY Kinds DEF Work, Wake, PopDirect, PopShared, Served, Reply, SuspendSelf, Resumed, jobVars, callVars
<1>2. pc[t] \notin Hands
  BY DEF Work, Wake, PopDirect, PopShared, Served, Reply, SuspendSelf, Resumed, At, Hands, Calling
<1>3. UNCHANGED queueVars \/ \E q : StartPop(t, q)
  BY DEF Work, Wake, PopDirect, PopShared, Served, Reply, SuspendSelf, Resumed
<1> QED BY <1>1, <1>2, <1>3, PlayStays

\* The master keeps a job that the filter refuses, if it is to be put back.
LEMMA PlayFilter ==
  ASSUME JobInv, PlayInv, Filter PROVE PlayInv'
<1> SUFFICES ASSUME NEW j \in Jobs, status[j] = "pending", owner[j] = None PROVE Somewhere(j)'
  BY DEF PlayInv, InPlay, Filter, jobVars
<1>1. Somewhere(j) /\ Master \in Threads /\ local \in Locals
  BY Kinds DEF PlayInv, InPlay, JobInv
<1>2. pc[Master] = "filter" /\ UNCHANGED <<queues, priority, after, job>> /\ (\E l : Goto(Master, l))
      /\ job[Master] \in Jobs /\ local.back \in Seq(Jobs)
  BY <1>1 DEF Filter, At, queueVars, jobVars, JobInv, ThreadOK, Serving, Locals
<1>3. In(local.back, j) => In(local'.back, j)
  <2>1. CASE UNCHANGED local
    BY <2>1
  <2>2. CASE local' = [local EXCEPT !.back = Append(@, job[Master])]
    <3>1. local'.back = Append(local.back, job[Master])
      BY <1>1, <2>2 DEF Locals
    <3> QED BY <1>2, <3>1, InAppend
  <2> QED BY <2>1, <2>2 DEF Filter
<1>4. CASE Hand(Master, j)
  <2>1. job[Master] = j /\ CanExecute(j)
    BY <1>4 DEF Hand, CanExecute
  <2>2. CASE j \in local.accepted
    <3>1. pc'[Master] = "check"
      BY <1>1, <2>1, <2>2 DEF Filter, Goto, JobInv, JobTypes
    <3>2. Hand(Master, j)'
      BY <1>2, <1>4, <3>1 DEF Hand, Hands
    <3> QED BY <1>1, <3>2 DEF Somewhere
  <2>3. CASE j \notin local.accepted
    <3>1. local' = [local EXCEPT !.back = Append(@, j)]
      BY <2>1, <2>3 DEF Filter
    <3>2. local'.back = Append(local.back, j)
      BY <1>1, <3>1 DEF Locals
    <3>3. In(local'.back, j)
      BY <1>2, <3>2, InAppend
    <3> QED BY <3>3 DEF Somewhere
  <2> QED BY <2>2, <2>3
<1>5. ASSUME NEW u \in Threads, u # Master, Hand(u, j) PROVE Hand(u, j)'
  BY <1>1, <1>2, <1>5, OtherHands
<1> QED BY <1>1, <1>2, <1>3, <1>4, <1>5 DEF Somewhere

LEMMA PlayPutBack ==
  ASSUME JobInv, PlayInv, QueueTypeOK, PutBack PROVE PlayInv'
<1>1. /\ Master \in Threads /\ local \in Locals /\ local.back \in Seq(Jobs) /\ pc[Master] \notin Hands
      /\ UNCHANGED <<status, owner, priority, job>> /\ (\E l : Goto(Master, l))
      /\ after' = [after EXCEPT ![Master] = "put back"]
  BY Kinds DEF PutBack, At, Hands, Calling, JobInv, Locals, jobVars
<1>2. \A u \in Threads \ {Master} : after'[u] = after[u]
  BY <1>1 DEF JobInv, JobTypes
<1>3. CASE UNCHANGED <<queueVars, local>>
  BY <1>1, <1>2, <1>3, PlayStays
<1>4. CASE local.back # <<>>
  <2> DEFINE h == Head(local.back)
  <2>1. h \in Jobs
    <3>1. local.back \in Seq(Jobs)
      BY <1>1
    <3> QED BY <1>4, <3>1
  <2>2. priority[h] \in Levels /\ QueueOf(h) \in Queues
    BY <2>1, Actors DEF JobInv, JobTypes
  <2>3. PushItem(Master, QueueOf(h), h, priority[h]) /\ local'.back = Tail(local.back)
    BY <1>1, <1>4 DEF PutBack, Locals
  <2> HIDE DEF h
  <2>4. ASSUME NEW j \in Jobs, status[j] = "pending", owner[j] = None PROVE Somewhere(j)'
    <3>1. Somewhere(j)
      BY <2>4 DEF PlayInv, InPlay
    <3>2. CASE In(local.back, j)
      <4>1. j = h \/ In(local'.back, j)
        BY <1>1, <1>4, <2>3, <3>2, InTail DEF h
      <4>2. In(queues'[QueueOf(h)][priority[h]], h)
        BY <2>1, <2>2, <2>3, EntryPushed
      <4> QED BY <1>1, <2>2, <4>1, <4>2 DEF Somewhere
    <3>3. ASSUME NEW q \in Queues, In(queues[q][priority[j]], j) PROVE In(queues'[q][priority'[j]], j)
      <4>1. priority[j] \in Levels /\ priority' = priority
        BY <1>1 DEF JobInv, JobTypes
      <4>2. In(queues'[q][priority[j]], j)
        BY <1>1, <2>1, <2>2, <2>3, <3>3, <4>1, EntriesStay
      <4> QED BY <4>1, <4>2
    <3>4. ASSUME NEW u \in Threads, Hand(u, j) PROVE Hand(u, j)'
      <4>1. u # Master
        BY <1>1, <3>4 DEF Hand
      <4> QED BY <1>1, <1>2, <3>4, <4>1, OtherHands
    <3> QED BY <3>1, <3>2, <3>3, <3>4 DEF Somewhere
  <2> QED BY <1>1, <2>4 DEF PlayInv, InPlay
<1> QED BY <1>3, <1>4 DEF PutBack

LEMMA PlayMaster ==
  ASSUME JobInv, PlayInv, QueueTypeOK, MasterStep PROVE PlayInv'
<1>1. CASE Counted \/ YieldWait \/ Unblock \/ CallWorker \/ WorkersSuspended \/ Drain \/ AbortNext \/ ResumeExecution
  <2>1. /\ Master \in Threads /\ pc[Master] \notin Hands /\ UNCHANGED <<status, owner, priority, job, after>>
        /\ UNCHANGED pc \/ \E l : Goto(Master, l)
    BY <1>1, Kinds DEF Counted, YieldWait, Unblock, CallWorker, WorkersSuspended, Drain, AbortNext,
                       ResumeExecution, At, Hands, Calling, jobVars
  <2>2. local'.back = local.back
    BY <1>1 DEF Counted, YieldWait, Unblock, CallWorker, WorkersSuspended, Drain, AbortNext,
                ResumeExecution, callVars, JobInv, Locals
  <2>3. UNCHANGED queueVars \/ CountItem(Master) \/ \E q : StartPop(Master, q)
    BY <1>1 DEF Counted, YieldWait, Unblock, CallWorker, WorkersSuspended, Drain, AbortNext, ResumeExecution
  <2> QED BY <2>1, <2>2, <2>3, PlayStays
<1> QED BY <1>1, PlayFilter, PlayPutBack DEF MasterStep

\* A call of the master that raises the priority of a job, or sets it, queues the job.
LEMMA PlayQueued ==
  ASSUME JobInv, PlayInv, QueueTypeOK, NEW j \in Jobs, NEW q \in Queues, NEW l \in Levels,
         PushItem(Master, q, j, l), priority' = [priority EXCEPT ![j] = l],
         UNCHANGED <<owner, job, local>>, \A k \in Jobs \ {j} : status'[k] = status[k],
         Begin(Master, "count", "free", {})
  PROVE  PlayInv'
<1> SUFFICES ASSUME NEW k \in Jobs, status'[k] = "pending", owner[k] = None PROVE Somewhere(k)'
  BY DEF PlayInv, InPlay
<1>1. Master \in Threads /\ pc[Master] = "free" /\ Goto(Master, "count") /\ after' = [after EXCEPT ![Master] = "free"]
  BY Kinds DEF Begin, At
<1>2. CASE k = j
  <2>1. In(queues'[q][l], j)
    BY EntryPushed
  <2>2. priority'[k] = l
    BY <1>2 DEF JobInv, JobTypes
  <2> QED BY <1>2, <2>1, <2>2 DEF Somewhere
<1>3. CASE k # j
  <2>1. Somewhere(k) /\ priority'[k] = priority[k] /\ priority[k] \in Levels
    BY <1>3 DEF PlayInv, InPlay, JobInv, JobTypes
  <2>2. ASSUME NEW r \in Queues, In(queues[r][priority[k]], k) PROVE In(queues'[r][priority'[k]], k)
    BY <1>1, <2>1, <2>2, EntriesStay
  <2>3. ASSUME NEW u \in Threads, Hand(u, k) PROVE Hand(u, k)'
    <3>1. u # Master
      BY <1>1, <2>3 DEF Hand, Hands, Calling
    <3>2. after'[u] = after[u]
      BY <1>1, <3>1 DEF JobInv, JobTypes
    <3> QED BY <1>1, <2>3, <3>1, <3>2, OtherHands
  <2> QED BY <2>1, <2>2, <2>3 DEF Somewhere
<1> QED BY <1>2, <1>3

LEMMA PlayCall ==
  ASSUME JobInv, PlayInv, QueueTypeOK, NewCall PROVE PlayInv'
<1>1. ASSUME NEW j \in Jobs, AddJob(j) PROVE PlayInv'
  <2>1. CASE /\ Begin(Master, "count", "free", {}) /\ status' = [status EXCEPT ![j] = "pending"]
             /\ priority' = [priority EXCEPT ![j] = IF j \in IO THEN @ ELSE Top]
             /\ PushItem(Master, QueueOf(j), j, priority'[j]) /\ UNCHANGED job
    <3>1. priority'[j] \in Levels /\ QueueOf(j) \in Queues /\ priority' = [priority EXCEPT ![j] = priority'[j]]
      BY <2>1, TopLevel, Actors DEF JobInv, JobTypes
    <3>2. \A k \in Jobs \ {j} : status'[k] = status[k]
      BY <2>1 DEF JobInv, JobTypes
    <3>3. UNCHANGED <<owner, local>>
      BY <1>1 DEF AddJob
    <3> QED BY <2>1, <3>1, <3>2, <3>3, PlayQueued
  <2>2. CASE /\ Begin(Master, "call execute", "free", {j}) /\ UNCHANGED <<queueVars, status, priority>>
             /\ job' = [job EXCEPT ![Master] = j]
    <3>1. Master \in Threads /\ pc[Master] = "free" /\ Goto(Master, "call execute") /\ UNCHANGED <<owner, local>>
          /\ after' = [after EXCEPT ![Master] = "free"]
      BY <1>1, <2>2, Kinds DEF AddJob, Begin, At
    <3>2. pc[Master] \notin Hands /\ \A u \in Threads \ {Master} : after'[u] = after[u]
      BY <3>1 DEF Hands, Calling, JobInv, JobTypes
    <3> QED BY <2>2, <3>1, <3>2, PlayStays
  <2> QED BY <1>1, <2>1, <2>2 DEF AddJob
<1>2. ASSUME NEW j \in Jobs, NEW l \in Levels, ChangePriority(j, l) PROVE PlayInv'
  BY <1>2, PlayQueued, Actors DEF ChangePriority
<1>3. CASE UNCHANGED <<queueVars, status, owner, priority>>
  <2>1. PICK t, l, r, S : t \in Clients /\ Starts(t, l, r, S)
    BY NewCalls
  <2>2. t \in Threads /\ pc[t] = "free" /\ Goto(t, l) /\ after' = [after EXCEPT ![t] = r] /\ local'.back = local.back
        /\ \E x : job' = [job EXCEPT ![t] = x]
    BY <2>1, Kinds DEF Starts, Begin, At
  <2>3. pc[t] \notin Hands /\ \A u \in Threads \ {t} : after'[u] = after[u]
    BY <2>2 DEF Hands, Calling, JobInv, JobTypes
  <2> QED BY <1>3, <2>2, <2>3, PlayStays
<1>4. CASE \E j \in Jobs : AddJob(j) \/ WaitForFinish(j) \/ \E l \in Levels : ChangePriority(j, l)
  <2>1. ASSUME NEW j \in Jobs, WaitForFinish(j) PROVE UNCHANGED <<queueVars, status, owner, priority>>
    BY <2>1 DEF WaitForFinish, jobVars
  <2> QED BY <1>1, <1>2, <1>3, <1>4, <2>1
<1>5. CASE \E t \in Clients, j \in Jobs, how \in {"call execute", "call abort"} : UseHandle(t, j, how)
  BY <1>3, <1>5 DEF UseHandle, jobVars
<1>6. CASE (\E l \in Levels, S \in {Jobs, Serial} : ExecuteToPriority(l, S)) \/ Suspend \/ AbortAll
  BY <1>3, <1>6 DEF ExecuteToPriority, Suspend, AbortAll, SuspendExecution, jobVars
<1> QED BY <1>4, <1>5, <1>6 DEF NewCall

LEMMA PlayStep == JobInv /\ PauseInv /\ PlayInv /\ QueueTypeOK /\ [Next]_vars => PlayInv'
<1> SUFFICES ASSUME JobInv, PauseInv, PlayInv, QueueTypeOK, [Next]_vars PROVE PlayInv'
  OBVIOUS
<1>1. CASE UNCHANGED vars
  <2>1. UNCHANGED <<status, owner, priority, queues, pc, after, job, local>>
    BY <1>1 DEF vars, threadVars, jobVars, queueVars, callVars
  <2> QED BY <2>1 DEF PlayInv, InPlay, Somewhere, Hand, In
<1>2. ASSUME NEW t \in Threads, Step(t) PROVE PlayInv'
  BY <1>2, Steps, PlayServe, PlayScan, PlayWork, PlayMaster
<1> QED BY <1>1, <1>2, PlayCall DEF Next

-----------------------------------------------------------------------------
(* Promises: the jobs that a call is to finish, at every place of the call.   *)

\* What is true of a job that the call of client t is to finish.
Kept(t, j) ==
  LET l == pc[t]
      a == after[t]
  IN
  /\ a \in {"drain", "abort all"} => status[j] # "unserviced"
  /\ a = "free" => IsFinished(j) \/ (job[t] = j /\ l \in Calling \cup Holding)
  /\ a = "yield" => IsFinished(j) \/ (j = local.waited /\ l # "free")
  /\ a = "drain" /\ l # "put back" => j \in local.accepted /\ priority[j] >= local.to
  /\ l = "put back" \/ a = "put back" => Done(j)
  /\ a = "abort all" /\ l \in {"resume", "free"} => Done(j)

PromiseInv ==
  /\ promised \in [Clients -> SUBSET Jobs]
  /\ \A t \in Clients : \A j \in promised[t] : Kept(t, j)

CallInv == PauseInv /\ OwnerInv /\ PlayInv /\ PromiseInv

LEMMA KeptRests ==
  ASSUME PauseInv, Lasts, NEW t \in Clients, NEW j \in Jobs, Kept(t, j),
         pc'[t] = pc[t], after'[t] = after[t], job'[t] = job[t],
         t = Master => UNCHANGED <<local, priority>>
  PROVE  Kept(t, j)'
<1>1. t \in Handlers => after[t] = "free" /\ pc[t] # "put back"
  BY Kinds DEF PauseInv, PlaceOK, HandlerPlaces, Calling, Holding
<1>2. (IsFinished(j) => IsFinished(j)') /\ (Done(j) => Done(j)') /\ (status[j] # "unserviced" => status'[j] # "unserviced")
  BY DEF Lasts
<1> QED BY <1>1, <1>2, Kinds DEF Kept

LEMMA KeptServe ==
  ASSUME JobInv, PauseInv, Lasts, NEW t \in Clients, NEW j \in Jobs, Kept(t, j), ServeJob(t)
  PROVE  Kept(t, j)'
<1>1. t \in Threads /\ UNCHANGED <<priority, after, job, local>> /\ pc[t] \in Serving
  BY Serves, Kinds DEF callVars
<1>2. (IsFinished(j) => IsFinished(j)') /\ (Done(j) => Done(j)') /\ (status[j] # "unserviced" => status'[j] # "unserviced")
  BY DEF Lasts
<1>3. PICK l : GoesOn(t, l) /\ pc'[t] = l
  <2>1. PICK l : GoesOn(t, l) /\ Goto(t, l)
    BY <1>1, Serves
  <2>2. pc'[t] = l
    BY <1>1, <2>1 DEF Goto, JobInv, JobTypes
  <2> QED BY <2>1, <2>2
<1>4. l \in {after[t], "trylock", "lock execute", "lock abort"} \cup Holding
  BY <1>3 DEF GoesOn
<1>5. after[t] = "free" => IsFinished(j)' \/ (job[t] = j /\ l \in Calling \cup Holding)
  <2> SUFFICES ASSUME job[t] = j, pc[t] \in Calling \cup Holding, ~IsFinished(j)
               PROVE  IsFinished(j)' \/ l \in Calling \cup Holding
    BY <1>2 DEF Kept
  <2>1. CASE Call(t)
    BY <1>1, <1>3, <2>1 DEF Call, Goto, At, Calling, JobInv, JobTypes
  <2>2. CASE Check(t) \/ TryLock(t)
    BY <2>2 DEF Check, TryLock, At, Calling, Holding
  <2>3. CASE Lock(t) \/ Execute(t) \/ Return(t)
    BY <1>1, <1>3, <2>3 DEF Lock, Execute, Return, Goto, Holding, JobInv, JobTypes
  <2>4. CASE Unlock(t) \/ CleanUp(t)
    BY <1>1, <2>4, ReleasedFinished
  <2> QED BY <2>1, <2>2, <2>3, <2>4 DEF ServeJob
<1>6. pc[t] # "put back" /\ l # "resume" /\ (l \in {"free", "put back"} => l = after[t])
  <2>1. l # "resume" \/ l = after[t]
    BY <1>4 DEF Holding
  <2>2. after[t] # "resume"
    BY <1>1 DEF JobInv, JobTypes, Returns
  <2> QED BY <1>1, <1>4, <2>1, <2>2 DEF Serving, Holding
<1>7. after[t] = "put back" => Done(j)
  BY DEF Kept
<1>8. pc'[t] = l /\ after'[t] = after[t] /\ job'[t] = job[t] /\ local' = local /\ priority' = priority
  BY <1>1, <1>3
<1>9. after[t] = "yield" => IsFinished(j)' \/ (j = local.waited /\ l # "free")
  BY <1>2, <1>6 DEF Kept
<1>10. after[t] = "drain" => j \in local.accepted /\ priority[j] >= local.to
  BY <1>6 DEF Kept
<1>11. after[t] \in {"drain", "abort all"} => status'[j] # "unserviced"
  BY <1>2 DEF Kept
<1>12. l = "put back" \/ after[t] = "put back" => Done(j)'
  BY <1>2, <1>6, <1>7
<1>13. ~(after[t] = "abort all" /\ l \in {"resume", "free"})
  BY <1>6
<1> HIDE <1>1, <1>3
<1> QED BY <1>5, <1>8, <1>9, <1>10, <1>11, <1>12, <1>13 DEF Kept

LEMMA KeptScan ==
  ASSUME JobInv, PauseInv, Lasts, NEW j \in Jobs, Kept(Master, j), Scan(Master)
  PROVE  Kept(Master, j)'
<1>1. /\ pc[Master] = "scan" /\ UNCHANGED <<status, owner, priority, after, local>>
      /\ pc'[Master] = "scan" \/ pc'[Master] = Taken(Master)
  BY Kinds DEF Scan, At, jobVars, callVars, JobInv, JobTypes, Goto
<1>2. after[Master] # "free" /\ after[Master] # "put back"
  BY <1>1 DEF PauseInv, MasterOK
<1>3. pc'[Master] \in {"scan", "filter", "call abort", "check"}
  BY <1>1 DEF Taken
<1>4. IsFinished(j)' = IsFinished(j)
  BY <1>1 DEF IsFinished
<1> QED BY <1>1, <1>2, <1>3, <1>4 DEF Kept

\* The job is no longer in the queues that the master has emptied, and the workers are
\* suspended: it is finished or with the holder of a handle.
LEMMA NoneLeft ==
  ASSUME JobInv, PauseInv, OwnerInv, PlayInv, nSuspend > 0, pc[Master] \in {"drain", "abort all"},
         NEW j \in Jobs, status[j] # "unserviced", \A q \in Queues : ~In(queues[q][priority[j]], j),
         ~In(local.back, j)
  PROVE  Done(j)
<1>1. \A w \in Workers : pc[w] = "suspended"
  BY DEF PauseInv, Paused
<1>2. CASE owner[j] # None
  <2>1. owner[j] \in Threads /\ pc[owner[j]] \in Holding
    BY <1>2 DEF OwnerInv, OwnerOK, JobInv, JobTypes
  <2>2. owner[j] \notin Workers /\ owner[j] # Master
    BY <1>1, <2>1 DEF Holding
  <2> QED BY <2>1, <2>2, Kinds DEF Done
<1>3. CASE owner[j] = None
  <2>1. status[j] # "in progress"
    BY <1>3, NoneIsNoThread DEF JobInv, JobOK
  <2>2. CASE status[j] = "pending"
    <3>1. PICK t \in Threads : Hand(t, j)
      BY <1>3, <2>2 DEF PlayInv, InPlay, Somewhere
    <3>2. t \notin Workers /\ t # Master
      BY <1>1, <3>1 DEF Hand, Hands, Calling
    <3>3. after[t] = "free"
      BY <3>1, <3>2, Kinds DEF PauseInv, PlaceOK
    <3> QED BY <3>1, <3>3 DEF Hand
  <2> QED BY <2>1, <2>2 DEF JobInv, JobTypes, Statuses, Done, IsFinished
<1> QED BY <1>2, <1>3

LEMMA KeptDrain ==
  ASSUME JobInv, PauseInv, OwnerInv, PlayInv, Lasts, NEW j \in Jobs, Kept(Master, j), Drain
  PROVE  Kept(Master, j)'
<1>1. pc[Master] = "drain" /\ after[Master] = "drain" /\ nSuspend > 0
  BY DEF Drain, At, PauseInv, MasterOK
<1>2. UNCHANGED <<status, owner, priority, after, local>> /\ IsFinished(j)' = IsFinished(j) /\ Done(j)' = Done(j)
  BY DEF Drain, jobVars, callVars, IsFinished, Done
<1>3. j \in local.accepted /\ priority[j] >= local.to /\ status[j] # "unserviced"
  BY <1>1 DEF Kept
<1>4. CASE pc'[Master] = "scan"
  BY <1>1, <1>2, <1>3, <1>4 DEF Kept
<1>5. CASE pc'[Master] = "put back" /\ Undrained = {}
  <2>1. ASSUME NEW q \in Queues PROVE ~In(queues[q][priority[j]], j)
    <3>1. Urgent(q) = {} /\ priority[j] \in Levels
      BY <1>5 DEF Undrained, JobInv, JobTypes
    <3>2. ~(Len(queues[q][priority[j]]) > 0)
      BY <1>3, <3>1 DEF Urgent, Count
    <3> QED BY <3>2 DEF In
  <2>2. ~In(local.back, j)
    BY <1>1, <1>3 DEF PauseInv, MasterOK, In
  <2>3. Done(j)
    BY <1>1, <1>3, <2>1, <2>2, NoneLeft
  <2> QED BY <1>1, <1>2, <1>3, <1>5, <2>3 DEF Kept
<1> QED BY <1>4, <1>5, Kinds DEF Drain, Goto, JobInv, JobTypes

LEMMA KeptAbortNext ==
  ASSUME JobInv, QueueInv, PauseInv, OwnerInv, PlayInv, Lasts, NEW j \in Jobs, Kept(Master, j), AbortNext
  PROVE  Kept(Master, j)'
<1>1. pc[Master] = "abort all" /\ after[Master] = "abort all" /\ nSuspend > 0
  BY DEF AbortNext, At, PauseInv, MasterOK
<1>2. UNCHANGED <<status, owner, priority, after, local>> /\ IsFinished(j)' = IsFinished(j) /\ Done(j)' = Done(j)
  BY DEF AbortNext, jobVars, callVars, IsFinished, Done
<1>3. status[j] # "unserviced"
  BY <1>1 DEF Kept
<1>4. CASE pc'[Master] = "scan"
  BY <1>1, <1>2, <1>3, <1>4 DEF Kept
<1>5. CASE pc'[Master] = "resume" /\ nItems[Shared] = 0 /\ \A w \in Workers : nItems[w] = 0
  <2>1. ASSUME NEW q \in Queues PROVE ~In(queues[q][priority[j]], j)
    <3>1. nItems[q] = 0 /\ priority[j] \in Levels
      BY <1>5, PoolAssumption DEF JobInv, JobTypes
    <3>2. \A t \in Threads : call[t] = Outside
      BY <1>1, AllOutside
    <3>3. queues[q][priority[j]] = <<>>
      BY <3>1, <3>2, CountsAll
    <3> QED BY <3>3 DEF In
  <2>2. local.back = <<>>
    BY <1>1 DEF PauseInv, MasterOK
  <2>3. ~In(local.back, j)
    BY <2>2 DEF In
  <2>4. Done(j)
    BY <1>1, <1>3, <2>1, <2>3, NoneLeft
  <2> QED BY <1>1, <1>2, <1>3, <1>5, <2>4 DEF Kept
<1> QED BY <1>4, <1>5, Kinds DEF AbortNext, Goto, JobInv, JobTypes

LEMMA KeptWaits ==
  ASSUME JobInv, PauseInv, NEW j \in Jobs, Kept(Master, j), YieldWait \/ Unblock
  PROVE  Kept(Master, j)'
<1>1. after[Master] = "yield" /\ pc[Master] # "free"
  BY DEF YieldWait, Unblock, At, PauseInv, MasterOK
<1>2. UNCHANGED <<status, owner, priority, after, local>> /\ IsFinished(j)' = IsFinished(j)
  BY DEF YieldWait, Unblock, jobVars, callVars, IsFinished
<1>3. pc'[Master] = "free" => complete[local.waited]
  BY Kinds DEF YieldWait, Unblock, Goto, JobInv, JobTypes
<1>4. pc'[Master] # "put back"
  BY Kinds DEF YieldWait, Unblock, Goto, JobInv, JobTypes
<1>5. IsFinished(j) \/ (j = local.waited /\ pc'[Master] # "free")
  <2>1. CASE j = local.waited /\ complete[local.waited]
    BY <2>1 DEF JobInv, JobOK
  <2> QED BY <1>1, <1>3, <2>1 DEF Kept
<1> QED BY <1>1, <1>2, <1>4, <1>5 DEF Kept

LEMMA KeptPutBack ==
  ASSUME JobInv, Lasts, NEW j \in Jobs, Kept(Master, j), PutBack
  PROVE  Kept(Master, j)'
<1>1. pc[Master] = "put back" /\ after'[Master] = "put back" /\ Done(j)
  BY Kinds DEF PutBack, At, JobInv, JobTypes, Kept
<1>2. Done(j)'
  BY <1>1 DEF Lasts
<1> QED BY <1>1, <1>2 DEF Kept

LEMMA KeptFilter ==
  ASSUME JobInv, PauseInv, NEW j \in Jobs, Kept(Master, j), Filter
  PROVE  Kept(Master, j)'
<1>1. pc[Master] = "filter" /\ after[Master] = "drain" /\ pc'[Master] \in {"check", "drain"}
  BY Kinds DEF Filter, At, PauseInv, MasterOK, Goto, JobInv, JobTypes
<1>2. UNCHANGED <<status, owner, priority, after>>
  BY DEF Filter, jobVars
<1>3. local'.accepted = local.accepted /\ local'.to = local.to
  BY DEF Filter, JobInv, Locals
<1> QED BY <1>1, <1>2, <1>3 DEF Kept

LEMMA KeptMoves ==
  ASSUME JobInv, PauseInv, NEW j \in Jobs, Kept(Master, j), Counted \/ CallWorker \/ WorkersSuspended \/ ResumeExecution
  PROVE  Kept(Master, j)'
<1>1. UNCHANGED <<status, owner, priority, after, job>> /\ IsFinished(j)' = IsFinished(j) /\ Done(j)' = Done(j)
  BY DEF Counted, CallWorker, WorkersSuspended, ResumeExecution, jobVars, IsFinished, Done
<1>2. local'.accepted = local.accepted /\ local'.to = local.to /\ local'.waited = local.waited
  BY DEF Counted, CallWorker, WorkersSuspended, ResumeExecution, callVars, JobInv, Locals
<1>3. CASE CallWorker
  <2>1. pc[Master] = "calling" /\ pc'[Master] \in {"calling", "suspending"}
    BY <1>3, Kinds DEF CallWorker, At, Goto, JobInv, JobTypes
  <2>2. after[Master] # "put back"
    BY <2>1 DEF PauseInv, MasterOK
  <2> QED BY <1>1, <1>2, <2>1, <2>2 DEF Kept, Calling, Holding
<1>4. CASE Counted \/ WorkersSuspended
  <2>1. pc[Master] \in {"count", "suspending"} /\ pc'[Master] = after[Master]
    BY <1>4, Kinds DEF Counted, WorkersSuspended, At, Goto, JobInv, JobTypes
  <2>2. after[Master] = "put back" => Done(j)
    BY DEF Kept
  <2> QED BY <1>1, <1>2, <2>1, <2>2 DEF Kept, Calling, Holding
<1>5. CASE ResumeExecution
  <2>1. pc[Master] \in {"resume", "free"} /\ pc'[Master] = "free"
    BY <1>5, Kinds DEF ResumeExecution, At, Goto, JobInv, JobTypes
  <2>2. after[Master] # "drain" /\ (pc[Master] = "resume" => after[Master] \in {"put back", "abort all"})
    BY <2>1 DEF PauseInv, MasterOK
  <2> QED BY <1>1, <1>2, <2>1, <2>2 DEF Kept, Calling, Holding
<1> QED BY <1>3, <1>4, <1>5

LEMMA KeptCall ==
  ASSUME JobInv, NEW t \in Clients, NEW l, NEW r, NEW S, Starts(t, l, r, S), NEW j \in S
  PROVE  Kept(t, j)'
<1>1. pc'[t] = l /\ after'[t] = r
  BY Kinds DEF Starts, Begin, Goto, JobInv, JobTypes
<1>2. <<l, r>> \in Entries /\ Promises(t, l, r, S)
  BY DEF Starts
<1>3. l # "put back" /\ r # "put back" /\ l # "resume" /\ (l = "free" => r = "free")
  BY <1>2 DEF Entries
<1>4. r = "free" => l \in Calling /\ job'[t] = j
  BY <1>2 DEF Promises
<1>5. r = "yield" => j = local'.waited
  BY <1>2 DEF Promises
<1>6. r \in {"drain", "abort all"} => status'[j] # "unserviced"
  BY <1>2 DEF Promises
<1>7. r = "drain" => j \in local'.accepted /\ priority'[j] >= local'.to
  BY <1>2 DEF Promises
<1> HIDE <1>2
<1> QED BY <1>1, <1>3, <1>4, <1>5, <1>6, <1>7 DEF Kept

LEMMA KeptMaster ==
  ASSUME JobInv, QueueInv, PauseInv, OwnerInv, PlayInv, Lasts, NEW j \in Jobs, Kept(Master, j), MasterStep
  PROVE  Kept(Master, j)'
BY KeptDrain, KeptAbortNext, KeptWaits, KeptPutBack, KeptFilter, KeptMoves DEF MasterStep

LEMMA KeptStep ==
  ASSUME JobInv, QueueInv, CallInv, Lasts, NEW t \in Clients, NEW j \in Jobs, Kept(t, j), NEW u \in Threads, Step(u)
  PROVE  Kept(t, j)'
<1>0. PauseInv /\ OwnerInv /\ PlayInv /\ t \in Threads /\ t \notin Workers
  BY Kinds DEF CallInv
<1>1. CASE u = t
  <2>1. CASE ServeJob(t)
    BY <1>0, <2>1, KeptServe
  <2>2. CASE Scan(t)
    <3>1. t \notin Handlers
      BY <1>0, <2>2 DEF Scan, At, PauseInv, PlaceOK, HandlerPlaces, Calling, Holding
    <3> QED BY <1>0, <2>2, <3>1, KeptScan, Kinds
  <2>3. CASE t = Master /\ MasterStep
    BY <1>0, <2>3, KeptMaster
  <2> QED BY <1>0, <1>1, <2>1, <2>2, <2>3, Steps
<1>2. CASE u # t
  <2>1. pc'[t] = pc[t] /\ job'[t] = job[t] /\ after'[t] = after[t] /\ (u # Master => UNCHANGED <<local, priority>>)
    <3>1. CASE ServeJob(u)
      <4>1. UNCHANGED <<after, job, local, priority>> /\ \E l : Goto(u, l)
        BY <3>1, Serves DEF callVars
      <4> QED BY <1>0, <1>2, <4>1 DEF Goto, JobInv, JobTypes
    <3>2. CASE Scan(u)
      BY <1>0, <1>2, <3>2 DEF Scan, Goto, JobInv, JobTypes, jobVars, callVars
    <3>3. CASE u \in Workers /\ Work(u)
      <4>1. UNCHANGED <<after, job, local, priority>> /\ \E l : Goto(u, l)
        BY <3>3 DEF Work, Wake, PopDirect, PopShared, Served, Reply, SuspendSelf, Resumed, jobVars, callVars
      <4> QED BY <1>0, <1>2, <4>1 DEF Goto, JobInv, JobTypes
    <3>4. CASE u = Master /\ MasterStep
      <4>1. UNCHANGED job /\ (UNCHANGED pc \/ \E l : Goto(Master, l))
            /\ (UNCHANGED after \/ after' = [after EXCEPT ![Master] = "put back"])
        BY <3>4 DEF MasterStep, Counted, YieldWait, Unblock, CallWorker, WorkersSuspended, Drain, Filter, PutBack,
                    AbortNext, ResumeExecution
      <4> QED BY <1>0, <1>2, <3>4, <4>1 DEF Goto, JobInv, JobTypes
    <3> QED BY <3>1, <3>2, <3>3, <3>4, Steps
  <2>2. t = Master => UNCHANGED <<local, priority>>
    BY <1>2, <2>1
  <2> QED BY <1>0, <2>1, <2>2, KeptRests
<1> QED BY <1>1, <1>2

LEMMA PromiseRests ==
  ASSUME PromiseInv, UNCHANGED promised, \A t \in Clients : \A j \in promised[t] : Kept(t, j) => Kept(t, j)'
  PROVE  PromiseInv'
BY DEF PromiseInv

LEMMA PromiseCall ==
  ASSUME JobInv, CallInv, Lasts, NewCall PROVE PromiseInv'
<1>0. PauseInv /\ PromiseInv
  BY DEF CallInv
<1>1. PICK t, l, r, S : t \in Clients /\ Starts(t, l, r, S)
  BY NewCalls
<1>2. /\ S \subseteq Jobs /\ promised' = [promised EXCEPT ![t] = S] /\ pc' = [pc EXCEPT ![t] = l]
      /\ after' = [after EXCEPT ![t] = r]
      /\ \E x : job' = [job EXCEPT ![t] = x]
  BY <1>1 DEF Starts, Promises, Begin, Goto
<1>3. promised' \in [Clients -> SUBSET Jobs]
  BY <1>0, <1>2 DEF PromiseInv
<1>4. ASSUME NEW u \in Clients, NEW j \in promised'[u] PROVE Kept(u, j)'
  <2>1. CASE u = t
    <3>1. j \in S
      BY <1>0, <1>2, <1>4, <2>1 DEF PromiseInv
    <3> QED BY <1>1, <2>1, <3>1, KeptCall
  <2>2. CASE u # t
    <3>1. j \in promised[u] /\ j \in Jobs
      BY <1>0, <1>2, <1>4, <2>2 DEF PromiseInv
    <3>2. pc'[u] = pc[u] /\ after'[u] = after[u] /\ job'[u] = job[u]
      BY <1>2, <2>2, Kinds DEF JobInv, JobTypes
    <3>3. u = Master => UNCHANGED <<local, priority>>
      <4>1. u = Master => t \in Handlers
        BY <1>1, <2>2, Kinds
      <4>2. t \in Handlers => UNCHANGED local
        BY <1>1 DEF Starts
      <4>3. t \in Handlers => UNCHANGED priority
        <5>1. UNCHANGED priority \/ pc'[Master] # pc[Master]
          BY Kinds DEF NewCall, AddJob, WaitForFinish, ChangePriority, UseHandle, ExecuteToPriority, Suspend, AbortAll,
                       SuspendExecution, jobVars, Begin, At, Goto, JobInv, JobTypes
        <5> QED BY <1>2, <5>1, Kinds DEF JobInv, JobTypes
      <4> QED BY <4>1, <4>2, <4>3
    <3>4. Kept(u, j)
      BY <1>0, <3>1 DEF PromiseInv
    <3> QED BY <1>0, <3>1, <3>2, <3>3, <3>4, KeptRests
  <2> QED BY <2>1, <2>2
<1> QED BY <1>3, <1>4 DEF PromiseInv

LEMMA PromiseStep == JobInv /\ QueueInv /\ CallInv /\ [Next]_vars => PromiseInv'
<1> SUFFICES ASSUME JobInv, QueueInv, CallInv, [Next]_vars PROVE PromiseInv'
  OBVIOUS
<1>0. Lasts /\ PromiseInv
  BY StepLasts DEF CallInv
<1>1. CASE UNCHANGED vars
  <2>1. UNCHANGED <<pc, after, job, local, priority, promised>>
    BY <1>1 DEF vars, threadVars, callVars, jobVars
  <2>2. ASSUME NEW t \in Clients, NEW j \in promised[t], Kept(t, j) PROVE Kept(t, j)'
    <3>1. j \in Jobs /\ PauseInv
      BY <1>0, <2>2 DEF PromiseInv, CallInv
    <3> QED BY <1>0, <2>1, <2>2, <3>1, KeptRests
  <2> QED BY <1>0, <2>1, <2>2, PromiseRests
<1>2. ASSUME NEW u \in Threads, Step(u) PROVE PromiseInv'
  <2>1. UNCHANGED promised
    BY <1>2, Steps, Serves DEF callVars, Scan, Work, Wake, PopDirect, PopShared, Served, Reply, SuspendSelf, Resumed,
       MasterStep, Counted, YieldWait, Unblock, CallWorker, WorkersSuspended, Drain, Filter, PutBack,
       AbortNext, ResumeExecution
  <2>2. ASSUME NEW t \in Clients, NEW j \in promised[t], Kept(t, j) PROVE Kept(t, j)'
    <3>1. j \in Jobs
      BY <1>0, <2>2 DEF PromiseInv
    <3> QED BY <1>0, <1>2, <2>2, <3>1, KeptStep
  <2> QED BY <1>0, <2>1, <2>2, PromiseRests
<1> QED BY <1>0, <1>1, <1>2, PromiseCall DEF Next

LEMMA CallInit == Init => CallInv
<1> SUFFICES ASSUME Init PROVE CallInv
  OBVIOUS
<1>1. OwnerInv
  BY DEF Init, OwnerInv, OwnerOK
<1>2. PlayInv
  BY DEF Init, PlayInv, InPlay
<1>3. PromiseInv
  BY DEF Init, PromiseInv
<1> QED BY <1>1, <1>2, <1>3, PauseInit DEF CallInv

LEMMA CallInvStep == JobInv /\ QueueInv /\ CallInv /\ [Next]_vars => CallInv'
BY PauseStep, OwnersKeep, PlayStep, PromiseStep DEF CallInv, QueueInv

LEMMA CallsKept == Spec => [](JobInv /\ QueueInv /\ CallInv)
<1>1. Init => CallInv
  BY CallInit
<1>2. JobInv /\ QueueInv /\ CallInv /\ [Next]_vars => CallInv'
  BY CallInvStep
<1> QED BY <1>1, <1>2, PoolInv, PTL DEF Spec

LEMMA PromisesKept == PauseInv /\ PromiseInv => FinishedOnReturn
<1> SUFFICES ASSUME PauseInv, PromiseInv, NEW t \in Clients, At(t, "free"), NEW j \in promised[t]
             PROVE  IsFinished(j) \/ (after[t] \in {"put back", "abort all"} /\ owner[j] \in Handlers)
  BY DEF FinishedOnReturn
<1>1. Kept(t, j) /\ pc[t] = "free"
  BY DEF PromiseInv, At
<1>2. after[t] \in {"free", "yield", "put back", "abort all"}
  BY <1>1, Kinds DEF PauseInv, PlaceOK, MasterOK
<1> QED BY <1>1, <1>2 DEF Kept, Done, Calling, Holding

LEMMA TypeFollows == JobInv /\ QueueInv /\ PauseInv => TypeOK
BY DEF TypeOK, JobInv, JobTypes, Statuses, QueueInv, PauseInv, Paused

\* Every variable of the pool has its type, a thread is always at a place of the code
\* and the depth of the suspensions never becomes negative.
THEOREM PoolTypeCorrect == Spec => []TypeOK
BY CallsKept, TypeFollows, PTL DEF CallInv

\* Between the return of SuspendExecution and ResumeExecution, calls of the one master, no worker
\* runs a job or touches a queue, however its calls, the replies of the workers, their suspensions
\* and the holders of handles interleave.
THEOREM QuietCorrect == Spec => []QuietWhileSuspended
BY CallsKept, PausedIsQuiet, PTL DEF CallInv

\* Pop of the drain always has an item to return: ExecuteToPriority may use its result
\* without a check.
THEOREM DrainFindsJobCorrect == Spec => []DrainFindsJob
BY CallsKept, DrainFinds, PTL DEF CallInv

\* What a client was promised is done when its call returns: Execute, Abort and
\* WaitForFinish finish their job, the drain and AbortAll every job of theirs but one
\* that the holder of a handle is executing.
THEOREM FinishedOnReturnCorrect == Spec => []FinishedOnReturn
BY CallsKept, PromisesKept, PTL DEF CallInv
=============================================================================
