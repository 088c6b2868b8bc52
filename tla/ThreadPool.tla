----------------------------- MODULE ThreadPool -----------------------------
(***************************************************************************)
(* CThreadPool and CJob (vstdlib/jobthread.cpp, public/vstdlib/jobthread.h)  *)
(* over the queues of JobQueue: a shared queue and a direct queue of each    *)
(* worker.  The master thread adds jobs, waits, suspends the workers and     *)
(* drains the queues; other clients run or abort a job by its handle, as     *)
(* AsyncFinish and AsyncAbort of the file system do.  "pc" says where each  *)
(* thread is; a thread's step is what it does between two accesses to state *)
(* that another thread may change.                                          *)
(*                                                                         *)
(* Left out: m_nJobs, which only GetJobCount reports; per-frame jobs; Start *)
(* and Stop; reference counts; a second thread that suspends or drains.     *)
(***************************************************************************)
EXTENDS JobQueue, SequencesExt

CONSTANTS
  Workers,    \* m_Threads
  First,      \* m_Threads[0]
  Shared,     \* m_SharedQueue
  Master,     \* the thread that adds jobs
  Handlers,   \* other threads that hold the handle of a job
  IO, Serial, \* jobs with JF_IO or JF_QUEUE, jobs with JF_SERIAL
  Raised,     \* jobs whose priority the master changes
  Handed,     \* jobs whose handle is used to run or abort them
  Priority,   \* the priority with which each job is made
  None,       \* no job, or no thread
  MaxCalls    \* bound: calls of the master besides AddJob, and of each handler

ASSUME PoolAssumption ==
  /\ First \in Workers
  /\ Threads = Workers \cup {Master} \cup Handlers
  /\ Master \notin Workers \cup Handlers /\ Workers \cap Handlers = {}
  /\ Queues = Workers \cup {Shared} /\ Shared \notin Workers
  /\ IO \subseteq Jobs /\ Serial \subseteq Jobs /\ Raised \subseteq Jobs /\ Handed \subseteq Jobs
  /\ Priority \in [Jobs -> Levels]
  /\ None \notin Jobs \cup Threads
  /\ MaxCalls \in Nat

Clients == {Master} \cup Handlers

VARIABLES
  pc,         \* where each thread is
  after,      \* where it goes when it has dealt with its job
  job,        \* pJob
  status,     \* m_status of each job
  priority,   \* m_priority
  owner,      \* the thread that holds m_mutex of the job, if any
  complete,   \* m_CompleteEvent, a manual-reset event
  took,       \* bTookJob of each worker; the others are idle
  asked,      \* workers with a TPM_SUSPEND call pending (m_EventSend)
  suspended,  \* workers that wait for m_NotSuspendedEvent
  nSuspend,   \* m_nSuspend
  local,      \* local variables of the master's call
  calls,      \* calls made, for the bound
  runs,       \* history: how often each job's DoExecute began
  cleanups,   \* history: how often DoCleanup was called
  promised,   \* history: the jobs that the client's call is to finish
  serials     \* history: the serial jobs in the order of AddJob

jobVars    == <<status, priority, owner, complete, runs, cleanups>>
threadVars == <<pc, after, job, took>>
pauseVars  == <<asked, suspended, nSuspend>>
callVars   == <<local, calls, promised, serials>>
vars       == <<queueVars, jobVars, threadVars, pauseVars, callVars>>

At(t, l)    == pc[t] = l
Goto(t, l)  == pc' = [pc EXCEPT ![t] = l]

\* CJob::IsFinished and CanExecute.
IsFinished(j) == status[j] \in {"ok", "aborted"}
CanExecute(j) == status[j] \in {"unserviced", "pending"}

Added         == {j \in Jobs : status[j] # "unserviced"}
NumIdle       == Cardinality({w \in Workers : ~took[w]})
Count(q, l)   == Len(queues[q][l])

-----------------------------------------------------------------------------
(* A job, in the hands of any thread.                                      *)

\* ServiceJobAndRelease: a finished job, or one that another thread has locked,
\* is passed over.
Check(t) ==
  /\ At(t, "check")
  /\ Goto(t, IF IsFinished(job[t]) THEN after[t] ELSE "trylock")
  /\ UNCHANGED <<queueVars, jobVars, after, job, took, pauseVars, callVars>>

\* Mutant: the result of TryLock is ignored.
TryLockOnly(t) ==
  /\ At(t, "trylock")
  /\ owner' = [owner EXCEPT ![job[t]] = t]
  /\ Goto(t, "execute")
  /\ UNCHANGED <<queueVars, status, priority, complete, runs, cleanups, after, job, took,
                 pauseVars, callVars>>
TryLock(t) ==
  /\ At(t, "trylock")
  /\ \/ /\ owner[job[t]] = None
        /\ owner' = [owner EXCEPT ![job[t]] = t]
        /\ Goto(t, "execute")
     \/ /\ owner[job[t]] # None
        /\ Goto(t, after[t])
        /\ UNCHANGED owner
  /\ UNCHANGED <<queueVars, status, priority, complete, runs, cleanups, after, job, took,
                 pauseVars, callVars>>

\* CJob::Execute and Abort called on the job itself: a finished job returns its
\* status, otherwise they wait for the mutex.
Call(t) ==
  /\ At(t, "call execute") \/ At(t, "call abort")
  /\ Goto(t, CASE IsFinished(job[t])     -> after[t]
               [] At(t, "call execute")  -> "lock execute"
               [] At(t, "call abort")    -> "lock abort")
  /\ UNCHANGED <<queueVars, jobVars, after, job, took, pauseVars, callVars>>

Lock(t) ==
  /\ At(t, "lock execute") \/ At(t, "lock abort")
  /\ owner[job[t]] = None
  /\ owner' = [owner EXCEPT ![job[t]] = t]
  /\ Goto(t, IF At(t, "lock execute") THEN "execute" ELSE "abort")
  /\ UNCHANGED <<queueVars, status, priority, complete, runs, cleanups, after, job, took,
                 pauseVars, callVars>>

\* The job was finished before the mutex was taken.
Unlock(t) ==
  /\ At(t, "execute") \/ At(t, "abort")
  /\ ~CanExecute(job[t])
  /\ owner' = [owner EXCEPT ![job[t]] = None]
  /\ Goto(t, after[t])
  /\ UNCHANGED <<queueVars, status, priority, complete, runs, cleanups, after, job, took,
                 pauseVars, callVars>>

Execute(t) ==
  /\ At(t, "execute")
  /\ CanExecute(job[t])
  /\ status' = [status EXCEPT ![job[t]] = "in progress"]
  /\ runs' = [runs EXCEPT ![job[t]] = @ + 1]
  /\ Goto(t, "running")
  /\ UNCHANGED <<queueVars, priority, owner, complete, cleanups, after, job, took, pauseVars, callVars>>

\* DoExecute or DoAbort returns the status...
Return(t) ==
  /\ \/ At(t, "running")
     \/ At(t, "abort") /\ CanExecute(job[t])
  /\ status' = [status EXCEPT ![job[t]] = IF At(t, "abort") THEN "aborted" ELSE "ok"]
  /\ Goto(t, "clean up")
  /\ UNCHANGED <<queueVars, priority, owner, complete, runs, cleanups, after, job, took,
                 pauseVars, callVars>>

\* ...and then come DoCleanup, the event and the release of the mutex.
CleanUp(t) ==
  /\ At(t, "clean up")
  /\ cleanups' = [cleanups EXCEPT ![job[t]] = @ + 1]
  /\ complete' = [complete EXCEPT ![job[t]] = TRUE]
  /\ owner' = [owner EXCEPT ![job[t]] = None]
  /\ Goto(t, after[t])
  /\ UNCHANGED <<queueVars, status, priority, runs, after, job, took, pauseVars, callVars>>

ServeJob(t) ==
  Check(t) \/ TryLock(t) \/ Call(t) \/ Lock(t) \/ Unlock(t) \/ Execute(t) \/ Return(t) \/ CleanUp(t)

-----------------------------------------------------------------------------
(* Workers: CJobThread::Run.                                               *)

\* Wait returns for an item of either queue or for a call, which comes first.
Wake(w) ==
  /\ At(w, "wait")
  /\ available[Shared] \/ available[w] \/ w \in asked
  /\ Goto(w, IF w \in asked THEN "reply" ELSE "direct")
  /\ UNCHANGED <<queueVars, jobVars, after, job, took, pauseVars, callVars>>

\* The direct queue first, then the shared one.
PopDirect(w) ==
  /\ At(w, "direct")
  /\ \/ StartPop(w, w) /\ Goto(w, "scan")
     \/ nItems[w] = 0 /\ Goto(w, "shared") /\ UNCHANGED queueVars
  /\ UNCHANGED <<jobVars, after, job, took, pauseVars, callVars>>

PopShared(w) ==
  /\ At(w, "shared")
  /\ \/ StartPop(w, Shared) /\ Goto(w, "scan") /\ UNCHANGED took
     \/ nItems[Shared] = 0 /\ Goto(w, "wait") /\ took' = [took EXCEPT ![w] = FALSE] /\ UNCHANGED queueVars
  /\ UNCHANGED <<jobVars, after, job, pauseVars, callVars>>

\* Pop of any thread goes on; what it does with the item depends on the caller.
Taken(t) == CASE after[t] = "drain"     -> "filter"
              [] after[t] = "abort all" -> "call abort"
              [] OTHER                  -> "check"
Scan(t) ==
  /\ At(t, "scan")
  /\ \/ /\ LowerPriority(t)
        /\ UNCHANGED <<pc, job, took>>
     \/ /\ PopItem(t)
        /\ job' = [job EXCEPT ![t] = Head(Scanned(t))]
        /\ took' = IF t \in Workers THEN [took EXCEPT ![t] = TRUE] ELSE took
        /\ Goto(t, Taken(t))
  /\ UNCHANGED <<jobVars, after, pauseVars, callVars>>

\* One job served: the next one, unless there is a call.
Served(w) ==
  /\ At(w, "served")
  /\ Goto(w, IF w \in asked THEN "wait" ELSE "direct")
  /\ took' = [took EXCEPT ![w] = @ /\ w \notin asked]
  /\ UNCHANGED <<queueVars, jobVars, after, job, pauseVars, callVars>>

\* TPM_SUSPEND: the worker replies before it suspends itself.
Reply(w) ==
  /\ At(w, "reply")
  /\ asked' = asked \ {w}
  /\ Goto(w, "replied")
  /\ UNCHANGED <<queueVars, jobVars, after, job, took, suspended, nSuspend, callVars>>

SuspendSelf(w) ==
  /\ At(w, "replied")
  /\ suspended' = suspended \cup {w}
  /\ Goto(w, "suspended")
  /\ UNCHANGED <<queueVars, jobVars, after, job, took, asked, nSuspend, callVars>>

Resumed(w) ==
  /\ At(w, "suspended") /\ w \notin suspended
  /\ Goto(w, "wait")
  /\ UNCHANGED <<queueVars, jobVars, after, job, took, pauseVars, callVars>>

Work(w) ==
  Wake(w) \/ PopDirect(w) \/ PopShared(w) \/ Served(w) \/ Reply(w) \/ SuspendSelf(w) \/ Resumed(w)

-----------------------------------------------------------------------------
(* Calls of the clients.                                                   *)

\* A client begins a call that promises to finish the jobs of S.
Begin(t, l, ret, S) ==
  /\ At(t, "free")
  /\ Goto(t, l)
  /\ after' = [after EXCEPT ![t] = ret]
  /\ promised' = [promised EXCEPT ![t] = S]
Bounded(t) == calls[t] < MaxCalls /\ calls' = [calls EXCEPT ![t] = @ + 1]

\* InsertJobInQueue.
QueueOf(j) == IF j \in Serial THEN First ELSE Shared

\* AddJob: a job for any thread is executed at once if no worker is idle, and
\* gets the highest priority otherwise.
AddJob(j) ==
  /\ status[j] = "unserviced"
  /\ \/ /\ j \notin IO /\ NumIdle = 0
        /\ Begin(Master, "call execute", "free", {j})
        /\ job' = [job EXCEPT ![Master] = j]
        /\ UNCHANGED <<queueVars, status, priority>>
     \/ /\ j \in IO \/ NumIdle > 0
        /\ Begin(Master, "count", "free", {})
        /\ status' = [status EXCEPT ![j] = "pending"]
        /\ priority' = [priority EXCEPT ![j] = IF j \in IO THEN @ ELSE Top]
        /\ PushItem(Master, QueueOf(j), j, priority'[j])
        /\ UNCHANGED job
  /\ serials' = IF j \in Serial THEN Append(serials, j) ELSE serials
  /\ UNCHANGED <<owner, complete, runs, cleanups, took, pauseVars, local, calls>>

\* Push of the master ends.
Counted ==
  /\ At(Master, "count")
  /\ CountItem(Master)
  /\ Goto(Master, after[Master])
  /\ UNCHANGED <<jobVars, after, job, took, pauseVars, callVars>>

\* ChangePriority only raises: the job is queued a second time.
ChangePriority(j, l) ==
  /\ Bounded(Master)
  /\ j \in Raised \cap Added /\ priority[j] < l
  /\ Begin(Master, "count", "free", {})
  /\ priority' = [priority EXCEPT ![j] = l]
  /\ PushItem(Master, Shared, j, l)
  /\ UNCHANGED <<status, owner, complete, runs, cleanups, job, took, pauseVars, local, serials>>

\* Execute or Abort by the handle of the job (AsyncFinish, AsyncAbort).
UseHandle(t, j, how) ==
  /\ Bounded(t)
  /\ j \in Handed \cap Added
  /\ Begin(t, how, "free", {j})
  /\ job' = [job EXCEPT ![t] = j]
  /\ UNCHANGED <<queueVars, jobVars, took, pauseVars, local, serials>>

\* WaitForFinish: YieldWait for one job, by a master that has not suspended the
\* workers.  It serves jobs of the shared queue until there are none, then it
\* only waits.
WaitForFinish(j) ==
  /\ Bounded(Master)
  /\ j \in Added /\ ~IsFinished(j) /\ nSuspend = 0
  /\ Begin(Master, "yield", "yield", {j})
  /\ local' = [local EXCEPT !.waited = j]
  /\ UNCHANGED <<queueVars, jobVars, job, took, pauseVars, serials>>

YieldWait ==
  /\ At(Master, "yield")
  /\ IF complete[local.waited]
       THEN Goto(Master, "free") /\ UNCHANGED queueVars
       ELSE \/ StartPop(Master, Shared) /\ Goto(Master, "scan")
            \/ nItems[Shared] = 0 /\ Goto(Master, "blocked") /\ UNCHANGED queueVars
  /\ UNCHANGED <<jobVars, after, job, took, pauseVars, callVars>>

Unblock ==
  /\ At(Master, "blocked") /\ complete[local.waited]
  /\ Goto(Master, "free")
  /\ UNCHANGED <<queueVars, jobVars, after, job, took, pauseVars, callVars>>

-----------------------------------------------------------------------------
(* The master suspends the workers and drains the queues.                  *)

\* SuspendExecution calls every worker, waits for the replies and then until
\* all are suspended; the outermost call does so.
SuspendExecution(ret, to, S, promise) ==
  /\ Bounded(Master)
  /\ Begin(Master, IF nSuspend = 0 THEN "calling" ELSE ret, ret, promise)
  /\ nSuspend' = IF nSuspend = 0 THEN 0 ELSE nSuspend + 1
  /\ local' = [local EXCEPT !.to = to, !.accepted = S, !.called = {}]
  /\ UNCHANGED <<queueVars, jobVars, job, took, asked, suspended, serials>>

CallWorker ==
  /\ At(Master, "calling")
  /\ \/ \E w \in Workers \ local.called :
          /\ local' = [local EXCEPT !.called = @ \cup {w}]
          /\ asked' = asked \cup {w}
          /\ UNCHANGED pc
     \/ /\ local.called = Workers
        /\ Goto(Master, "suspending")
        /\ UNCHANGED <<local, asked>>
  /\ UNCHANGED <<queueVars, jobVars, after, job, took, suspended, nSuspend, calls, promised, serials>>

\* Mutants: the replies are not awaited; a reply is taken for the suspension.
NotAwaited   == TRUE
AllReplied   == asked = {}
AllSuspended == asked = {} /\ suspended = Workers
WorkersSuspended ==
  /\ At(Master, "suspending")
  /\ AllSuspended
  /\ nSuspend' = 1
  /\ Goto(Master, after[Master])
  /\ UNCHANGED <<queueVars, jobVars, after, job, took, asked, suspended, callVars>>

ResumeExecution ==
  /\ At(Master, "resume") \/ (At(Master, "free") /\ nSuspend > 0)
  /\ nSuspend' = nSuspend - 1
  /\ suspended' = IF nSuspend = 1 THEN {} ELSE suspended
  /\ Goto(Master, "free")
  /\ UNCHANGED <<queueVars, jobVars, after, job, took, asked, callVars>>

Suspend == SuspendExecution("free", 0, {}, {})

\* ExecuteToPriority with a filter that accepts the jobs of S.
ExecuteToPriority(l, S) ==
  SuspendExecution("drain", l, S, {j \in Added \cap S : priority[j] >= l})

\* Priority by priority, the direct queues before the shared one.
\* Mutant: the last priority is left out.
UrgentAbove(q) == {l \in Levels : l > local.to /\ Count(q, l) > 0}
Urgent(q)   == {l \in Levels : l >= local.to /\ Count(q, l) > 0}
Most(Q)     == Max(UNION {Urgent(q) : q \in Q})
Undrained   == {q \in Queues : Urgent(q) # {}}
NextQueues  == LET S == {q \in Undrained : Most({q}) = Most(Undrained)}
               IN  IF S = {Shared} THEN S ELSE S \ {Shared}

Drain ==
  /\ At(Master, "drain")
  /\ \/ Undrained = {} /\ Goto(Master, "put back") /\ UNCHANGED queueVars
     \/ Undrained # {} /\ Goto(Master, "scan") /\ \E q \in NextQueues : StartPop(Master, q)
  /\ UNCHANGED <<jobVars, after, job, took, pauseVars, callVars>>

\* A job that the filter refuses is kept to be put back, unless it is finished.
Filter ==
  LET j == job[Master]
  IN  /\ At(Master, "filter")
      /\ \/ /\ j \in local.accepted
            /\ Goto(Master, "check")
            /\ UNCHANGED local
         \/ /\ j \notin local.accepted
            /\ Goto(Master, "drain")
            /\ local' = IF CanExecute(j) THEN [local EXCEPT !.back = Append(@, j)] ELSE local
      /\ UNCHANGED <<queueVars, jobVars, after, job, took, pauseVars, calls, promised, serials>>

PutBack ==
  /\ At(Master, "put back")
  /\ after' = [after EXCEPT ![Master] = "put back"]
  /\ \/ /\ local.back = <<>>
        /\ Goto(Master, "resume")
        /\ UNCHANGED <<queueVars, local>>
     \/ /\ local.back # <<>>
        /\ LET j == Head(local.back) IN PushItem(Master, QueueOf(j), j, priority[j])
        /\ local' = [local EXCEPT !.back = Tail(@)]
        /\ Goto(Master, "count")
  /\ UNCHANGED <<jobVars, job, took, pauseVars, calls, promised, serials>>

\* AbortAll: the shared queue first.
AbortAll == SuspendExecution("abort all", 0, {}, Added)

AbortNext ==
  /\ At(Master, "abort all")
  /\ \/ StartPop(Master, Shared) /\ Goto(Master, "scan")
     \/ /\ nItems[Shared] = 0
        /\ \/ Goto(Master, "scan") /\ \E w \in Workers : StartPop(Master, w)
           \/ (\A w \in Workers : nItems[w] = 0) /\ Goto(Master, "resume") /\ UNCHANGED queueVars
  /\ UNCHANGED <<jobVars, after, job, took, pauseVars, callVars>>

-----------------------------------------------------------------------------
Init ==
  /\ QueueInit
  /\ pc = [t \in Threads |-> IF t \in Workers THEN "wait" ELSE "free"]
  /\ after = [t \in Threads |-> IF t \in Workers THEN "served" ELSE "free"]
  /\ job = [t \in Threads |-> None]
  /\ status = [j \in Jobs |-> "unserviced"]
  /\ priority = Priority
  /\ owner = [j \in Jobs |-> None]
  /\ complete = [j \in Jobs |-> FALSE]
  /\ took = [w \in Workers |-> FALSE]
  /\ asked = {} /\ suspended = {} /\ nSuspend = 0
  /\ local = [to |-> 0, accepted |-> {}, called |-> {}, back |-> <<>>, waited |-> None]
  /\ calls = [t \in Clients |-> 0]
  /\ runs = [j \in Jobs |-> 0]
  /\ cleanups = [j \in Jobs |-> 0]
  /\ promised = [t \in Clients |-> {}]
  /\ serials = <<>>

\* What the code goes on to do by itself, once a call has begun.
Step(t) ==
  \/ ServeJob(t) \/ Scan(t)
  \/ t \in Workers /\ Work(t)
  \/ /\ t = Master
     /\ \/ Counted \/ YieldWait \/ Unblock \/ CallWorker \/ WorkersSuspended
        \/ Drain \/ Filter \/ PutBack \/ AbortNext \/ ResumeExecution

NewCall ==
  \/ \E j \in Jobs : AddJob(j) \/ WaitForFinish(j) \/ \E l \in Levels : ChangePriority(j, l)
  \/ \E t \in Clients, j \in Jobs, how \in {"call execute", "call abort"} : UseHandle(t, j, how)
  \/ \E l \in Levels, S \in {Jobs, Serial} : ExecuteToPriority(l, S)
  \/ Suspend \/ AbortAll

Next == NewCall \/ \E t \in Threads : Step(t)

Spec     == Init /\ [][Next]_vars
\* Every thread is scheduled, DoExecute ends and a suspended pool is resumed.
Fairness == \A t \in Threads : WF_vars(Step(t))
FairSpec == Spec /\ Fairness

-----------------------------------------------------------------------------
\* Where a thread has a job, where it holds the job's mutex and where it can be.
Holding == {"execute", "abort", "running", "clean up"}
Serving == Holding \cup {"filter", "check", "trylock", "call execute", "call abort",
                         "lock execute", "lock abort"}
Returns == {"served", "free", "yield", "drain", "put back", "abort all"}
Places  == Serving \cup Returns \cup
             {"wait", "direct", "shared", "scan", "reply", "replied", "suspended", "count", "blocked",
              "calling", "suspending", "resume"}

TypeOK ==
  /\ QueueTypeOK
  /\ pc \in [Threads -> Places] /\ after \in [Threads -> Returns]
  /\ job \in [Threads -> Jobs \cup {None}]
  /\ status \in [Jobs -> {"unserviced", "pending", "in progress", "ok", "aborted"}]
  /\ priority \in [Jobs -> Levels]
  /\ owner \in [Jobs -> Threads \cup {None}]
  /\ complete \in [Jobs -> BOOLEAN] /\ took \in [Workers -> BOOLEAN]
  /\ asked \subseteq Workers /\ suspended \subseteq Workers /\ nSuspend \in Nat

\* A job is executed or aborted, once, by the thread that holds its mutex,
\* however many queue entries and handles lead to it.
ServedOnce ==
  \A j \in Jobs :
    /\ runs[j] + (IF status[j] = "aborted" THEN 1 ELSE 0) <= 1
    /\ cleanups[j] = (IF complete[j] THEN 1 ELSE 0)
    /\ status[j] = "in progress" => \E t \in Threads : owner[j] = t /\ job[t] = j /\ At(t, "running")

\* From the return of SuspendExecution to ResumeExecution no worker runs a job
\* or touches a queue.
QuietWhileSuspended ==
  nSuspend > 0 => \A w \in Workers : At(w, "suspended") /\ w \in suspended

\* ExecuteToPriority uses the result of Pop without a check: the count of items
\* never says 0 when a queue still has one.
DrainFindsJob ==
  At(Master, "drain") => \A q \in NextQueues : nItems[q] > 0

\* When a call returns, the jobs that it is to finish are finished; only a drain
\* may leave one to a thread that is executing it by its handle.
FinishedOnReturn ==
  \A t \in Clients : At(t, "free") =>
    \A j \in promised[t] :
      \/ IsFinished(j)
      \/ after[t] \in {"put back", "abort all"} /\ owner[j] \in Handlers

\* JF_SERIAL, "Job cannot be executed out of order relative to other "strict"
\* jobs" (jobthread.h): a serial job starts when those added before are finished.
\* The code breaks it when the priority of one is raised.
SerialInOrder ==
  \A i, k \in DOMAIN serials :
    i < k /\ runs[serials[k]] > 0 => IsFinished(serials[i])

\* Every job that was given to the pool is executed or aborted, and every call
\* returns: the clients make finitely many calls, so that all is quiet in the end.
Settled == (\A t \in Clients : At(t, "free")) /\ (\A j \in Added : IsFinished(j))
EventuallySettled == <>[]Settled

=============================================================================
