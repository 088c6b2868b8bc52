----------------------------- MODULE MCThreadPool -----------------------------
(* Two workers, the master and, in one run, a thread that has a handle.    *)
EXTENDS ThreadPool

LowPriority == [j \in Jobs |-> 0]
=============================================================================
