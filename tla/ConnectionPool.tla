--------------------------- MODULE ConnectionPool ---------------------------
(***************************************************************************)
(* detail/connection_pool.hpp: the queue of jobs that all connections of a *)
(* provider share, and the two ways to post to it.  post(job) pushes under *)
(* the mutex and notifies after it has released it, so other threads run   *)
(* in between: notifying counts the posts that have pushed and not yet     *)
(* notified.  post(begin, end) does everything under the mutex.            *)
(***************************************************************************)
EXTENDS AsyncCondVar

CONSTANT Job

VARIABLES jobs,       \* jobs_, the queue
          notifying,  \* calls of post(job) between the unlock and notify_one
          posted      \* history: the jobs clients have posted

poolVars == <<jobs, notifying, posted>>

PoolInit ==
    /\ CondInit
    /\ jobs = <<>>
    /\ notifying = 0
    /\ posted = {}

\* post(job), under the mutex.  Clients give every job an identifier of its own.
PostPush(j) ==
    /\ j \notin posted
    /\ posted' = posted \cup {j}
    /\ jobs' = Append(jobs, j)
    /\ notifying' = notifying + 1
    /\ UNCHANGED condVars

\* post(job), after the mutex is released.
PostNotify ==
    /\ notifying > 0
    /\ notifying' = notifying - 1
    /\ NotifyOne
    /\ UNCHANGED <<jobs, posted>>

\* post(begin, end): used by a connection to return the jobs s to the queue.
PostRange(s) ==
    /\ jobs' = jobs \o s
    /\ NotifyAll
    /\ UNCHANGED <<notifying, posted>>

\* get_next_job, when there is one.  Slip: the job is copied and not popped.
PeekNextJob(j) ==
    /\ jobs # <<>>
    /\ j = Head(jobs)
    /\ UNCHANGED poolVars
GetNextJob(j) ==
    /\ jobs # <<>>
    /\ j = Head(jobs)
    /\ jobs' = Tail(jobs)
    /\ UNCHANGED <<notifying, posted>>

PoolTypeOK ==
    /\ CondTypeOK
    /\ jobs \in Seq(Job)
    /\ notifying \in Nat
    /\ posted \subseteq Job
=============================================================================
