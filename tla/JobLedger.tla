------------------------------ MODULE JobLedger ------------------------------
(***************************************************************************)
(* What the connection pool promises about a job, without sockets, waiters *)
(* or threads: a job is in exactly one place at a time.  It is posted      *)
(* once, it waits in the pool's queue or in the cache of one connection,   *)
(* a connection that gives a job up returns it to the queue or settles it, *)
(* and a settled job never comes back.                                     *)
(***************************************************************************)
CONSTANTS Conn, Job

VARIABLE place      \* where each job is

Places == {"unposted", "queued", "settled"} \cup Conn

Init == place = [j \in Job |-> "unposted"]

Held(c) == {j \in Job : place[j] = c}

\* The client hands the job to the pool.
Post(j) ==
    /\ place[j] = "unposted"
    /\ place' = [place EXCEPT ![j] = "queued"]

\* Connection c takes the job out of the queue.
Take(j, c) ==
    /\ place[j] = "queued"
    /\ place' = [place EXCEPT ![j] = c]

\* Connection c settles some of the jobs it holds and returns others.
Release(c, done, back) ==
    /\ done \cup back # {}
    /\ place' = [j \in Job |-> CASE j \in done -> "settled"
                                 [] j \in back -> "queued"
                                 [] OTHER -> place[j]]

Next ==
    \/ \E j \in Job : Post(j) \/ \E c \in Conn : Take(j, c)
    \/ \E c \in Conn : \E done \in SUBSET Held(c) :
          \E back \in SUBSET (Held(c) \ done) : Release(c, done, back)

Spec == Init /\ [][Next]_place
=============================================================================
