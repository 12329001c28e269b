---------------------------- MODULE GcmProperties ----------------------------
(***************************************************************************)
(* What must hold of the GCM connections and of the pool they share.       *)
(***************************************************************************)
EXTENDS GcmConnection

\* Jobs with a verdict, and those an exception has forgotten.
verdict == {j \in Job : told[j] # "nothing"}

\* The jobs connection c has taken and not given up: at most current_req_.
InFlight(c) == IF op[c] \cap Flight # {} THEN {ident[c]} ELSE {}

-----------------------------------------------------------------------------
\* Safety.

\* The life of a connection is one chain of handlers: there is exactly one of a
\* pending operation, a notification on its way, a waiter, and a call of
\* wait_for_job.  So it sends one request at a time, never goes deaf, and no
\* path of a read handler both restarts the connection and goes on.
OneChain ==
    \A c \in Conn :
        Cardinality(op[c]) + wake[c]
            + Cardinality({i \in DOMAIN waiters : waiters[i].conn = c})
            + (IF pc[c] = "wait" THEN 1 ELSE 0) = 1

\* Every job that was posted is in one place, once: in the queue, in flight on
\* one connection, told to the client, or forgotten by an exception.
JobAccounted ==
    /\ IsInjective(jobs)
    /\ \A c \in Conn : InFlight(c) \cap (ToSet(jobs) \cup verdict \cup dropped) = {}
    /\ \A c, d \in Conn : c # d => InFlight(c) \cap InFlight(d) = {}
    /\ ToSet(jobs) \cap (verdict \cup dropped) = {}
    /\ verdict \cap dropped = {}
    /\ posted = ToSet(jobs) \cup verdict \cup dropped \cup (UNION {InFlight(c) : c \in Conn})

\* A job reported with no error "is sent successfully" (test/main.cpp line 43):
\* the server has accepted it.
SuccessMeansAccepted == \A j \in Job : told[j] = "success" => j \in accepted

\* A message the server has accepted is not reported as an error: the body of
\* its response is read as the chunks say ("read the chunk body", line 245).
AcceptedNotBlamed == \A j \in accepted : told[j] # "error"

-----------------------------------------------------------------------------
\* Refinement.

Place(j) ==
    IF j \in verdict \cup dropped THEN "settled"
    ELSE IF j \in ToSet(jobs) THEN "queued"
    ELSE IF \E c \in Conn : j \in InFlight(c)
         THEN CHOOSE c \in Conn : j \in InFlight(c)
    ELSE "unposted"

Ledger == INSTANCE JobLedger WITH place <- [j \in Job |-> Place(j)]

\* GCM connections implement the same ledger of jobs as APNs connections, though
\* they never return a job to the queue.
ImplementsLedger == Ledger!Spec

-----------------------------------------------------------------------------
\* Liveness.

\* A job a connection has taken is told or forgotten at last, whatever the server
\* answers, however its bytes arrive, and whatever is left in the buffer.
FlightEnds == \A c \in Conn : op[c] \cap Flight # {} ~> op[c] \cap Flight = {}

\* A connection always comes back to waiting for a job, through every error path.
ComesBack == \A c \in Conn : []<>(\E i \in DOMAIN waiters : waiters[i].conn = c)
=============================================================================
