--------------------------- MODULE ApnsProperties ---------------------------
(***************************************************************************)
(* What must hold of the APNs connections and of the pool they share.      *)
(***************************************************************************)
EXTENDS ApnsConnection

\* Jobs with a final verdict about which the program forgets everything.
settled == okd \cup failed

-----------------------------------------------------------------------------
\* Safety.

\* No job is lost or duplicated by moving between the queue, the caches and the
\* verdicts: every job clients posted is in exactly one of them, once, however
\* handle_job_available, the two sort_cache functions, on_check_cache and the
\* reconnections of several connections interleave.
JobConserved ==
    /\ IsInjective(jobs)
    /\ \A c \in Conn : IsInjective(cache[c])
    /\ \A c \in Conn : ToSet(jobs) \cap ToSet(cache[c]) = {}
    /\ \A c, d \in Conn : c # d => ToSet(cache[c]) \cap ToSet(cache[d]) = {}
    /\ okd \cap failed = {}
    /\ ToSet(jobs) \cap settled = {}
    /\ \A c \in Conn : ToSet(cache[c]) \cap settled = {}
    /\ posted = ToSet(jobs) \cup settled \cup (UNION {ToSet(cache[c]) : c \in Conn})

\* Exactly one operation leads each connection through its life: no error path
\* of handle_connect, handle_handshake and handle_read_err leaves a connection
\* with nothing pending, or both restarts it and lets run_one restart it.
OneDriver == \A c \in Conn : Cardinality(op[c]) = 1

\* A connection that is established will hear of new jobs: it has a waiter, a
\* notification on its way, a handler running or a write whose completion
\* takes the next job.  Writes of a socket that is gone do not count.
NoDeafConnection ==
    \A c \in Conn : sock[c] = "open" =>
        \/ pc[c] # "idle"
        \/ wake[c] > 0
        \/ \E i \in DOMAIN waiters : waiters[i].conn = c
        \/ \E i \in DOMAIN writes[c] : writes[c][i].fate = "live"

\* While a connection is established its cache checker is armed, although
\* handle_read_err cancels it and on_check_cache has to arm it again.
TimerAlive == \A c \in Conn : sock[c] = "open" => timer[c]

\* Reconnections do not pile up waiters: outside the moment between async_wait
\* and the assignment of wait_handle_ a connection has at most one.
SingleWaiter ==
    \A c \in Conn : pc[c] # "swap" =>
        Cardinality({i \in DOMAIN waiters : waiters[i].conn = c}) <= 1

\* A request the gateway names and the cache does not hold was confirmed before:
\* what the comment in sort_cache_on_shutdown (lines 161-163) says "probably"
\* of, and what sort_cache_on_error relies on when it reports a request that it
\* cannot find.
UnknownIdentWasConfirmed ==
    \A c \in Conn :
        resp[c].kind \in {"error", "shutdown"} =>
            resp[c].id \in ToSet(cache[c]) \cup okd \cup {None}

\* A failure reported for a request that is not in the cache always takes back
\* a success reported before; no other job is hit by it.
LateWasConfirmed == late \subseteq okd

\* With a check time that is big enough no failed message is ever missing in
\* the cache: the comment of sort_cache_on_error (line 123).
NoLostFailure == late = {}

\* With a check time that is big enough a request the gateway refuses is never
\* reported as sent.
RejectedNeverConfirmed == rejected \cap okd = {}

\* At most one thing has gone wrong.
OneFailure == MaxFaults <= faults + 1

\* After one failure no request is delivered to and accepted by the gateway
\* twice: what goes back to the queue was not processed.
DeliveredAtMostOnce ==
    [][\A c \in Conn : OneFailure /\ GatewayAccept(c) => Head(wire[c]) \notin accepted]_vars

\* Around one failure everything in the cache before the request an answer names
\* has been accepted, as "consider all before this one - success" has it (lines
\* 90 and 138).
BeforeAnsweredWasSent ==
    \A c \in Conn :
        OneFailure /\ resp[c].kind \in {"error", "shutdown"} /\ InCache(c, resp[c].id) =>
            ToSet(Before(c, resp[c].id)) \subseteq accepted

\* A job reported with no error "is sent successfully" (test/main.cpp line 29):
\* the gateway has accepted it.
SuccessMeansSent == okd \subseteq accepted

-----------------------------------------------------------------------------
\* Refinement.

Place(j) ==
    IF j \in settled THEN "settled"
    ELSE IF j \in ToSet(jobs) THEN "queued"
    ELSE IF \E c \in Conn : j \in ToSet(cache[c])
         THEN CHOOSE c \in Conn : j \in ToSet(cache[c])
    ELSE "unposted"

Ledger == INSTANCE JobLedger WITH place <- [j \in Job |-> Place(j)]

\* The pool and its connections implement the ledger of jobs: every handler
\* posts, takes or releases jobs the way JobLedger allows, and a job that has a
\* verdict never moves again.
ImplementsLedger == Ledger!Spec

-----------------------------------------------------------------------------
\* Liveness.

\* After the last failure every connection is established again and stays so,
\* through restart(), run_one's restart timer and every error path.
EventuallyUp == \A c \in Conn : <>[](sock[c] = "open")

\* No job stays in a cache for ever: it is reported or goes back to the queue.
CachedJobSettles ==
    \A c \in Conn, j \in Job : j \in ToSet(cache[c]) ~> j \notin ToSet(cache[c])

\* When nothing fails, a connection that is woken goes on until the queue is
\* empty, whatever was in it: handle_write always takes the next jobs.
WokenDrainsQueue ==
    \A c \in Conn : wake[c] > 0 ~> jobs = <<>> \/ faults < MaxFaults

\* Jobs in the queue are "Requests to process" (connection_pool.hpp line 179):
\* each is taken at last.
QueuedJobTaken == \A j \in Job : j \in ToSet(jobs) ~> j \notin ToSet(jobs)
=============================================================================
