--------------------------- MODULE ApnsConnection ---------------------------
(***************************************************************************)
(* detail/apns_connection.cpp: the connections of an APNs provider, the    *)
(* pool they share, and (external) the gateway at the other end of their   *)
(* sockets.                                                                *)
(*                                                                         *)
(* A connection has an io_service of its own that one thread runs, so its  *)
(* handlers never overlap: a handler starts only when pc[c] = "idle".  The *)
(* one handler other threads can get in between the steps of is            *)
(* handle_job_available, which takes and releases the pool's mutex for     *)
(* every job and the mutex of the waiters twice; pc[c] says how far it is. *)
(* Clients post from any thread.                                           *)
(***************************************************************************)
EXTENDS ConnectionPool

CONSTANTS
    None,               \* no job: the identifier 0 of a request never assigned
    Batch,              \* jobs one handler sends at once, 16 in the code
    Faults,             \* what can go wrong outside the program
    MaxFaults,          \* bound on how often it does
    CheckTimeBigEnough  \* a job's confirmation delay ends only when its write
                        \* is over and the gateway has answered or has taken it

ASSUME NoneAssumption == None \notin Job
ASSUME BatchAssumption == Batch \in Nat \ {0}
ASSUME FaultAssumption ==
    /\ Faults \subseteq {"connect", "handshake", "reject", "shutdown", "eof", "reset"}
    /\ MaxFaults \in Nat
    /\ CheckTimeBigEnough \in BOOLEAN

VARIABLES
    pc,       \* where c's thread is in handle_job_available and wait_for_job
    batch,    \* bufs, the jobs taken by the running handler
    cache,    \* cache_, jobs sent or being sent and not settled
    current,  \* current_req_
    op,       \* the pending operations that lead c through its life
    sock,     \* socket_
    timer,    \* an on_check_cache is scheduled that will not be aborted
    writes    \* c's async_write operations that have not completed

\* The gateway's end, external.
VARIABLES
    wire,     \* jobs delivered on the current socket, not processed yet
    resp,     \* what the gateway sent, not read yet
    lastDone, \* the last job it accepted on the current socket
    accepted, \* history: jobs it has accepted
    rejected, \* history: jobs it has refused
    faults    \* faults left

\* The verdicts the client's callback has been given.
VARIABLES
    okd,      \* jobs reported as sent
    failed,   \* jobs the gateway refused, reported and dropped
    late,     \* jobs reported as refused that were not in the cache any more
    blamed    \* jobs a transport error was reported for

connVars == <<pc, batch, cache, current, op, sock, timer, writes>>
gateVars == <<wire, resp, lastDone, accepted, rejected, faults>>
verdicts == <<okd, failed, late, blamed>>
vars     == <<condVars, poolVars, connVars, gateVars, verdicts>>

-----------------------------------------------------------------------------
Ops       == {"start", "connect", "handshake", "read", "restart"}
SockState == {"none", "handshake", "open", "dead"}
Fate      == {"live",     \* the bytes reach the gateway, then it completes
              "lost",     \* the peer or the socket is gone: either outcome, no bytes
              "refused"}  \* it completes with an error
Write     == [jobs : Seq(Job), fate : Fate]
NoResp    == [kind |-> "none", id |-> None]
Response  == [kind : {"none", "error", "shutdown", "eof", "reset"}, id : Job \cup {None}]

ConnTypeOK ==
    /\ pc \in [Conn -> {"idle", "take", "wait", "swap"}]
    /\ batch \in [Conn -> Seq(Job)]
    /\ cache \in [Conn -> Seq(Job)]
    /\ current \in [Conn -> Job \cup {None}]
    /\ op \in [Conn -> SUBSET Ops]
    /\ sock \in [Conn -> SockState]
    /\ timer \in [Conn -> BOOLEAN]
    /\ writes \in [Conn -> Seq(Write)]

GateTypeOK ==
    /\ wire \in [Conn -> Seq(Job)]
    /\ resp \in [Conn -> Response]
    /\ lastDone \in [Conn -> Job \cup {None}]
    /\ accepted \subseteq Job
    /\ rejected \subseteq Job
    /\ faults \in Nat

VerdictTypeOK ==
    /\ okd \subseteq Job
    /\ failed \subseteq Job
    /\ late \subseteq Job \cup {None}
    /\ blamed \subseteq Job \cup {None}

\* Every variable has the values its comment says.
TypeOK == PoolTypeOK /\ ConnTypeOK /\ GateTypeOK /\ VerdictTypeOK

\* The pool's constructor has spawned the connections and its start has posted
\* T::start for each of them to the client's io_service.
Init ==
    /\ PoolInit
    /\ pc = [c \in Conn |-> "idle"]
    /\ batch = [c \in Conn |-> <<>>]
    /\ cache = [c \in Conn |-> <<>>]
    /\ current = [c \in Conn |-> None]
    /\ op = [c \in Conn |-> {"start"}]
    /\ sock = [c \in Conn |-> "none"]
    /\ timer = [c \in Conn |-> FALSE]
    /\ writes = [c \in Conn |-> <<>>]
    /\ wire = [c \in Conn |-> <<>>]
    /\ resp = [c \in Conn |-> NoResp]
    /\ lastDone = [c \in Conn |-> None]
    /\ accepted = {}
    /\ rejected = {}
    /\ faults = MaxFaults
    /\ okd = {}
    /\ failed = {}
    /\ late = {}
    /\ blamed = {}

-----------------------------------------------------------------------------
\* Steps of the lifecycle.

\* A write that was on its way when the socket or its peer went away.
Abandon(ws) ==
    [i \in DOMAIN ws |-> [ws[i] EXCEPT !.fate = IF @ = "live" THEN "lost" ELSE @]]

Fault(kind) ==
    /\ kind \in Faults
    /\ faults > 0
    /\ faults' = faults - 1

\* An operation of c completes and its handler leaves `then` pending.
Advance(c, done, then) == op' = [op EXCEPT ![c] = (@ \ {done}) \cup {then}]

\* start(), given that `done` led to it: a new socket starts to connect.
\* restart() is the same after close_socket() has cancelled the old one.
StartConnect(c, done) ==
    /\ Advance(c, done, "connect")
    /\ sock' = [sock EXCEPT ![c] = "none"]
    /\ writes' = [writes EXCEPT ![c] = Abandon(@)]

\* An exception leaves the handler: run_one schedules a restart.
\* Slips: it swallows the exception; the handler has restarted the connection too.
ThrowUnseen(c, done) == op' = [op EXCEPT ![c] = @ \ {done}]
ThrowAfterRestart(c, done) == op' = [op EXCEPT ![c] = (@ \ {done}) \cup {"restart", "connect"}]
Throw(c, done) == Advance(c, done, "restart")

\* reset_cache_checker: the timer is armed; a wait that was pending is aborted.
\* Slip: only a connection with a cache gets its timer.
ResetCheckerIfUsed(c) == timer' = [timer EXCEPT ![c] = cache[c] # <<>>]
ResetCacheChecker(c) == timer' = [timer EXCEPT ![c] = TRUE]

\* The callback is given success for the jobs of s.  Slip: it is forgotten.
DropSilently(s) == UNCHANGED okd
ReportSent(s) == okd' = okd \cup ToSet(s)

\* Report a transport error for the request sent last.
Blame(c) == blamed' = blamed \cup {current[c]}

Start(c) ==
    /\ "start" \in op[c]
    /\ StartConnect(c, "start")
    /\ UNCHANGED <<condVars, poolVars, pc, batch, cache, current, timer, gateVars, verdicts>>

RestartTimer(c) ==
    /\ pc[c] = "idle"
    /\ "restart" \in op[c]
    /\ StartConnect(c, "restart")
    /\ UNCHANGED <<condVars, poolVars, pc, batch, cache, current, timer, gateVars, verdicts>>

\* The pending connect or handshake fails.
Broken(c, step) ==
    /\ Fault(step)
    /\ Blame(c)
    /\ Throw(c, step)
    /\ sock' = [sock EXCEPT ![c] = "none"]
    /\ writes' = [writes EXCEPT ![c] = Abandon(@)]
    /\ UNCHANGED <<pc, timer, okd, failed, late>>

Connected(c) ==
    /\ Advance(c, "connect", "handshake")
    /\ sock' = [sock EXCEPT ![c] = "handshake"]
    /\ UNCHANGED <<pc, timer, writes, faults, verdicts>>

HandleConnect(c) ==
    /\ pc[c] = "idle"
    /\ "connect" \in op[c]
    /\ Connected(c) \/ Broken(c, "connect")
    /\ UNCHANGED <<condVars, poolVars, batch, cache, current,
                   wire, resp, lastDone, accepted, rejected>>

\* Read for the gateway's answer, arm the timer, wait for a job without looking
\* into the queue.
Established(c) ==
    /\ Advance(c, "handshake", "read")
    /\ sock' = [sock EXCEPT ![c] = "open"]
    /\ ResetCacheChecker(c)
    /\ pc' = [pc EXCEPT ![c] = "wait"]
    /\ UNCHANGED <<writes, faults, verdicts>>

HandleHandshake(c) ==
    /\ pc[c] = "idle"
    /\ "handshake" \in op[c]
    /\ Established(c) \/ Broken(c, "handshake")
    /\ UNCHANGED <<condVars, poolVars, batch, cache, current,
                   wire, resp, lastDone, accepted, rejected>>

-----------------------------------------------------------------------------
\* The answer of the gateway.

\* Where a request is in the cache.
Position(c, id) == CHOOSE i \in DOMAIN cache[c] : cache[c][i] = id
InCache(c, id)  == id \in ToSet(cache[c])
UpTo(c, id)     == SubSeq(cache[c], 1, Position(c, id))
Before(c, id)   == SubSeq(cache[c], 1, Position(c, id) - 1)
From(c, id)     == SubSeq(cache[c], Position(c, id), Len(cache[c]))
After(c, id)    == SubSeq(cache[c], Position(c, id) + 1, Len(cache[c]))

\* cache_.clear().  Slip: it is forgotten.
KeepCache(c)  == UNCHANGED cache
EmptyCache(c) == cache' = [cache EXCEPT ![c] = <<>>]

\* restart() at the end of handle_read_err.
Reconnect(c) == StartConnect(c, "read")

\* throw in handle_read_err: the socket stays as it is until the restart.
GiveUp(c) ==
    /\ Throw(c, "read")
    /\ UNCHANGED <<sock, writes>>

\* sort_cache_on_error: all before the refused request are taken as sent, it
\* is reported, all after it go back to the queue; or it is not in the cache.
FailCached(c, id) ==
    /\ InCache(c, id)
    /\ ReportSent(Before(c, id))
    /\ failed' = failed \cup {id}
    /\ PostRange(After(c, id))
    /\ EmptyCache(c)
    /\ Reconnect(c)
    /\ UNCHANGED <<late, blamed>>

FailLost(c, id) ==
    /\ ~InCache(c, id)
    /\ late' = late \cup {id}
    /\ GiveUp(c)
    /\ UNCHANGED <<condVars, poolVars, cache, okd, failed, blamed>>

SortCacheOnError(c, id) == FailCached(c, id) \/ FailLost(c, id)

\* sort_cache_on_shutdown: the request named is the last one that was sent.
ReturnRest(c, id) ==
    /\ InCache(c, id)
    /\ ReportSent(UpTo(c, id))
    /\ PostRange(After(c, id))

ReturnAll(c, id) ==
    /\ ~InCache(c, id)
    /\ PostRange(cache[c])
    /\ UNCHANGED okd

SortCacheOnShutdown(c, id) ==
    /\ ReturnRest(c, id) \/ ReturnAll(c, id)
    /\ EmptyCache(c)
    /\ Reconnect(c)
    /\ UNCHANGED <<failed, late, blamed>>

\* The read fails: nothing in the cache is sorted.
ReadEof(c) ==
    /\ Reconnect(c)
    /\ UNCHANGED <<condVars, poolVars, cache, verdicts>>

ReadFailure(c) ==
    /\ Blame(c)
    /\ GiveUp(c)
    /\ UNCHANGED <<condVars, poolVars, cache, okd, failed, late>>

\* The timer is cancelled, unless its handler is already on its way.
HandleReadErr(c) ==
    /\ pc[c] = "idle"
    /\ "read" \in op[c]
    /\ timer' \in {timer, [timer EXCEPT ![c] = FALSE]}
    /\ \/ /\ resp[c].kind = "error"
          /\ SortCacheOnError(c, resp[c].id)
       \/ /\ resp[c].kind = "shutdown"
          /\ SortCacheOnShutdown(c, resp[c].id)
       \/ /\ resp[c].kind = "eof"
          /\ ReadEof(c)
       \/ /\ resp[c].kind = "reset"
          /\ ReadFailure(c)
    /\ resp' = [resp EXCEPT ![c] = NoResp]
    /\ UNCHANGED <<pc, batch, current, wire, lastDone, accepted, rejected, faults>>

\* The confirmation delay of a cached job may be over.
Ripe(c, j) ==
    CheckTimeBigEnough =>
        /\ resp[c].kind = "none"
        /\ j \notin ToSet(wire[c])
        /\ \A i \in DOMAIN writes[c] : j \notin ToSet(writes[c][i].jobs)

\* The oldest k jobs of the cache are taken as sent; the timer is armed again.
OnCheckCache(c, k) ==
    /\ pc[c] = "idle"
    /\ timer[c]
    /\ \A i \in 1..k : Ripe(c, cache[c][i])
    /\ ReportSent(SubSeq(cache[c], 1, k))
    /\ cache' = [cache EXCEPT ![c] = SubSeq(@, k + 1, Len(@))]
    /\ ResetCacheChecker(c)
    /\ UNCHANGED <<condVars, poolVars, pc, batch, current, op, sock, writes,
                   gateVars, failed, late, blamed>>

-----------------------------------------------------------------------------
\* Sending.

\* handle_job_available starts, posted by a notification.
HandleJobAvailable(c) ==
    /\ pc[c] = "idle"
    /\ Woken(c)
    /\ pc' = [pc EXCEPT ![c] = "take"]
    /\ UNCHANGED <<poolVars, batch, cache, current, op, sock, timer, writes,
                   gateVars, verdicts>>

\* cache_.push_back.  Slip: only the first job of a batch is cached.
RememberFirst(c, j) ==
    cache' = IF batch[c] = <<>> THEN [cache EXCEPT ![c] = Append(@, j)] ELSE cache
Remember(c, j) == cache' = [cache EXCEPT ![c] = Append(@, j)]

\* One round of its loop: a job moves from the queue to the cache.
TakeJob(c, j) ==
    /\ pc[c] = "take"
    /\ Len(batch[c]) < Batch
    /\ GetNextJob(j)
    /\ Remember(c, j)
    /\ batch' = [batch EXCEPT ![c] = Append(@, j)]
    /\ current' = [current EXCEPT ![c] = IF batch[c] = <<>> THEN j ELSE @]
    /\ UNCHANGED <<condVars, pc, op, sock, timer, writes, gateVars, verdicts>>

\* What becomes of an async_write on the socket c has now, whether or not the
\* socket is connected.
FateOn(s) == CASE s = "open"      -> {"live"}
               [] s = "handshake" -> {"live", "refused"}
               [] s = "dead"      -> {"lost"}
               [] s = "none"      -> {"refused"}

\* async_write( *socket_, bufs ): an open stream takes the first buffer at once
\* and asks for the next when that one is written.
WriteOn(c, bufs) ==
    LET sent == sock[c] = "open"
    IN  /\ wire' = IF sent THEN [wire EXCEPT ![c] = Append(@, Head(bufs))] ELSE wire
        /\ \E f \in FateOn(sock[c]) :
              writes' = [writes EXCEPT ![c] =
                           Append(@, [jobs |-> IF sent THEN Tail(bufs) ELSE bufs, fate |-> f])]

\* Slip: bufs is filled from the front.
StartWriteReversed(c, bufs) == WriteOn(c, Reverse(bufs))
StartWrite(c, bufs) == WriteOn(c, bufs)

NothingToSend(c) ==
    /\ batch[c] = <<>>
    /\ pc' = [pc EXCEPT ![c] = "wait"]
    /\ UNCHANGED <<batch, writes, wire>>

Send(c) ==
    /\ batch[c] # <<>>
    /\ StartWrite(c, batch[c])
    /\ batch' = [batch EXCEPT ![c] = <<>>]
    /\ pc' = [pc EXCEPT ![c] = "idle"]

\* The loop is over: write what was taken, or wait if there was nothing.
SendBatch(c) ==
    /\ pc[c] = "take"
    /\ jobs = <<>> \/ Len(batch[c]) = Batch
    /\ NothingToSend(c) \/ Send(c)
    /\ UNCHANGED <<condVars, poolVars, cache, current, op, sock, timer,
                   resp, lastDone, accepted, rejected, faults, verdicts>>

\* wait_for_job registers the new waiter ...
WaitForJob(c) ==
    /\ pc[c] = "wait"
    /\ AsyncWait(c)
    /\ pc' = [pc EXCEPT ![c] = "swap"]
    /\ UNCHANGED <<poolVars, batch, cache, current, op, sock, timer, writes,
                   gateVars, verdicts>>

\* ... and then lets go of the old one.
SwapHandle(c) ==
    /\ pc[c] = "swap"
    /\ AssignHandle(c)
    /\ pc' = [pc EXCEPT ![c] = "idle"]
    /\ UNCHANGED <<poolVars, batch, cache, current, op, sock, timer, writes,
                   gateVars, verdicts>>

\* handle_job_available, called by handle_write.  Slip: it is not called.
StopSending(c) == UNCHANGED pc
GetNext(c) == pc' = [pc EXCEPT ![c] = "take"]

\* handle_write of c's i-th pending write.  The handler does not ask whether
\* the write was on the socket the connection has now.
HandleWrite(c, i) ==
    /\ pc[c] = "idle"
    /\ i \in DOMAIN writes[c]
    /\ LET w == writes[c][i]
       IN  \/ /\ w.fate = "lost" \/ (w.fate = "live" /\ w.jobs = <<>>)
              /\ GetNext(c)
           \/ /\ w.fate \in {"lost", "refused"}
              /\ UNCHANGED pc
    /\ writes' = [writes EXCEPT ![c] = RemoveAt(@, i)]
    /\ UNCHANGED <<condVars, poolVars, batch, cache, current, op, sock, timer,
                   gateVars, verdicts>>

-----------------------------------------------------------------------------
\* The network and the gateway, external.  A gateway that refuses a request
\* answers and closes; what it has not processed by then it never will.

Transmit(c, i) ==
    /\ sock[c] = "open"
    /\ i \in DOMAIN writes[c]
    /\ writes[c][i].fate = "live"
    /\ writes[c][i].jobs # <<>>
    /\ wire' = [wire EXCEPT ![c] = Append(@, Head(writes[c][i].jobs))]
    /\ writes' = [writes EXCEPT ![c][i].jobs = Tail(@)]
    /\ UNCHANGED <<condVars, poolVars, pc, batch, cache, current, op, sock, timer,
                   resp, lastDone, accepted, rejected, faults, verdicts>>

GatewayAccept(c) ==
    /\ wire[c] # <<>>
    /\ accepted' = accepted \cup {Head(wire[c])}
    /\ lastDone' = [lastDone EXCEPT ![c] = Head(wire[c])]
    /\ wire' = [wire EXCEPT ![c] = Tail(@)]
    /\ UNCHANGED <<condVars, poolVars, connVars, resp, rejected, faults, verdicts>>

\* The gateway ends the connection, after an answer or without one.
Hangup(c, kind, id) ==
    /\ sock[c] = "open"
    /\ Fault(kind)
    /\ resp' = [resp EXCEPT ![c] = [kind |-> IF kind = "reject" THEN "error" ELSE kind,
                                    id |-> id]]
    /\ sock' = [sock EXCEPT ![c] = "dead"]
    /\ writes' = [writes EXCEPT ![c] = Abandon(@)]
    /\ wire' = [wire EXCEPT ![c] = <<>>]
    /\ lastDone' = [lastDone EXCEPT ![c] = None]
    /\ UNCHANGED <<condVars, poolVars, pc, batch, cache, current, op, timer,
                   accepted, verdicts>>

GatewayReject(c) ==
    /\ wire[c] # <<>>
    /\ rejected' = rejected \cup {Head(wire[c])}
    /\ Hangup(c, "reject", Head(wire[c]))

GatewayShutdown(c) ==
    /\ Hangup(c, "shutdown", lastDone[c])
    /\ UNCHANGED rejected

GatewayDrop(c) ==
    /\ \E kind \in {"eof", "reset"} : Hangup(c, kind, None)
    /\ UNCHANGED rejected

-----------------------------------------------------------------------------
\* The client: apns::post.
Post(j) ==
    /\ PostPush(j)
    /\ UNCHANGED <<connVars, gateVars, verdicts>>

Notify ==
    /\ PostNotify
    /\ UNCHANGED <<connVars, gateVars, verdicts>>

Client == Notify \/ \E j \in Job : Post(j)

Handler(c) ==
    \/ Start(c)
    \/ RestartTimer(c)
    \/ HandleConnect(c)
    \/ HandleHandshake(c)
    \/ HandleReadErr(c)
    \/ \E k \in 0..Len(cache[c]) : OnCheckCache(c, k)
    \/ HandleJobAvailable(c)
    \/ \E j \in Job : TakeJob(c, j)
    \/ SendBatch(c)
    \/ WaitForJob(c)
    \/ SwapHandle(c)
    \/ \E i \in DOMAIN writes[c] : HandleWrite(c, i)

Gateway(c) ==
    \/ \E i \in DOMAIN writes[c] : Transmit(c, i)
    \/ GatewayAccept(c)
    \/ GatewayReject(c)
    \/ GatewayShutdown(c)
    \/ GatewayDrop(c)

Next == Client \/ \E c \in Conn : Handler(c) \/ Gateway(c)

Spec == Init /\ [][Next]_vars

\* Every io_service runs what is posted to it, timers fire, time passes until
\* the oldest cached job is old enough, and the gateway reads what it is sent.
Fairness ==
    /\ WF_vars(Notify)
    /\ \A c \in Conn :
        /\ WF_vars(Start(c))
        /\ WF_vars(RestartTimer(c))
        /\ WF_vars(HandleConnect(c))
        /\ WF_vars(HandleHandshake(c))
        /\ WF_vars(HandleReadErr(c))
        /\ WF_vars(\E k \in 1..Len(cache[c]) : OnCheckCache(c, k))
        /\ WF_vars(HandleJobAvailable(c))
        /\ WF_vars((\E j \in Job : TakeJob(c, j)) \/ SendBatch(c))
        /\ WF_vars(WaitForJob(c))
        /\ WF_vars(SwapHandle(c))
        /\ WF_vars(\E i \in DOMAIN writes[c] : HandleWrite(c, i))
        /\ WF_vars(\E i \in DOMAIN writes[c] : Transmit(c, i))
        /\ WF_vars(GatewayAccept(c))

FairSpec == Spec /\ Fairness
=============================================================================
