------------------------------- MODULE Service -------------------------------
(***************************************************************************)
(* The lives of the objects a client creates: providers, which register    *)
(* and own a pool, and feedback readers, which own a pool and do not       *)
(* register (apns.cpp, apns.hpp, gcm.cpp); the threads of their pools      *)
(* (detail/connection_pool.hpp); the client's io_service, where the pool   *)
(* posts the start of each connection, the reports, and the wake-ups of    *)
(* waiting connections; and the connections themselves as far as they      *)
(* start, fail, restart and end (detail/apns_feedback_connection.cpp, with *)
(* which detail/apns_connection.cpp agrees in this).                       *)
(*                                                                         *)
(* A connection is a pair of an object and a slot of its pool.             *)
(***************************************************************************)
EXTENDS Registry, Sequences, FiniteSets, SequencesExt

CONSTANTS
    Feed,          \* apns_feedback objects
    Slot,          \* connections of a pool
    StreambufMax,  \* max_size() of response_, in half packets
    MaxPackets,    \* bound on the packets of the feedback service
    MaxStarts,     \* bound on the calls of apns_feedback::start
    MaxPosts,      \* bound on the posts of the client
    Programs,      \* sets of objects a client may construct
    Configs,       \* configurations a client may choose
    MaxFaults      \* bound on failures, refusals and closed streams

Obj  == Provider \cup Feed
Conn == Obj \X Slot

\* Is there a callback?  Is there a path of a CA file?
Config == [callback : BOOLEAN, ca : BOOLEAN]

ASSUME ServiceAssumption ==
    /\ Provider \cap Feed = {}
    /\ IsFiniteSet(Slot) /\ Slot # {}
    /\ StreambufMax \in Nat \ {0, 1}
    /\ Programs \subseteq SUBSET Obj
    /\ Configs \subseteq Config
    /\ {MaxPackets, MaxStarts, MaxPosts, MaxFaults} \subseteq Nat

VARIABLES
    used,      \* the objects this client constructs
    life,      \* how far construction or destruction of an object is
    config,    \* the configuration it was constructed with
    constructed, \* history: its constructor has returned
    thread,    \* the thread of a connection, in run_one
    stopped,   \* its io_service was stopped
    op,        \* its pending operation
    waiting,   \* it is registered with the condition variable of the pool
    response,  \* response_ of a feedback connection, in half packets
    got,       \* half packets the pending async_read has transferred
    clientQ,   \* what is posted to the client's io_service
    down,      \* a handler has thrown out of the client's io_service::run
    misuse,    \* history: what used an object's members after their end
    told,      \* history: what the client was told for a connection
    packets,   \* packets the feedback service has begun, by connection
    starts, posts, faults   \* counters of the bounds

objVars  == <<used, providers, life, config, constructed>>
connVars == <<thread, stopped, op, waiting>>
feedVars == <<response, got, packets>>
clientVars == <<clientQ, down, misuse, told>>
budgets  == <<starts, posts, faults>>
vars     == <<objVars, connVars, feedVars, clientVars, budgets>>

-----------------------------------------------------------------------------
Stage  == {"new",       \* not constructed
           "base",      \* registered, no pool yet
           "pool",      \* the pool's threads run, in the constructor's body
           "ready",     \* constructed
           "ctx_gone",  \* ssl_ctx_ is destroyed, pool_ is not
           "joining",   \* ~connection_pool waits for its threads
           "pool_gone", \* pool_ is destroyed, the base is not
           "gone"}
Ops    == {"idle", "connect", "handshake", "read", "restart", "over"}
Half   == (1..MaxPackets) \X {1, 2}
Token  == 0..MaxPackets               \* 0: bytes of two packets
Event  == {<<"error", 0>>, <<"shutdown", 0>>} \cup ({"token"} \X Token)
Entry  == [what : {"start", "wake"}, conn : Conn]
            \cup [what : {"report"}, conn : Conn, event : Event]

TypeOK ==
    /\ providers \in [Key -> Provider \cup {Nobody}]
    /\ used \subseteq Obj
    /\ life \in [Obj -> Stage]
    /\ config \in [Obj -> Config]
    /\ constructed \in [Obj -> BOOLEAN]
    /\ thread \in [Conn -> {"none", "run", "ended"}]
    /\ stopped \in [Conn -> BOOLEAN]
    /\ op \in [Conn -> Ops]
    /\ waiting \in [Conn -> BOOLEAN]
    /\ response \in [Conn -> Seq(Half)]
    /\ \A c \in Conn : Len(response[c]) <= StreambufMax
    /\ got \in [Conn -> Nat]
    /\ clientQ \in Seq(Entry)
    /\ down \in BOOLEAN
    /\ misuse \subseteq {"start", "restart", "wake"} \X Obj
    /\ told \in [Conn -> Seq(Event)]
    /\ packets \in [Conn -> 0..MaxPackets]
    /\ {starts, posts, faults} \subseteq Nat

Init ==
    /\ RegistryInit
    /\ used \in Programs
    /\ life = [o \in Obj |-> "new"]
    /\ config = [o \in Obj |-> [callback |-> TRUE, ca |-> FALSE]]
    /\ constructed = [o \in Obj |-> FALSE]
    /\ thread = [c \in Conn |-> "none"]
    /\ stopped = [c \in Conn |-> FALSE]
    /\ op = [c \in Conn |-> "idle"]
    /\ waiting = [c \in Conn |-> FALSE]
    /\ response = [c \in Conn |-> <<>>]
    /\ got = [c \in Conn |-> 0]
    /\ packets = [c \in Conn |-> 0]
    /\ clientQ = <<>>
    /\ down = FALSE
    /\ misuse = {}
    /\ told = [c \in Conn |-> <<>>]
    /\ starts = MaxStarts
    /\ posts = MaxPosts
    /\ faults = MaxFaults

Conns(o) == {o} \X Slot
Owner(c) == c[1]

\* f, with the value v for the connections of o.
ForAll(f, o, v) == [c \in Conn |-> IF Owner(c) = o THEN v ELSE f[c]]

Become(o, stage) == life' = [life EXCEPT ![o] = stage]

\* Entries for some connections, in any order of theirs.
Entries(what, cs) == SetToSeq({[what |-> what, conn |-> c] : c \in cs})

CtxGone(o)  == life[o] \in {"ctx_gone", "joining", "pool_gone", "gone"}
PoolGone(o) == life[o] \in {"pool_gone", "gone"}

-----------------------------------------------------------------------------
\* Construction.  The base class comes first; a provider whose key is taken
\* is never constructed and its destructor does not run.
Register(p) ==
    /\ life[p] = "new" /\ p \in used
    /\ AddProvider(p)
    /\ Become(p, "base")
    /\ UNCHANGED <<used, config, constructed, connVars, feedVars, clientVars, budgets>>

RegisterThrows(p) ==
    /\ life[p] = "new" /\ p \in used
    /\ AlreadyRegistered(p)
    /\ Become(p, "gone")
    /\ UNCHANGED <<used, providers, config, constructed, connVars, feedVars, clientVars, budgets>>

\* A feedback reader has no base class.
Stateless(o) == IF o \in Provider THEN life[o] = "base" ELSE life[o] = "new" /\ o \in used

\* connection_pool::start: each connection's start, with the address of
\* ssl_ctx_, goes to the client's io_service.
PoolStart(o) == clientQ' = clientQ \o Entries("start", Conns(o))

\* connection_pool(): a connection and a thread for each slot.  Slip: the
\* connections are started at once, before the certificate is loaded.
SpawnStarted(o) ==
    /\ Stateless(o)
    /\ Become(o, "pool")
    /\ thread' = ForAll(thread, o, "run")
    /\ PoolStart(o)
    /\ UNCHANGED <<used, providers, config, constructed, stopped, op, waiting, feedVars, down, misuse, told, budgets>>
SpawnConnections(o) ==
    /\ Stateless(o)
    /\ Become(o, "pool")
    /\ thread' = ForAll(thread, o, "run")
    /\ UNCHANGED <<used, providers, config, constructed, stopped, op, waiting, feedVars, clientVars, budgets>>

\* connection_pool() throws for a pool of no connections.
PoolThrows(o) ==
    /\ Stateless(o)
    /\ Become(o, "pool_gone")
    /\ UNCHANGED <<used, providers, config, constructed, connVars, feedVars, clientVars, budgets>>

\* The rest of the constructor: the host is resolved, key and certificate
\* are loaded; a provider then starts its pool.
Constructed(o) ==
    /\ life[o] = "pool"
    /\ Become(o, "ready")
    /\ \E cfg \in Configs : config' = [config EXCEPT ![o] = cfg]
    /\ constructed' = [constructed EXCEPT ![o] = TRUE]
    /\ IF o \in Provider THEN PoolStart(o) ELSE UNCHANGED clientQ
    /\ UNCHANGED <<used, providers, connVars, feedVars, down, misuse, told, budgets>>

\* No address, no key, no certificate: the members are destroyed.
ConstructorThrows(o) ==
    /\ life[o] = "pool"
    /\ Become(o, "ctx_gone")
    /\ UNCHANGED <<used, providers, config, constructed, connVars, feedVars, clientVars, budgets>>

-----------------------------------------------------------------------------
\* apns_feedback::start, for a reader that is not being read.
StartFeed(f) ==
    /\ life[f] = "ready"
    /\ starts > 0
    /\ starts' = starts - 1
    /\ starts = MaxStarts \/ \A c \in Conns(f) : stopped[c]
    /\ PoolStart(f)
    /\ UNCHANGED <<objVars, connVars, feedVars, down, misuse, told, posts, faults>>

\* connection_pool::stop: every io_service is stopped.  Slip: one whose thread
\* waits for the timer of a restart is not.
StopOpen(o) ==
    stopped' = [c \in Conn |-> stopped[c] \/ (Owner(c) = o /\ op[c] # "restart")]
StopConnections(o) == stopped' = ForAll(stopped, o, TRUE)

\* apns_feedback::stop.
StopFeed(f) ==
    /\ life[f] = "ready"
    /\ starts < MaxStarts
    /\ StopConnections(f)
    /\ UNCHANGED <<objVars, thread, op, waiting, feedVars, clientVars, budgets>>

-----------------------------------------------------------------------------
\* Destruction, in reverse order of declaration: ssl_ctx_ before pool_.

Destroy(o) ==
    /\ life[o] = "ready"
    /\ Become(o, "ctx_gone")
    /\ UNCHANGED <<used, providers, config, constructed, connVars, feedVars, clientVars, budgets>>

\* ~connection_pool: stop, then join.
StopPool(o) ==
    /\ life[o] = "ctx_gone"
    /\ Become(o, "joining")
    /\ StopConnections(o)
    /\ UNCHANGED <<used, providers, config, constructed, thread, op, waiting, feedVars, clientVars, budgets>>

\* The connections of o are destroyed.
Release(o) ==
    /\ op' = ForAll(op, o, "idle")
    /\ waiting' = ForAll(waiting, o, FALSE)
    /\ response' = ForAll(response, o, <<>>)
    /\ got' = ForAll(got, o, 0)
    /\ packets' = ForAll(packets, o, 0)

\* All threads have ended; the connections go, and with them their waiters.
JoinPool(o) ==
    /\ life[o] = "joining"
    /\ \A c \in Conns(o) : thread[c] # "run"
    /\ Become(o, "pool_gone")
    /\ Release(o)
    /\ UNCHANGED <<used, providers, config, constructed, thread, stopped, clientVars, budgets>>

\* ~provider.
Unregister(o) ==
    /\ life[o] = "pool_gone"
    /\ Become(o, "gone")
    /\ IF o \in Provider THEN RemoveProvider(o) ELSE UNCHANGED providers
    /\ UNCHANGED <<used, config, constructed, connVars, feedVars, clientVars, budgets>>

\* run_one: run() has returned because the io_service is stopped.
ThreadEnds(c) ==
    /\ thread[c] = "run"
    /\ stopped[c]
    /\ thread' = [thread EXCEPT ![c] = "ended"]
    /\ UNCHANGED <<objVars, stopped, op, waiting, feedVars, clientVars, budgets>>

-----------------------------------------------------------------------------
\* The handlers of a connection, which its thread runs.

Runs(c) == thread[c] = "run" /\ ~stopped[c]

Fault == faults > 0 /\ faults' = faults - 1

Report(c, event) == Append(clientQ, [what |-> "report", conn |-> c, event |-> event])

\* start(), called by what: a new socket, made with *ssl_ctx_, starts to
\* connect.
Connect(what, c) ==
    IF CtxGone(Owner(c))
    THEN misuse' = misuse \cup {<<what, Owner(c)>>} /\ UNCHANGED op
    ELSE op' = [op EXCEPT ![c] = "connect"] /\ UNCHANGED misuse

\* start() throws: the CA file, read each time, cannot be loaded now.
CannotLoad(c) == config[Owner(c)].ca /\ ~CtxGone(Owner(c))

\* handle_connect, without an error.
HandleConnect(c) ==
    /\ Runs(c)
    /\ op[c] = "connect"
    /\ op' = [op EXCEPT ![c] = "handshake"]
    /\ UNCHANGED <<objVars, thread, stopped, waiting, feedVars, clientVars, budgets>>

\* handle_handshake, without an error: a read starts, and a connection of a
\* provider waits for a job.
HandleHandshake(c) ==
    /\ Runs(c)
    /\ op[c] = "handshake"
    /\ op' = [op EXCEPT ![c] = "read"]
    /\ waiting' = [waiting EXCEPT ![c] = Owner(c) \in Provider]
    /\ got' = [got EXCEPT ![c] = 0]
    /\ UNCHANGED <<objVars, thread, stopped, response, packets, clientVars, budgets>>

\* handle_connect, handle_handshake or handle_read with an error: it is
\* reported and thrown; run_one schedules a restart.  A socket of the next
\* start begins with a whole packet.  Slip: the exception ends the thread.
HandleErrorUncaught(c) ==
    /\ Runs(c)
    /\ op[c] \in {"connect", "handshake", "read"}
    /\ Fault
    /\ clientQ' = Report(c, <<"error", 0>>)
    /\ op' = [op EXCEPT ![c] = "restart"]
    /\ thread' = [thread EXCEPT ![c] = "ended"]
    /\ UNCHANGED <<objVars, stopped, waiting, feedVars, down, misuse, told, starts, posts>>
HandleError(c) ==
    /\ Runs(c)
    /\ op[c] \in {"connect", "handshake", "read"}
    /\ Fault
    /\ clientQ' = Report(c, <<"error", 0>>)
    /\ op' = [op EXCEPT ![c] = "restart"]
    /\ UNCHANGED <<objVars, thread, stopped, waiting, feedVars, down, misuse, told, starts, posts>>

\* The restart timer of run_one has expired: restart().  If it throws,
\* run_one arms the timer again.
Restart(c) ==
    /\ Runs(c)
    /\ op[c] = "restart"
    /\ \/ Connect("restart", c) /\ UNCHANGED faults
       \/ CannotLoad(c) /\ Fault /\ UNCHANGED <<op, misuse>>
    /\ UNCHANGED <<objVars, thread, stopped, waiting, feedVars, clientQ, down, told, starts, posts>>

\* handle_read_err of a provider's connection: an answer of the gateway is
\* reported, and the jobs posted again wake all waiting connections; the end
\* of the stream is not.  restart() follows both, and may throw.
HandleReadErr(c) ==
    LET woken == {d \in Conns(Owner(c)) : waiting[d]}
    IN  /\ Owner(c) \in Provider
        /\ Runs(c)
        /\ op[c] = "read"
        /\ Fault
        /\ \/ /\ clientQ' = Report(c, <<"error", 0>>) \o Entries("wake", woken)
              /\ waiting' = ForAll(waiting, Owner(c), FALSE)
           \/ UNCHANGED <<clientQ, waiting>>
        /\ \/ Connect("restart", c)
           \/ CannotLoad(c) /\ op' = [op EXCEPT ![c] = "restart"] /\ UNCHANGED misuse
        /\ UNCHANGED <<objVars, thread, stopped, feedVars, down, told, starts, posts>>

-----------------------------------------------------------------------------
\* The feedback: packets of two halves, the second possibly much later.

\* The half packet that follows on the stream of c.
NextHalf(c) ==
    IF got[c] > 0 /\ Last(response[c])[2] = 1
    THEN <<packets[c], 2>>
    ELSE <<packets[c] + 1, 1>>

\* async_read asks for as much as fits.  Slip: response_ has no maximum.
Boundless(c) == TRUE
HasRoom(c) == Len(response[c]) < StreambufMax

Receive(c) ==
    /\ Owner(c) \in Feed
    /\ Runs(c)
    /\ op[c] = "read"
    /\ HasRoom(c)
    /\ NextHalf(c) \in Half
    /\ response' = [response EXCEPT ![c] = Append(@, NextHalf(c))]
    /\ got' = [got EXCEPT ![c] = @ + 1]
    /\ packets' = [packets EXCEPT ![c] = NextHalf(c)[1]]
    /\ UNCHANGED <<objVars, connVars, clientVars, budgets>>

\* apns_feedback_response of the first 38 bytes.
FirstToken(s) == IF s[1][1] = s[2][1] /\ s[1][2] = 1 THEN s[1][1] ELSE 0

\* handle_read without an error, which takes a full response_.  It parses as
\* many packets as were transferred, but commits the bytes where it should
\* consume them; the read it starts again finds no room and never transfers
\* anything.
HandleRead(c) ==
    LET n == got[c] \div 2
    IN  /\ Owner(c) \in Feed
        /\ Runs(c)
        /\ op[c] = "read"
        /\ Len(response[c]) = StreambufMax
        /\ got[c] > 0
        /\ clientQ' = clientQ \o
             [i \in 1..n |-> [what |-> "report", conn |-> c,
                              event |-> <<"token", FirstToken(response[c])>>]]
        /\ got' = [got EXCEPT ![c] = 0]
        /\ UNCHANGED <<objVars, connVars, response, packets, down, misuse, told, budgets>>

\* handle_read at the end of the stream: a report, and nothing more.
HandleEof(c) ==
    /\ Owner(c) \in Feed
    /\ Runs(c)
    /\ op[c] = "read"
    /\ Fault
    /\ op' = [op EXCEPT ![c] = "over"]
    /\ clientQ' = Report(c, <<"shutdown", 0>>)
    /\ UNCHANGED <<objVars, thread, stopped, waiting, feedVars, down, misuse, told, starts, posts>>

-----------------------------------------------------------------------------
\* The client's io_service.

\* The oldest handler is taken out of the queue.
Take(what) ==
    /\ ~down
    /\ clientQ # <<>>
    /\ Head(clientQ).what = what
    /\ clientQ' = Tail(clientQ)

\* start(), on the client's thread, where nothing catches what it throws.
\* The handler keeps its connection alive, but not ssl_ctx_.
RunStart(c) ==
    /\ Take("start")
    /\ c = Head(clientQ).conn
    /\ \/ Connect("start", c) /\ UNCHANGED <<down, faults>>
       \/ CannotLoad(c) /\ Fault /\ down' = TRUE /\ UNCHANGED <<op, misuse>>
    /\ UNCHANGED <<objVars, thread, stopped, waiting, feedVars, told, starts, posts>>

\* A report.  The wrapped callback is never empty, what it wraps may be, and
\* then the call throws.  The handler holds a copy of it.
RunReport(c) ==
    /\ Take("report")
    /\ c = Head(clientQ).conn
    /\ IF config[Owner(c)].callback
       THEN told' = [told EXCEPT ![c] = Append(@, Head(clientQ).event)] /\ UNCHANGED down
       ELSE down' = TRUE /\ UNCHANGED told
    /\ UNCHANGED <<objVars, connVars, feedVars, misuse, budgets>>

\* A wake-up goes to the strand of its connection by a plain pointer.  The
\* connection takes jobs until there are none and waits again.
RunWake(c) ==
    /\ Take("wake")
    /\ c = Head(clientQ).conn
    /\ IF PoolGone(Owner(c))
       THEN misuse' = misuse \cup {<<"wake", Owner(c)>>} /\ UNCHANGED waiting
       ELSE waiting' = [waiting EXCEPT ![c] = Runs(c)] /\ UNCHANGED misuse
    /\ UNCHANGED <<objVars, thread, stopped, op, feedVars, down, told, budgets>>

\* The client posts a message: one waiting connection is woken.
Post(p) ==
    /\ life[p] = "ready"
    /\ posts > 0
    /\ posts' = posts - 1
    /\ \E c \in Conns(p) :
         /\ waiting[c]
         /\ waiting' = [waiting EXCEPT ![c] = FALSE]
         /\ clientQ' = clientQ \o Entries("wake", {c})
    /\ UNCHANGED <<objVars, thread, stopped, op, feedVars, down, misuse, told, starts, faults>>

-----------------------------------------------------------------------------
ConnStep(c) ==
    \/ ThreadEnds(c)
    \/ HandleConnect(c)
    \/ HandleHandshake(c)
    \/ HandleRead(c)
    \/ Restart(c)

ClientRuns == \E c \in Conn : RunStart(c) \/ RunReport(c) \/ RunWake(c)

DestructorStep(o) == StopPool(o) \/ JoinPool(o) \/ Unregister(o)

Network(c) == HandleError(c) \/ HandleEof(c) \/ HandleReadErr(c) \/ Receive(c)

Construction(o) ==
    \/ SpawnConnections(o)
    \/ PoolThrows(o)
    \/ Constructed(o)
    \/ ConstructorThrows(o)

Next ==
    \/ \E p \in Provider : Register(p) \/ RegisterThrows(p) \/ Post(p)
    \/ \E f \in Feed : StartFeed(f) \/ StopFeed(f)
    \/ \E o \in Obj : Construction(o) \/ Destroy(o) \/ DestructorStep(o)
    \/ \E c \in Conn : ConnStep(c) \/ Network(c)
    \/ ClientRuns

Spec == Init /\ [][Next]_vars

\* Threads and io_services run what they can; a destructor that has begun
\* goes on.  Nothing is assumed of the client and of failures.
FairSpec ==
    /\ Spec
    /\ \A c \in Conn : WF_vars(ConnStep(c))
    /\ \A o \in Obj : WF_vars(DestructorStep(o))
    /\ WF_vars(ClientRuns)
=============================================================================
