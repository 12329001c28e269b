---------------------------- MODULE GcmConnection ----------------------------
(***************************************************************************)
(* detail/gcm_connection.cpp and gcm_request.cpp: the connections of a GCM *)
(* provider on top of the pool they share, and (external) the HTTP server. *)
(* A connection sends one request, reads the response line by line out of  *)
(* the buffer response_, gives the verdict and waits for the next job on   *)
(* the same socket.  The bytes of a response are tokens: texts and ends of *)
(* lines.  They arrive in pieces cut between any two tokens.               *)
(*                                                                         *)
(* As for APNs the handlers of a connection never overlap; only its calls  *)
(* of the pool and of the waiters' list are steps of their own.            *)
(***************************************************************************)
EXTENDS ConnectionPool

CONSTANTS
    None,       \* no job: the identifier of a request never assigned
    Results,    \* how the server answers: a subset of Result
    Faults,     \* what can go wrong outside the program
    MaxFaults   \* bound on how often it does

Result == {"sent",     \* 200, and the message was accepted
           "entry",    \* 200, and the entry of the device holds an error
           "refused"}  \* another status

ASSUME NoneAssumption == None \notin Job
ASSUME ResultAssumption == Results \subseteq Result
ASSUME FaultAssumption ==
    /\ Faults \subseteq {"connect", "handshake", "drop"}
    /\ MaxFaults \in Nat

VARIABLES
    pc,     \* where c's thread is in wait_for_job
    op,     \* the pending asynchronous operations
    sock,   \* socket_
    fresh,  \* new_request_
    req,    \* current_req_.request_, the requests it holds
    ident,  \* current_req_.ident_
    size,   \* cur_chunk_size_
    buf,    \* response_
    body    \* current_res_json_

\* The server's end, external.
VARIABLES
    todo,     \* requests received on the current socket, not processed
    net,      \* tokens sent on the current socket, not read
    served,   \* history: jobs processed
    accepted, \* history: jobs accepted
    faults    \* faults left

\* The verdicts the client's callback has been given.
VARIABLES
    told,     \* the verdict on each job
    dropped   \* jobs an exception has forgotten without a verdict

connVars == <<pc, op, sock, fresh, req, ident, size, buf, body>>
gateVars == <<todo, net, served, accepted, faults>>
verdicts == <<told, dropped>>
vars     == <<condVars, poolVars, connVars, gateVars, verdicts>>

-----------------------------------------------------------------------------
Reads  == {"status", "headers", "size", "body", "footers"}
Flight == Reads \cup {"write"}
Ops    == Flight \cup {"start", "connect", "handshake", "restart"}

Texts == {"status", "header", "size", "part", "rest", "zero"}
Token == [text : Texts, job : Job, result : Result]
NL    == [text |-> "nl"]
Bytes == Seq(Token \cup {NL})

\* A response with one chunk, which consists of part and rest.
Answer(j, r) ==
    LET t(text) == [text |-> text, job |-> j, result |-> r]
    IN  <<t("status"), NL, t("header"), NL, NL,
          t("size"), NL, t("part"), t("rest"), NL, t("zero"), NL, NL>>

\* What has been put into current_res_json_.
Empty  == [json |-> "empty"]
Broken == [json |-> "broken"]
Whole(t) == [json |-> "whole", job |-> t.job, result |-> t.result]
Body   == {Empty, Broken} \cup [json : {"whole"}, job : Job, result : Result]

TypeOK ==
    /\ PoolTypeOK
    /\ pc \in [Conn -> {"idle", "wait", "swap"}]
    /\ op \in [Conn -> SUBSET Ops]
    /\ sock \in [Conn -> {"none", "open", "dead"}]
    /\ fresh \in [Conn -> BOOLEAN]
    /\ req \in [Conn -> Seq(Job)]
    /\ ident \in [Conn -> Job \cup {None}]
    /\ size \in [Conn -> {"unset", "zero", "chunk", "junk"}]
    /\ buf \in [Conn -> Bytes]
    /\ body \in [Conn -> Body]
    /\ todo \in [Conn -> Seq(Job)]
    /\ net \in [Conn -> Bytes]
    /\ served \subseteq Job
    /\ accepted \subseteq Job
    /\ faults \in Nat
    /\ told \in [Job -> {"nothing", "success", "error"}]
    /\ dropped \subseteq Job

Init ==
    /\ PoolInit
    /\ pc = [c \in Conn |-> "idle"]
    /\ op = [c \in Conn |-> {"start"}]
    /\ sock = [c \in Conn |-> "none"]
    /\ fresh = [c \in Conn |-> TRUE]
    /\ req = [c \in Conn |-> <<>>]
    /\ ident = [c \in Conn |-> None]
    /\ size = [c \in Conn |-> "unset"]
    /\ buf = [c \in Conn |-> <<>>]
    /\ body = [c \in Conn |-> Empty]
    /\ todo = [c \in Conn |-> <<>>]
    /\ net = [c \in Conn |-> <<>>]
    /\ served = {}
    /\ accepted = {}
    /\ faults = MaxFaults
    /\ told = [j \in Job |-> "nothing"]
    /\ dropped = {}

-----------------------------------------------------------------------------
\* The buffer.

HasLine(s)  == \E i \in DOMAIN s : s[i] = NL
HasBlank(s) == \E i \in DOMAIN s \ {1} : s[i - 1] = NL /\ s[i] = NL

\* getline at position i.
AfterLine(s, i) == SubSeq(s, Min({k \in i..Len(s) : s[k] = NL} \cup {Len(s)}) + 1, Len(s))

\* getline until a line is empty, or the buffer is.
AfterBlank(s) ==
    LET blank == {i \in DOMAIN s : s[i] = NL /\ (i > 1 => s[i - 1] = NL)}
    IN  SubSeq(s, Min(blank \cup {Len(s)}) + 1, Len(s))

\* Extracting a word skips ends of lines: where the first word is, or 0.
FirstWord(s) == SelectInSeq(s, LAMBDA t : t # NL)

\* What may be left when a version and a number have been looked for in something
\* that is no status line: at most two words and the rest of their lines are gone.
Garbled(s) ==
    LET gone(n) == {i \in 1..n : s[i] # NL /\ (i > 1 => s[i - 1] = NL)}
    IN  {SubSeq(s, n + 1, Len(s)) : n \in {k \in 0..Len(s) : Cardinality(gone(k)) <= 2}}

\* match_exact_size counts to its size without advancing, so one byte is enough.
MatchAny(s) == s # <<>>

\* The operation o of c finds what it waits for.
Matched(c, o) ==
    CASE o \in {"status", "size", "footers"} -> HasLine(buf[c])
      [] o = "headers"                       -> HasBlank(buf[c])
      [] o = "body"                          -> MatchAny(buf[c])

\* The handler of the read o may run.
Reading(c, o) ==
    /\ pc[c] = "idle"
    /\ o \in op[c]
    /\ Matched(c, o)

-----------------------------------------------------------------------------
\* Steps of the lifecycle.

Advance(c, done, then) == op' = [op EXCEPT ![c] = (@ \ {done}) \cup {then}]
Finish(c, done)        == op' = [op EXCEPT ![c] = @ \ {done}]

Fault(kind) ==
    /\ kind \in Faults
    /\ faults > 0
    /\ faults' = faults - 1

\* start(): a new socket starts to connect.  response_ stays as it is.
StartConnect(c, done) ==
    /\ Advance(c, done, "connect")
    /\ sock' = [sock EXCEPT ![c] = "none"]
    /\ todo' = [todo EXCEPT ![c] = <<>>]
    /\ net' = [net EXCEPT ![c] = <<>>]

\* An exception leaves the handler: run_one schedules a restart.
\* Slips: it swallows the exception; the handler has restarted the connection too.
ThrowUnseen(c, done) == op' = [op EXCEPT ![c] = @ \ {done}]
ThrowAfterRestart(c, done) == op' = [op EXCEPT ![c] = (@ \ {done}) \cup {"restart", "connect"}]
Throw(c, done) == Advance(c, done, "restart")

Start(c) ==
    /\ "start" \in op[c]
    /\ StartConnect(c, "start")
    /\ UNCHANGED <<condVars, poolVars, pc, fresh, req, ident, size, buf, body,
                   served, accepted, faults, verdicts>>

RestartTimer(c) ==
    /\ pc[c] = "idle"
    /\ "restart" \in op[c]
    /\ StartConnect(c, "restart")
    /\ UNCHANGED <<condVars, poolVars, pc, fresh, req, ident, size, buf, body,
                   served, accepted, faults, verdicts>>

Connected(c) ==
    /\ Advance(c, "connect", "handshake")
    /\ UNCHANGED faults

ConnectFails(c, step) ==
    /\ Fault(step)
    /\ Throw(c, step)

HandleConnect(c) ==
    /\ pc[c] = "idle"
    /\ "connect" \in op[c]
    /\ Connected(c) \/ ConnectFails(c, "connect")
    /\ UNCHANGED <<condVars, poolVars, pc, sock, fresh, req, ident, size, buf, body,
                   todo, net, served, accepted, verdicts>>

Established(c) ==
    /\ Finish(c, "handshake")
    /\ sock' = [sock EXCEPT ![c] = "open"]
    /\ fresh' = [fresh EXCEPT ![c] = TRUE]
    /\ pc' = [pc EXCEPT ![c] = "wait"]
    /\ UNCHANGED faults

HandleHandshake(c) ==
    /\ pc[c] = "idle"
    /\ "handshake" \in op[c]
    /\ \/ Established(c)
       \/ ConnectFails(c, "handshake") /\ UNCHANGED <<pc, sock, fresh>>
    /\ UNCHANGED <<condVars, poolVars, req, ident, size, buf, body,
                   todo, net, served, accepted, verdicts>>

-----------------------------------------------------------------------------
\* Sending a request.

\* current_req_ = *job: gcm_request::operator= appends to the stream.
AppendRequest(c, j) == req' = [req EXCEPT ![c] = Append(@, j)]

\* async_write of everything the stream holds.
SendJob(c, j) ==
    /\ GetNextJob(j)
    /\ AppendRequest(c, j)
    /\ ident' = [ident EXCEPT ![c] = j]
    /\ body' = [body EXCEPT ![c] = Empty]
    /\ op' = [op EXCEPT ![c] = @ \cup {"write"}]
    /\ todo' = IF sock[c] = "open" THEN [todo EXCEPT ![c] = @ \o req'[c]] ELSE todo
    /\ UNCHANGED pc

NoJob(c) ==
    /\ jobs = <<>>
    /\ pc' = [pc EXCEPT ![c] = "wait"]
    /\ UNCHANGED <<poolVars, req, ident, body, op, todo>>

HandleJobAvailable(c) ==
    /\ pc[c] = "idle"
    /\ Woken(c)
    /\ NoJob(c) \/ \E j \in Job : SendJob(c, j)
    /\ UNCHANGED <<sock, fresh, size, buf, net, served, accepted, faults, verdicts>>

\* wait_for_job registers the new waiter ...
WaitForJob(c) ==
    /\ pc[c] = "wait"
    /\ AsyncWait(c)
    /\ pc' = [pc EXCEPT ![c] = "swap"]
    /\ UNCHANGED <<poolVars, op, sock, fresh, req, ident, size, buf, body,
                   gateVars, verdicts>>

\* ... and then lets go of the old one.
SwapHandle(c) ==
    /\ pc[c] = "swap"
    /\ AssignHandle(c)
    /\ pc' = [pc EXCEPT ![c] = "idle"]
    /\ UNCHANGED <<poolVars, op, sock, fresh, req, ident, size, buf, body,
                   gateVars, verdicts>>

\* A handler throws: the job in flight is forgotten.
\* Slip: the error is ignored and the operation is started again.
TryAgain(c, done) == UNCHANGED <<op, dropped>>
GiveUp(c, done) ==
    /\ Throw(c, done)
    /\ dropped' = dropped \cup {ident[c]}

\* Only the first response on a socket has its status line read.
FirstRead(c) == IF fresh[c] THEN "status" ELSE "headers"

\* A write to a socket the other end has closed may succeed.
HandleWrite(c) ==
    /\ pc[c] = "idle"
    /\ "write" \in op[c]
    /\ \/ /\ Advance(c, "write", FirstRead(c))
          /\ UNCHANGED dropped
       \/ /\ sock[c] = "dead"
          /\ GiveUp(c, "write")
    /\ UNCHANGED <<condVars, poolVars, pc, sock, fresh, req, ident, size, buf, body,
                   gateVars, told>>

-----------------------------------------------------------------------------
\* Reading the response.

\* callback_(error, current_req_.ident_).
Tell(c, verdict) == told' = [told EXCEPT ![ident[c]] = verdict]

StatusOk(c, w) ==
    /\ Advance(c, "status", "headers")
    /\ buf' = [buf EXCEPT ![c] = AfterLine(@, w)]
    /\ UNCHANGED <<sock, todo, net, told>>

\* Another status: report it and connect anew.  The rest of the response is dropped
\* with the socket, except for what is in the buffer.
StatusRefused(c, w) ==
    /\ Tell(c, "error")
    /\ buf' = [buf EXCEPT ![c] = AfterLine(@, w)]
    /\ StartConnect(c, "status")

\* invalid_response: something else was in the buffer.
NoStatus(c) ==
    /\ Tell(c, "error")
    /\ \E rest \in Garbled(buf[c]) : buf' = [buf EXCEPT ![c] = rest]
    /\ StartConnect(c, "status")

HandleReadStatusline(c) ==
    /\ Reading(c, "status")
    /\ LET w == FirstWord(buf[c])
           isStatus == w > 0 /\ buf[c][w].text = "status"
       IN  \/ isStatus /\ buf[c][w].result # "refused" /\ StatusOk(c, w)
           \/ isStatus /\ buf[c][w].result = "refused" /\ StatusRefused(c, w)
           \/ ~isStatus /\ NoStatus(c)
    /\ UNCHANGED <<condVars, poolVars, pc, fresh, req, ident, size, body,
                   served, accepted, faults, dropped>>

HandleReadHeaders(c) ==
    /\ Reading(c, "headers")
    /\ buf' = [buf EXCEPT ![c] = AfterBlank(@)]
    /\ fresh' = [fresh EXCEPT ![c] = FALSE]
    /\ Advance(c, "headers", "size")
    /\ UNCHANGED <<condVars, poolVars, pc, sock, req, ident, size, body,
                   gateVars, verdicts>>

\* What the extraction of a hexadecimal number makes of cur_chunk_size_ when the
\* line begins with t.  An empty line leaves the variable alone, which at first
\* has not been initialized; another text may begin with a digit or not.
Extracted(t, old) ==
    CASE t.text = "size"                  -> {"chunk"}
      [] t.text = "zero"                  -> {"zero"}
      [] t.text = "nl" /\ old # "unset"   -> {old}
      [] OTHER                            -> {"zero", "junk"}

HandleReadChunkSize(c) ==
    /\ Reading(c, "size")
    /\ \E new \in Extracted(Head(buf[c]), size[c]) :
         /\ size' = [size EXCEPT ![c] = new]
         /\ Advance(c, "size", IF new = "zero" THEN "footers" ELSE "body")
    /\ buf' = [buf EXCEPT ![c] = AfterLine(@, 1)]
    /\ UNCHANGED <<condVars, poolVars, pc, sock, fresh, req, ident, body,
                   gateVars, verdicts>>

\* current_res_json_.append: the parser reads the first value and ignores the rest.
AppendBody(c, b) == body' = [body EXCEPT ![c] = IF @ = Empty THEN b ELSE @]

NextChunk(c) ==
    /\ Advance(c, "body", "size")
    /\ UNCHANGED dropped

\* The buffer begins with a whole chunk.
HasChunk(s) ==
    /\ Len(s) >= 2
    /\ s[1].text = "part"
    /\ s[2].text = "rest"

\* The chunk is taken, and two bytes more if they are there.
WholeChunk(c) ==
    /\ HasChunk(buf[c])
    /\ size[c] = "chunk"
    /\ buf' = [buf EXCEPT ![c] = SubSeq(@, 4, Len(@))]
    /\ AppendBody(c, Whole(buf[c][1]))
    /\ NextChunk(c)

\* The chunk is not there in full, or the buffer or the size is something else:
\* what is there is taken, as far as the size says, and the rest are zeros.  More
\* than the chunk will do for the parser.
WrongChunk(c) ==
    /\ ~(HasChunk(buf[c]) /\ size[c] = "chunk")
    /\ \E n \in 1..Len(buf[c]) :
         /\ buf' = [buf EXCEPT ![c] = SubSeq(@, n + 1, Len(@))]
         /\ AppendBody(c, IF HasChunk(SubSeq(buf[c], 1, n)) THEN Whole(buf[c][1]) ELSE Broken)
    /\ NextChunk(c)

\* There is no memory for so many bytes.
TooBig(c) ==
    /\ size[c] = "junk"
    /\ GiveUp(c, "body")
    /\ UNCHANGED <<buf, body>>

HandleReadBody(c) ==
    /\ Reading(c, "body")
    /\ WholeChunk(c) \/ WrongChunk(c) \/ TooBig(c)
    /\ UNCHANGED <<condVars, poolVars, pc, sock, fresh, req, ident, size,
                   gateVars, told>>

\* gcm_response: the entries of the response are parsed but have no part in
\* to_error_code.  The body of a refusal is no JSON.
Success(b) == b.json = "whole" /\ b.result # "refused"

Conclude(c) ==
    /\ Tell(c, IF Success(body[c]) THEN "success" ELSE "error")
    /\ Finish(c, "footers")
    /\ pc' = [pc EXCEPT ![c] = "wait"]
    /\ UNCHANGED dropped

\* get_obj throws: what was read is a value but no object.
NoObject(c) ==
    /\ body[c] = Broken
    /\ GiveUp(c, "footers")
    /\ UNCHANGED <<pc, told>>

HandleSkipFooters(c) ==
    /\ Reading(c, "footers")
    /\ buf' = [buf EXCEPT ![c] = AfterBlank(@)]
    /\ Conclude(c) \/ NoObject(c)
    /\ UNCHANGED <<condVars, poolVars, sock, fresh, req, ident, size, body, gateVars>>

\* The server has closed and what it has sent is not what is waited for.
ReadFails(c, o) ==
    /\ pc[c] = "idle"
    /\ o \in op[c]
    /\ ~Matched(c, o)
    /\ sock[c] = "dead"
    /\ net[c] = <<>>
    /\ GiveUp(c, o)
    /\ UNCHANGED <<condVars, poolVars, pc, sock, fresh, req, ident, size, buf, body,
                   gateVars, told>>

\* async_read_until: n more tokens.
Receive(c, n) ==
    /\ \E o \in Reads \cap op[c] : ~Matched(c, o)
    /\ buf' = [buf EXCEPT ![c] = @ \o SubSeq(net[c], 1, n)]
    /\ net' = [net EXCEPT ![c] = SubSeq(@, n + 1, Len(@))]
    /\ UNCHANGED <<condVars, poolVars, pc, op, sock, fresh, req, ident, size, body,
                   todo, served, accepted, faults, verdicts>>

-----------------------------------------------------------------------------
\* The server, external.

Serve(c, r) ==
    /\ sock[c] = "open"
    /\ todo[c] # <<>>
    /\ LET j == Head(todo[c])
       IN  /\ net' = [net EXCEPT ![c] = @ \o Answer(j, r)]
           /\ served' = served \cup {j}
           /\ accepted' = IF r = "sent" THEN accepted \cup {j} ELSE accepted
    /\ todo' = [todo EXCEPT ![c] = Tail(@)]
    /\ UNCHANGED <<condVars, poolVars, connVars, faults, verdicts>>

\* The connection breaks; what is on its way may arrive or not.
Drop(c) ==
    /\ sock[c] = "open"
    /\ Fault("drop")
    /\ sock' = [sock EXCEPT ![c] = "dead"]
    /\ todo' = [todo EXCEPT ![c] = <<>>]
    /\ net' \in {net, [net EXCEPT ![c] = <<>>]}
    /\ UNCHANGED <<condVars, poolVars, pc, op, fresh, req, ident, size, buf, body,
                   served, accepted, verdicts>>

\* A connection on which there is nothing to do is closed some time.
IdleClose(c) ==
    /\ sock[c] = "open"
    /\ todo[c] = <<>>
    /\ net[c] = <<>>
    /\ sock' = [sock EXCEPT ![c] = "dead"]
    /\ UNCHANGED <<condVars, poolVars, pc, op, fresh, req, ident, size, buf, body,
                   gateVars, verdicts>>

-----------------------------------------------------------------------------
\* The client: gcm::post.
Post(j) ==
    /\ PostPush(j)
    /\ UNCHANGED <<connVars, gateVars, verdicts>>

Notify ==
    /\ PostNotify
    /\ UNCHANGED <<connVars, gateVars, verdicts>>

Read(c) ==
    \/ HandleReadStatusline(c)
    \/ HandleReadHeaders(c)
    \/ HandleReadChunkSize(c)
    \/ HandleReadBody(c)
    \/ HandleSkipFooters(c)
    \/ \E o \in Reads : ReadFails(c, o)
    \/ \E n \in 1..Len(net[c]) : Receive(c, n)

Handler(c) ==
    \/ Start(c)
    \/ RestartTimer(c)
    \/ HandleConnect(c)
    \/ HandleHandshake(c)
    \/ HandleJobAvailable(c)
    \/ HandleWrite(c)
    \/ Read(c)
    \/ WaitForJob(c)
    \/ SwapHandle(c)

Server(c) ==
    \/ \E r \in Results : Serve(c, r)
    \/ Drop(c)
    \/ IdleClose(c)

Next ==
    \/ Notify
    \/ \E j \in Job : Post(j)
    \/ \E c \in Conn : Handler(c) \/ Server(c)

Spec == Init /\ [][Next]_vars

\* Every io_service runs what is posted to it, the server answers what it
\* receives, and closes connections that are not used.
Fairness ==
    /\ WF_vars(Notify)
    /\ \A c \in Conn :
        /\ WF_vars(Handler(c))
        /\ WF_vars(\E r \in Results : Serve(c, r))
        /\ WF_vars(IdleClose(c))

FairSpec == Spec /\ Fairness
=============================================================================
