# A TLA+ verification of push_service

push_service is a C++ library that sends push notifications to Apple's gateway
(APNs) and to Google's (GCM). A client posts messages from its own threads; a
pool of connections, each with a thread of its own, sends them and tells the
client through a callback what became of each. This directory models the library
but for its certificates and its tables of texts, checks it with TLC and proves
the most important facts about it with TLAPS. There are four models: the APNs
connections and the GCM connections with the pool and its jobs, the lives of the
objects a client creates, and the texts and frames on the wires.

Paths below are relative to the repository; `A` stands for
`src/detail/apns_connection.cpp`, `P` for
`include/push_service/detail/connection_pool.hpp`, `V` for
`include/push_service/detail/async_condition_variable.hpp`, `G` for
`src/detail/gcm_connection.cpp` and `F` for
`src/detail/apns_feedback_connection.cpp`. Section 1 describes the system,
section 2 the modules; sections 3 to 6 take the four models in turn, section 7 has
the proofs, section 8 what is left out, and section 9 what could come next.

## 1. The system

| Component | State | Operations | What makes it correct |
|---|---|---|---|
| `async_condition_variable` (V) | `waiters_`: handlers waiting for a notification, oldest first | `async_wait`, `notify_one`, `notify_all`, `~handle`/`disconnect` | a waiter is notified at most once; destroying a handle removes its own waiter and no other; waiters do not pile up |
| `connection_pool` (P) | `jobs_`: the queue; the threads; the connections | `post(job)`, `post(begin, end)`, `get_next_job`, `start`, `stop`, `run_one` (restart after an exception) | a job is in one place; a posted job is taken at last; a connection whose handler threw is restarted, once |
| `apns_connection` (A) | `cache_` (sent, not settled), `current_req_`, the socket, the cache checker's timer, `wait_handle_`, pending asynchronous operations | `start`, `restart`, `handle_connect`, `handle_handshake`, `handle_job_available`, `handle_write`, `handle_read_err` with `sort_cache_on_error` and `sort_cache_on_shutdown`, `on_check_cache`, `stop` | every job gets one verdict and the right one; failures bring the connection back; it never goes deaf |
| APNs gateway and TLS transport | outside the repository | accepts, refuses, shuts down, drops | external |
| `apns_request`, `apns_response` | a framed message; six bytes of an answer | constructors, `to_error_code` | the gateway finds every frame where it begins; an answer is read as it was written |
| GCM server and TLS transport | outside the repository | answers requests in order, closes idle connections, breaks | external |
| `gcm_request`, `gcm_response` | the bytes of a request; the entries of a response | copy and assignment, `to_error_code` | a copy is the same request; the verdict follows from the response |
| `apns`, `gcm` providers | the pool, the ssl context, the key | constructor, `post`, destructor, the message builders | nothing of a provider is used after it is destroyed; its destructor ends; the gateway finds the message the client has filled in |
| `apns_feedback` (F) | `response_`, filled from the stream of device tokens | constructor, `start`, `stop`, destructor; connect, read, process, restart | what is reported stands on the stream |
| `gcm_connection` (G) | one request in flight, the response buffer, `new_request_` | connect, write, read status line, headers, chunks, footers | one verdict for each request; responses stay in step with requests |
| registry (`push_service`, `push_provider`) | plain pointers to providers, by key | `add_provider`, `remove_provider` | a provider is found exactly while it lives |
| `json_spirit` | the value under construction and plain pointers into it | `write_string` with its options, `read_string` | exactly JSON is accepted; what is written is read back; no pointer dangles |
| p12, errors, exceptions, log, test program | none of their own | | |

### How the parts interact

* A client thread calls `apns::post` (or `gcm::post`), which pushes a request
  onto `jobs_` under the pool's mutex and, **after releasing it**, notifies one
  waiter (P 81-89).
* Each connection owns an `io_service` and one thread that runs it
  (`run_one`, P 126-150), so the handlers of one connection never overlap.
  Handlers of different connections, and the clients, do.
* A waiter is a handler registered by `wait_for_job`. A notification posts it
  to the *client's* `io_service`, whose run forwards it to the connection's
  strand; so a notified connection runs `handle_job_available` some time later,
  and much may happen in between.
* `handle_job_available` moves up to 16 jobs from `jobs_` to `cache_`, one at a
  time and each under the pool's mutex, and starts an `async_write` for them; if
  there were none it registers a waiter again.
* The gateway is silent about what it accepts. It answers only to refuse a
  request or to announce a shutdown, names a request in the answer, and closes.
  Hence the cache: a job leaves it when it is old enough (`on_check_cache`,
  reported as sent), or when an answer sorts it: before the named request
  everything is taken as sent, after it everything goes back to the queue.
* A GCM connection takes one job for each notification, writes it, reads the
  response with five kinds of handlers (status line, headers, chunk size, chunk,
  footers) out of one buffer, reports, and waits for the next job on the same
  socket. It has no cache: a job is in flight or settled.
* A handler that throws makes `run_one` schedule `restart()` on a timer.
* The start of every connection, every callback and every wake-up of a waiting
  connection goes through the *client's* `io_service`, which the client runs and
  which outlives the objects: what is posted there can run when the object it
  speaks of is gone.
* Providers register in the constructor of their base class and unregister in its
  destructor; a feedback reader has a pool and is not registered. Members are
  destroyed in reverse order of declaration: the ssl context before the pool.

### What is hard

Handlers that were registered before a failure and run after it; a job between
two threads that hold different mutexes; a write that completes when its socket
has been replaced; a timer that expires while it is being cancelled; an answer
that names a request that has left the cache; error paths that must bring the
connection back exactly once; for GCM, responses that arrive in pieces, and a
buffer and a request that survive what they belonged to; constructors that throw half
way and destructors that run against threads and queues that still refer to the
object; bytes of an answer that stay behind when a socket breaks; a recursive
reader that keeps pointers into vectors it goes on filling. `PROJECT.json` lists
each under `hazards` with the line where it bites and the properties that would
catch it.

## 2. Modules

| Module | What it is | Models |
|---|---|---|
| `JobLedger` | abstract specification: each job is unposted, queued, held by one connection or settled | what the pool promises of a job |
| `AsyncCondVar` | waiters and notifications on their way | V |
| `ConnectionPool` (extends it) | the queue and the two ways to post | P |
| `ApnsConnection` (extends it) | the connections, the gateway, the client; `Spec`, `FairSpec` | A, `run_one`, `apns::post` |
| `ApnsProperties` (extends it) | all properties and the refinement mapping | |
| `GcmConnection` (extends `ConnectionPool`) | the connections, the HTTP server, the client; `Spec`, `FairSpec` | G, `gcm_request.cpp`, `gcm_response.cpp`, `run_one`, `gcm::post` |
| `GcmProperties` (extends it) | all properties and the refinement of the same `JobLedger` | |
| `Registry` | providers by key | `push_service.cpp`, `push_provider.cpp` |
| `Service` (extends it) | the objects' lives, the threads of their pools, the client's `io_service`, the connections as far as they start, fail, restart and end; `Spec`, `FairSpec` | `apns.cpp`, `apns.hpp`, `gcm.cpp`, P, F, and A where it agrees with F |
| `ServiceProperties` (extends it) | all its properties: what holds, and what the repository says and the code does not keep | |
| `JsonValue` | values | `json_spirit_value.h` |
| `JsonWriter`, `JsonReader` (each extends the one before) | the text of a value as tokens; the reader as a machine that takes tokens one by one | `json_spirit_writer_template.h`, `json_spirit_reader_template.h` |
| `Messages` (extends `JsonValue`) | messages as values, and what a response makes of one | `apns.cpp`, `gcm.cpp`, `gcm_response.cpp` |
| `JsonText` (extends `JsonReader`, `Messages`) | a document that is written and read, or any tokens at all | the two directions a text takes |
| `ApnsStream` | frames to the gateway, and the bytes of its answers; `StreamSpec` | `apns_request.cpp`, `apns_response.cpp`, the reads of A |
| `Formats` (extends `JsonText`, `ApnsStream`) | both, side by side: a behaviour is one of a text or one of a stream | |
| `FormatsProperties` (extends it) | the reference definitions and properties of both | |
| `MCApns`, `MCGcm`, `MCService`, `MCFormats` | symmetry sets, keys, documents and tokens for TLC; the `.cfg` files instantiate them | |
| `SequenceLemmas` | facts about the elements of sequences; induction as a fact about sets of numbers | |
| `ApnsProofs`, `ApnsOrderProofs` | theorems about `ApnsConnection` | |
| `GcmProofs` | theorems about `GcmConnection` | |
| `ServiceProofs` | theorems about `Service` | |
| `ApnsStreamProofs` | theorems about `ApnsStream` | |
| `ReaderProofs`, `TextProofs` (extends it) | theorems about the texts of `Formats` | |

Definitions whose comment speaks of a *slip* are what a plausible mistake in the
code would look like (a forgotten `cache_.clear()`, a handle that is leaked, a
timer armed only sometimes). The specification does not use them; each stands
before the definition it would replace, and shows that a property notices.

## 3. APNs

### State and code

| Variable | In the code |
|---|---|
| `waiters` | `waiters_` (V). An entry is a connection and a role: the waiter its `wait_handle_` stands for (`held`) or the one just registered and not assigned yet (`new`). The role stands for the 64-bit identity that `handle` compares |
| `wake[c]` | handlers of `c` that were notified and have not run: posted to the client's `io_service` or to the strand |
| `jobs` | `jobs_` (P) |
| `notifying` | threads in `post(job)` between the unlock and `notify_one` |
| `pc[c]`, `batch[c]` | how far `handle_job_available` is, and `bufs` |
| `cache[c]`, `current[c]` | `cache_`, `current_req_`; a request is its identifier |
| `op[c]` | pending asynchronous operations that lead the connection on: the posted `start`, the connect, the handshake, the read of the answer, the restart timer |
| `sock[c]` | `socket_`: none or connecting, in the handshake, open, or closed by the other end and not noticed yet |
| `timer[c]` | an `on_check_cache` is scheduled that was not cancelled in time |
| `writes[c]` | pending `async_write`s: the buffers not yet on the wire, and the fate of the operation |
| `wire`, `resp`, `lastDone`, `accepted`, `rejected`, `faults` | the gateway |
| `okd`, `failed`, `late`, `blamed` | what the callback was told: sent; refused; refused but not in the cache; a transport error |
| `posted` | history: what clients have posted |

Actions are named after the handlers they model. `handle_job_available` is four
kinds of steps, because other threads get in between them: `TakeJob` (one
`get_next_job`), `SendBatch`, `WaitForJob` (`async_wait` has registered the new
waiter) and `SwapHandle` (the assignment destroys the old handle, which
disconnects the old waiter). Every other handler is one step: what it does to
shared state happens under one lock. `HandleReadErr` contains all of
`sort_cache_on_error`, `sort_cache_on_shutdown`, the eof case and the throws;
`PostRange` in it is the pool's `post(begin, end)`, which pushes and notifies
under the lock; the cache is cleared in the same step because only this
connection's thread reads it and a job taken meanwhile by another connection is
a copy.

Three things follow the code although they look odd:

* `StartWrite` does not ask whether the socket is connected. The code writes to
  `*socket_` whatever state it is in. On an open socket the first buffer leaves
  and the rest follow one by one (`Transmit`), as the composed write of a TLS
  stream does; on one that is not connected the write fails; during a handshake
  it may do either.
* `HandleWrite` takes the next jobs when *any* write completes, also one on a
  socket that has been replaced, and does nothing at all when one fails.
* A waiter survives the disconnection of its connection.

### Assumptions

* Clients give every message an identifier of its own (the code compares
  nothing else), and identifier 0 is not used (`None`).
* `ca_certificate_path` is empty or can be loaded, so `start()` does not throw.
* The client's `io_service` runs as long as the pool exists.
* The six bytes of an answer arrive together and are its own: `ApnsStream` has them
  one by one (section 6).
* The gateway is external and behaves as the code expects: it processes
  requests in the order of the stream, a refusal names the request refused, a
  shutdown the last one processed, and after either it processes nothing more.
* A job's age is arbitrary: `OnCheckCache` may confirm any prefix of the cache,
  possibly empty, at any time. With `CheckTimeBigEnough` it confirms a job only
  if its write is over, the gateway has processed what it got, and no answer is
  waiting. The code comments speak of "the check_time" being "big enough"
  (A 123); this is what that must mean for the comment to be true.

### Properties and runs

Safety, in `ApnsProperties`:

* `JobConserved`: each posted job is in exactly one of the queue, one cache and
  the final verdicts, and in it once.
* `OneDriver`: exactly one operation leads each connection on.
* `NoDeafConnection`: an established connection has a waiter, a notification on
  its way, a running handler, or a write that will take the next job.
* `TimerAlive`: an established connection has its cache checker armed.
* `SingleWaiter`: waiters of a connection do not accumulate.
* `UnknownIdentWasConfirmed`: a request named by an answer and missing in the
  cache was confirmed before (the comment at A 161-163 says "probably").
* `LateWasConfirmed`: a refusal that comes too late takes back an earlier
  success and hits no other job.
* `NoLostFailure`, `RejectedNeverConfirmed`: with a check time that is big
  enough, no refusal is late and nothing refused is reported as sent.
* `BeforeAnsweredWasSent`, `DeliveredAtMostOnce`: around one failure, what stands
  in the cache before the named request was accepted and nothing is accepted twice.

Liveness: `EventuallyUp`, `CachedJobSettles`, `WokenDrainsQueue`. Refinement:
`ImplementsLedger`.

| Run | Instance | Shows |
|---|---|---|
| `apns_recovers` | 1 connection, 2 jobs, batches of 1, any 2 of 6 kinds of fault, fair | the types and the seven invariants that hold whatever the check time is; connections come back, caches empty; before the first fault one notification is enough for any number of jobs |
| `apns_two_connections` | 2 connections, 3 jobs, batches of 2, a refusal, a shutdown or the end of the stream, big check time | the implementation of `JobLedger` when connections compete and requeue to each other; no connection goes deaf; verdicts are right; around the fault the orders of cache and wire agree |
| `apns_success_unsent` | 1 connection, 2 jobs, 1 fault, big check time | **violated**, finding 1 |
| `apns_stranded_job` | 1 connection, 2 jobs, no fault, fair | **violated**, finding 2 |

Why the bounds are enough. Three jobs and batches of two give a batch that is
full, one that is not, and a job before and after the one an answer names; batches of
one make every job a batch of its own, with a write and a notification between any two.
Two faults let one happen while the connection recovers from the other, with old
writes, waiters and notifications still about. Two connections show every
interference between connections, which meet only in the queue and in the list
of waiters; a third adds another of the same. The batch size is 16 in the code;
nothing depends on its value except where a batch ends. Each run has about 300,000 to
800,000 states. Every invariant and every action property of these runs is also proved,
for any number of connections, jobs and faults, any batch size, and, but for the two
that need it, whatever the check time is (section 7); so what a single run cannot
combine is not left open.

Deadlock is checked in every run of APNs: the system as modelled never stops, as an
idle connection still checks its cache.

### Fairness

`FairSpec` assumes weak fairness of each handler of each connection (an
`io_service` runs what is posted to it, and its thread never ends before
`stop`), of `Notify` (a thread does not stop inside `post`), of the checker with
at least one job to confirm (time passes until the oldest is old enough), and of
the transport and of the gateway accepting what it receives. There is no fairness
for posting, for faults or for the gateway's refusals. No strong fairness is used.

### Findings

1. **A job that was never sent is reported as sent.** A waiter survives a
   disconnection; requeueing the cache notifies it, so the connection takes jobs
   while it reconnects, writes them to a socket that is not connected, and
   `handle_write` ignores the error ("FIXME: safe to ignore?", A 71-76). The jobs
   stay in the cache and `on_check_cache` reports them with no error. The test
   program says of such a job that it "is sent successfully" (`test/main.cpp` 29).
2. **A job can wait for ever in the queue** while connections are idle: the
   handshake handler registers for a notification without looking into the
   queue (A 287), so jobs posted before then wake nobody; the same happens to a job
   posted between an empty `get_next_job` and `async_wait`. P 179 calls
   them "Requests to process". A later post wakes a connection, which then takes
   them too (`WokenDrainsQueue`).

`DeliveredAtMostOnce` and `BeforeAnsweredWasSent` speak of a single failure
(`OneFailure`). After a second, a job whose write failed as in finding 1 can stand
before an answered one, so that "consider all before this one - success" (A 90) is
wrong; and the completion of an old write and the new waiter can make a
connection send two batches at the same time. Nothing in the repository claims
otherwise for duplicates, so that is a hazard here and not a finding.

## 4. GCM

`GcmConnection` stands on the same `ConnectionPool` as `ApnsConnection`, and so on
the same queue, waiters and notifications.

### State and code

| Variable | In the code |
|---|---|
| `pc[c]` | how far `wait_for_job` is; the rest of a handler is one step |
| `op[c]` | the pending asynchronous operation: start, connect, handshake, write, one of the five reads, restart timer |
| `sock[c]` | `socket_`: none or connecting, open, or closed by the other end |
| `fresh[c]` | `new_request_` |
| `req[c]`, `ident[c]` | `current_req_.request_`, as the sequence of requests its bytes consist of, and `current_req_.ident_` |
| `size[c]` | `cur_chunk_size_`: never assigned, 0, the size of the chunk, or what became of something else |
| `buf[c]` | `response_` |
| `body[c]` | `current_res_json_`: empty, a whole response, or something that does not parse |
| `told`, `dropped` | the verdicts given to the callback; jobs an exception has forgotten |
| `todo`, `net`, `served`, `accepted`, `faults` | the server |

A response is a sequence of tokens: texts (status line, header, size, two parts of
one chunk, the last size 0) and ends of lines. `Receive` moves any number of
them into the buffer while a read is pending, so a response is cut between any two
tokens. Each read handler takes from the buffer what its code would take,
also when what is there is not what it expects: `Garbled` for the words a status
line is extracted from, `Extracted` for a line that is no size, `WrongChunk` for a
chunk that is not complete. Where the outcome depends on the text itself, the
model takes every outcome.

`SendJob` appends to `req[c]`, because `gcm_request::operator=` writes into the
stream of the target and nothing ever consumes it, and sends all of it. Nothing
empties `buf[c]` when the connection is restarted.

Assumptions: the server answers requests in order; a response has one chunk; the
body of a refusal is no JSON; cuts inside a text make no other difference
than cuts next to it; the parser of the vendored `json_spirit` accepts a text that
begins with a complete value, whatever follows; the server closes a connection
when there is nothing to do on it (`IdleClose`), which the client
notices only when it next reads or writes.

### Properties and runs

* `OneChain`: the life of a connection is one chain. Exactly one of a pending
  operation, a notification, a waiter and a running `wait_for_job` exists, so a
  connection handles one request at a time, never goes deaf, and no read handler
  both restarts the connection and goes on.
* `JobAccounted`: each posted job is queued, in flight on one connection, told or
  forgotten, once.
* `ImplementsLedger`: the same abstract specification as for APNs.
* `FlightEnds`, `ComesBack`: whatever the server sends and however it is cut, the
  job in flight is settled and the connection waits for a job again.

| Run | Instance | Shows |
|---|---|---|
| `gcm_one_connection` | 1 connection, 2 jobs, accepted or refused, 1 of 3 faults, fair | the types, `OneChain`, `JobAccounted`, the ledger and the liveness properties |
| `gcm_other_answer` | 1 connection, 2 jobs, all accepted | **violated**, finding 3 |
| `gcm_cut_chunk` | 1 connection, 1 job, accepted | **violated**, finding 4 |

Two jobs are enough for a response that is left over from an earlier job, for a
request that carries another, and for a connection that is used again. One fault
breaks the connection at any point of a response. Connections of a pool meet in the
queue and the waiters only, which `apns_two_connections` has with two of them; for GCM
`JobAccounted` and the ledger are proved for any number of connections. An accepted and a refused answer stand for the two ways a response ends, waiting
again or a restart. Deadlock is not checked: when all jobs are posted and settled
the system rests, every connection waiting for a job. That it rests nowhere else is
`ComesBack`.

`FairSpec` assumes weak fairness of each connection's thread (it runs what can
run), of `Notify`, of the server answering, and of the server closing a connection
with nothing to do. There is none for posts and failures.

### Findings

3. **A job is given the verdict on another**: `gcm_request::operator=`
   (`gcm_request.cpp` 39) appends to the request the connection already holds, so
   the second write on a connection sends the first request again in front of the
   second, and the answer to that is reported for the second job.
4. **An accepted message is reported as an error** when its chunk arrives in two
   pieces: `match_exact_size` (G 24-40) is content with one byte.

Also in the model, and in the list of hazards, without a run of their own: an
answer whose entry for the device holds an error is reported as success, because
`to_error_code` (`gcm_response.cpp` 166) ignores the entries (add `"entry"` to `Results`
of `gcm_other_answer` to see it); `response_` keeps what was read of a refusal when the
connection is restarted "completely" (G 173); a job posted while the connection is busy waits
until the next post (G 305), as in finding 2.

That a failed handler forgets its job without a verdict is no finding, as nothing
in the repository promises otherwise; `dropped` keeps account of it.

## 5. The lives of objects

`Service` is about what surrounds the jobs: a client constructs providers and
feedback readers, uses and destroys them, while the threads of their pools, the
network and the client's own `io_service` go on. A connection is a pair of an
object and a slot of its pool.

### State and code

| Variable | In the code |
|---|---|
| `providers` | `providers_` of `push_service`, plain pointers by key |
| `used`, `life[o]`, `config[o]` | the objects the client constructs; how far construction or destruction is; whether there is a callback, and a path of a CA file |
| `constructed[o]` | history: its constructor has returned |
| `thread[c]`, `stopped[c]` | the thread in `run_one`; `io_service::stop` was called |
| `op[c]`, `waiting[c]` | the pending operation; registered with the condition variable of the pool |
| `response[c]`, `got[c]` | `response_` of a feedback connection in half packets; how many of them the pending `async_read` has transferred |
| `clientQ` | handlers posted to the client's `io_service`, oldest first: starts, reports, wake-ups |
| `down` | a handler has thrown out of the client's `io_service::run` |
| `misuse` | history: objects of which a destroyed part was used, and by what: a first start, a restart, or a wake-up |
| `told[c]`, `packets[c]` | history: what the client was told for a connection, in order; packets the feedback service has begun |
| `starts`, `posts`, `faults` | what is left of the bounds |

Construction goes through the stages base, pool, ready, and each may throw:
`RegisterThrows` (the key is taken), `PoolThrows` (no connections),
`ConstructorThrows` (no address, key or certificate). Destruction goes through
`Destroy` (the ssl context), `StopPool`, `JoinPool` (the join, and the connections
with their waiters), `Unregister`. The order is that of the declarations, so it is the
context that goes first (`apns.hpp` 189), although the pool's threads still run.
`Connect` is where the context is used, `RunWake` where a connection is used through
a plain pointer; each records a misuse and does nothing else, because what the
program does then is undefined.

`start` loads the CA file, if there is a path of one, each time it is called (F 83-87), so
it can throw: out of the client's `io_service` at the first start (`down`), on the pool's
thread at a restart, where `run_one` catches it and arms its timer again. `CannotLoad`
says where this may happen; a file that is there at one time may not be at another.

A feedback connection reads into `response_`. `async_read` has no condition of its own
there, so it completes without an error only when `response_` has no room left;
`handle_read` then parses as many packets as were transferred, each from the front of the
buffer, because it commits the bytes where it should consume them. The read it starts
again finds no room. `StreambufMax` is the `max_size()` of the buffer. The code leaves that
at what a `streambuf` may hold at most, so that in practice a read of the feedback ends
with the stream; small values let TLC see what follows such a read.

Assumptions: a feedback reader is started again only after it was stopped; the client
runs its `io_service` on one thread; it does not destroy an object while it constructs
or starts it; connects and handshakes end. Nothing is assumed of the time between the
steps of a destructor: the network and the pool's threads go on until the pool is stopped.

### Properties and runs

* `RegistryTells`: the registry holds exactly the providers whose base class is alive.
* `FailedConstructorLeavesNothing`: of an object whose constructor has thrown after its
  pool's threads ran nothing is used afterwards, by whatever was posted or pending.
* `StopEndsRestarts`: a restart uses a destroyed context only before the pool is stopped.
  Finding 5 is thus all that the threads can do to a destroyed context.
* `DestructionEnds`: every destructor that has begun ends.
* `ConnectionComesBack`: a connection that has lost its socket is established again,
  unless its pool was stopped or its object destroyed.

| Run | Instance | Shows |
|---|---|---|
| `service` | two providers that want one key, or one feedback reader; pools of 1 connection; a buffer of 3 half packets, which fills in the middle of a packet; 2 packets, 2 starts, 1 post, any 3 faults; with a callback and a CA file, or with neither; fair | the types with the bound of `response_`, and the five properties above |
| `context_gone` | 1 provider, 1 connection, 1 fault | **violated**, finding 5 |
| `feed_untold` | 1 reader, 1 connection, a buffer of 2 packets, 2 packets, the end of the stream | **violated**, finding 6 |

Two objects with one key meet in the registry, which is all that objects share;
connections of one pool share nothing here, each has its thread and its operation, and a
stop is the same for each of them. Three faults let a restart fail twice to load its file
after the connection was lost.
`service` has about 290,000 states. Deadlock is not checked: when all
objects are gone and the queue is empty there is nothing to do; that destruction does not
stop half way is `DestructionEnds`.

`FairSpec` assumes weak fairness of each connection (its thread runs what it can, and
connects and handshakes end), of each destructor, and of the client's `io_service`.
There is none for anything the client may do or for failures.

### Findings

5. **A connection is restarted with a destroyed ssl context.** `pool_` is declared before
   `ssl_ctx_` (`apns.hpp` 186-189), so the destructor destroys the context first, and the
   pool's threads run until `~connection_pool` stops them. `apns_connection.hpp` 79:
   "We just must be sure that the ssl context is never destroyed before this instance."
6. **Packets of the feedback are never told**: the stream ends, F 51-57 reports the shutdown
   alone, and what has arrived is in `response_`. F 36: "transfer and parse packet".

Also in the model, and in the list of hazards, without a run of their own:

* A wake-up can run on a connection that is gone (`misuse` holds `<<"wake", o>>`). What the
  condition variable posts to the client's `io_service` (V 80) holds a plain pointer, and the
  pool waits for its own threads only (P 58-62), although the connection, by
  `apns_connection.hpp` 77-78, "MUST outlive the connection_pool and the holder of connection
  pool by design".
* With no callback the first report throws out of the client's `io_service` (`down`): the
  wrapper P 71 makes of a callback is never empty, so no test for an empty one helps.
  `test/main.cpp` 144: "Optional. defaults to no callback".
* A read of the feedback that fills `response_` with two packets tells the first one twice
  (`told`), as F 41 commits where it should consume.
* A reader that was stopped and started again is silent: its threads have ended and its
  `io_service`s stay stopped (P 74-79, 136-137). `apns.hpp` 297: "Start getting the feed".

## 6. Texts and frames

`Formats` sets two scenes side by side, which share nothing.

**Texts.** A string is a sequence of characters, a text a sequence of tokens: marks,
quoted strings with their escapes, numbers, words, white space. `WriteString` is
`write_string` with its options `pretty`, `raw_utf8`, `esc_nonascii`,
`single_line_arrays` and with what `iswprint` says. The reader is a machine that takes one
token at a time: `frames` is what the grammar expects for each container that is open,
and `value`, `current` and `stack` are `value_`, `current_p_` and `stack_` of the
semantic actions. A pointer is the path to the value it points to. A document
is one of: a plain value; a nested one; a message of APNs or GCM, for which the text is
that of `to_json`; an answer of the GCM server, with its members in either order; a text
another program wrote; or, for `AnyText`, whatever tokens come.

* `AcceptsExactlyJson`: of all token sequences exactly those are accepted that a
  reference grammar generates, with the value that is written so, and the reader gives up
  only where no JSON goes on.
* `GrammarAndPointersAgree`: the semantic actions build where the grammar is, so their
  assertions hold.
* `NoDanglingPointer`: nothing is added to a vector that holds a value a pointer of the
  reader points to, but behind it, and only while it is the last.
* `WhatIsWrittenIsRead`: any byte in a string or name, any locale, any options, any
  integer of either width.
* `StandardReadersAgree`: an ASCII string means the same to a reader that follows the
  standard, in both directions. Beyond ASCII it does not: each byte of a UTF-8
  character is escaped as a character of its own.
* `ApnsMessageArrives`, `GcmMessageArrives`: the gateway finds what the client filled
  in, but for what `to_json` drops on purpose; a message posted to several devices
  reaches each with its own id only.
* `AnswerUnderstood`: every count and every entry of an answer, in order.

**Frames.** A frame is a head and as many units as its payload has bytes; the length goes
through 16 bits. An answer is six bytes, which arrive one by one, and a socket can break
before any of them.

* `FramesInStep`: while every payload is shorter than the length field can say, the gateway
  finds each frame where the last one ended.
* `CommandIsEight`: the first of the six bytes that are taken for an answer is the command
  of one. This is what `apns_response.cpp` 30 asserts, and it is **violated** (finding 7).

The run `formats` has integers of 4 bits, a badge limit of 3, values nested up to 6 deep (the answers and
messages need 4), texts of any tokens up to
11, lengths up to 4 with a modulus of 4, 3 requests and 3 broken sockets: about 520,000
states. 4 bits have every boundary of 64: the ends of `int64_t`, of `uint64_t`, and
numbers beyond both. 11 tokens are enough for an object in an array in an object and a
sibling of each. Strings are every single byte, every pair of the characters escapes are
made of, and escapes cut short. Sizes 0 to 4 lie on both sides of the modulus. Deadlock is
not checked: a text ends.

The run `answer_misread` (module `ApnsStream`; 3 requests, 1 broken socket) shows

7. **An answer is read out of step.** `response_` keeps the bytes of an answer whose socket
    broke, and `transfer_exactly(6)` (A 280-284) asks for six new ones. The next answer is
    put together from the old bytes and the first of the new ones. It still begins with the
    old command, so it is the answer after that which begins with another byte
    than the assertion allows: "should always be 8" (`apns_response.cpp` 30).

Assumptions: the gateways' own readers are external, and the reader of `json_spirit` stands
for them; of several members with the same name they take the last; a word such
as `badge` is one character, as nothing looks inside it.

## 7. Proofs

All theorems hold for every value of the constants. They assume only the named
assumptions of the modules: in `ApnsConnection` `NoneAssumption` (the identifier 0 is no
job's), `BatchAssumption`, `FaultAssumption`; in `GcmConnection` the same for its `None`,
`Results` and `Faults`; in `Service` `KeyAssumption` (every provider has a key) and
`ServiceAssumption` (pools are finite and not empty; the buffer holds at least two half
packets; configurations are configurations; bounds are numbers); in `ApnsStream` `StreamAssumption`; for the texts `WidthAssumption` (integers
have at least 2 bits), `NestingAssumption`, `BadgeAssumption` (a badge fits an `int64_t`),
`DocumentsAssumption` (documents are of their types and nested no deeper than the
bound), `OptionsAssumption` (no locale prints what is below the space) and
`TokensAssumption` (the tokens of any text are marks, words, doubles, integers of any size,
and strings with the escapes that this program writes, as the value accepted is
compared by writing it again; and a text is not so long that it could be nested deeper
than the bound). Two theorems have
a hypothesis of their own, `CheckTimeBigEnough`.

| Theorem | Statement | Argument |
|---|---|---|
| `TypeCorrect` | `Spec => []TypeOK` (APNs) | inductive as it stands, one lemma for each action |
| `JobsConserved` | `Spec => []JobConserved` | inductive relative to `TypeOK`. `JobMoves` says that three kinds of steps move jobs: a post, a take, and a release, in which a connection splits its cache into what is sent, refused, returned and kept (`Parcel`). The handlers of answers and the checker are instances of the last; everything else leaves the places of jobs alone |
| `ApnsImplementsLedger` | `Spec => ImplementsLedger` | by `JobConserved` a job has one place (`Located`), and by `JobMoves` each kind of step is `Post`, `Take` or `Release` of `JobLedger`, or changes no place |
| `OneDriverAlways`, `TimerAlwaysAlive` | `Spec => []OneDriver`, `Spec => []TimerAlive` | neither is inductive: an error path sets `op` from what it was, which says nothing unless it is known which stage the socket is in and whether an answer is there. `Lifecycle` says that a connection is in one of the stages starting, handshaking, open, hung up with an answer to read, or waiting for a restart |
| `AnswersAreKnown`, `LateAlwaysConfirmed` | `Spec => []UnknownIdentWasConfirmed`, `Spec => []LateWasConfirmed` | the strengthening `Answers` says that whatever is in the running batch, in a write that still works, on the wire, or was accepted last is in the cache of that connection or reported as sent, and that a connection that was hung up has nothing under way. The latter, with `Lifecycle`, allows a handler of an answer to empty the cache |
| `NoFailureIsLost`, `RejectedIsNeverConfirmed` | `CheckTimeBigEnough` implies `Spec => []NoLostFailure`, `[]RejectedNeverConfirmed` | `InTime` adds to `Answers` that the checker takes nothing from a cache that the gateway can still refuse: what is being written or on the wire, or is named by a refusal not yet read, is in the cache itself (`Kept`), and a refused request is either reported or named by an answer that was not read (`Refused`) |
| `WaiterStaysSingle`, `ConnectionNeverDeaf` | `Spec => []SingleWaiter`, `[]NoDeafConnection` | `OwnWaiters`: no two waiters are alike, and the second of a connection exists only while its handle is being assigned. `Hears`, with it and `Lifecycle`: a connection that is open and has nothing to do is registered |
| `BeforeAnsweredAlwaysSent` | `Spec => []BeforeAnsweredWasSent` | before any failure (`Calm`) the handlers of a connection follow each other (`Chained`), so that what was accepted, the wire, the write and the cache are in one order (`InOrder`, `InTurn`); `Preceded` carries over the failure that everything before the named request was accepted |
| `DeliveredOnce` | `Spec => DeliveredAtMostOnce` | with one failure at most, no job is accepted twice. `Once`: no job is on its way twice, not on one connection and not on two. `FirstTime`: nothing that is in the queue or on its way was accepted, around the failure too, because nothing behind the request that the answer names was (`Followed`). `Led`: while calm, what was accepted of a cache is a part of it that ends with the last one accepted |
| `GcmTypeCorrect`, `GcmOneChain`, `GcmJobsAccounted` | `Spec => []TypeOK`, `[]OneChain`, `[]JobAccounted` (GCM) | inductive together, as `GcmInv`: types need the chain (the buffer is read only in a read), the chain needs that no old waiter is left while the new one is being assigned (`Swapping`), and a job in flight is one of a connection with a pending write or read, of which there is one because of the chain |
| `GcmImplementsLedger` | `Spec => ImplementsLedger` (GCM) | as for APNs, with the job in flight for the cache |
| `ServiceTypeCorrect` | `Spec => []TypeOK` (objects) | inductive as it stands; that the entries for a finite set form a sequence rests on lemmas about bijections |
| `RegistryAlwaysTells` | `Spec => []RegistryTells` | inductive: every stage between the two ends leaves the registry alone |
| `FailedConstructorsLeaveNothing` | `Spec => []FailedConstructorLeavesNothing` | `EndInv` follows an object through its life: until its constructor has returned, and for ever if it does not, nothing but reports of it is posted, none of its connections has an operation, and nothing of it was used; only what is posted or pending can use it |
| `RestartsEndWithStop` | `Spec => StopEndsRestarts` | from `EndInv`, too: no thread runs before the pool is there, all are stopped while it is joined, and none is left afterwards (`RunsInLife`), so a handler that runs after the context is gone runs before the stop |
| `StreamTypeCorrect` | `StreamSpec => []StreamTypeOK` | inductive with the fact that the frame taken last is known |
| `FramesAlwaysInStep` | `StreamSpec => []FramesInStep` | `WholeFrames`: the wire is the rest of one frame and then whole frames, each with the length of its request (`Block`) |
| `ReaderInvariant`, `PointersFollowGrammar`, `PointersStayValid` | `Spec => []ReaderInv`, `[]GrammarAndPointersAgree`, `[]NoDanglingPointer` | for any tokens at all. `ReaderInv`: the pointers are one path of last children, cut at each level, with a container of the right kind for each frame. What an action does to the value is `Put`: it replaces the last child of each container on a path, which moves nothing (`PutNext`, by induction over the path) |
| `WrittenInvariant`, `WhatIsWrittenReadBack` | `Spec => []WrittenInv`, `[]WhatIsWrittenIsRead` | `Reads(p, s, q)`: the tokens `s` take the reader from `p` to `q`. By induction over how deep a value is nested, what `WriteString` writes of it takes the reader from where a value may begin to where it ends, with `AsRead` of the value added; the members and elements by induction over their number, the strings by induction over their length. `WrittenInv`: what is not read yet takes the reader to the end |
| `AnyTextInvariant`, `ExactlyJsonAccepted` | `Spec => []AnyTextInv`, `[]AcceptsExactlyJson` | both directions, by way of the tokens taken so far. A text of the grammar is what is written of some value (`TextIsWritten`, by induction over its length), so that it takes the reader from the start to its end (`ValueStands`); the reader is deterministic (`ReadsSame`), so that no beginning of such a text is refused, and the value at the end is that value. The other way, `Ending` says for each thing the grammar may expect which tokens end the container it stands in, `Rests` puts these together for all that are open, and a text is `Sound` if it becomes one of the grammar with whatever may follow. A token that is accepted keeps it sound (`AcceptKeepsSound`, one case for each rule), and when nothing is expected any more the text itself is of the grammar |
| `StandardReadersUnderstand` | `Spec => []StandardReadersAgree` | by induction over the string, both ways of taking an escape agree on ASCII, and what is written holds nothing the standard refuses |
| `ApnsMessageFound`, `GcmMessageFound`, `AnswerIsUnderstood` | `Spec => []ApnsMessageArrives`, `[]GcmMessageArrives`, `[]AnswerUnderstood` | with `WhatIsWrittenReadBack`, about values only: `Found` follows the last member of a name through the members that `to_json` puts together, `AsRead` changes nothing but the type of some integers, and posting to one device after the other leaves the client's message alone |

`SequenceLemmas` proves what many of these rest on: elements of concatenations, segments,
and cuts of a sequence, and that they do not repeat. The strengthenings were checked
with TLC on the instances of the runs before they were proved, but for `WrittenInv` and
`AnyTextInv`, which speak of all states and all texts and which TLC cannot evaluate.

Induction: a theorem about every value, string or number of members needs it, and the rule
of the library, whose hypothesis is about an operator, cannot be used. `SetInduction`
(from the least element of a set of numbers) says the same of a *set*: the numbers below which
a fact holds. For this the recursive definitions of the texts are functions, and a lemma for
each (`ValuesUnfold`, `WriteUnfold`, `GrammarUnfold` and others) says that the function exists and what it is at
each number.

Every invariant and every action property of the passing runs is stated by one of these
theorems. Only model-checked are the liveness properties, as fairness and ENABLED are out
of the prover's reach: `EventuallyUp`, `CachedJobSettles`, `WokenDrainsQueue`,
`FlightEnds`, `ComesBack`, `DestructionEnds` and `ConnectionComesBack`.

## 8. Not modelled

* p12 (`p12.hpp`): one function that calls OpenSSL from top to bottom. Nothing is kept
  between calls and nothing runs beside it, so there is no behaviour to check.
* Tables of error codes and texts, exceptions, and the logging callback: no state, and
  nothing depends on them.
* `validate_device` of the providers: a test of a length.
* Of `json_spirit`: objects that are maps (`Config_map`), wide strings, reading from
  streams, positions of errors, digits of a double. The program uses none of them.
* The bytes of a feedback packet: no property depends on what a packet says.
* Responses of GCM with several chunks, with footers, or without chunks.
* Jobs that are in a pool when it is destroyed: the client is told nothing of them, and
  the two models that would have to meet for this (`Service` and the connections with
  their jobs) share no state but the waiters.
* The memory of a request whose `async_write` still runs when the checker confirms it: what
  is read then is undefined, and only real time rules it out.
* The test program, an example client.

## 9. What could come next

* GCM responses of several chunks.
* The end of a pool with jobs in it: a composition of `Service` with the connections that
  keeps both the lives of objects and the places of jobs.
