----------------------------- MODULE ApnsProofs -----------------------------
(***************************************************************************)
(* Theorems about the APNs connections and their pool, for every set of    *)
(* connections and jobs, every batch size, every kind and number of        *)
(* failures and with or without a check time that is big enough: types,    *)
(* no job is lost or duplicated, the ledger of jobs is implemented, and    *)
(* what a connection may rely on: it is in one stage of its life, with one *)
(* operation that leads it on; the request an answer names is in its cache *)
(* or was reported as sent, and in the cache if the check time is big      *)
(* enough; it has one waiter at most, and while it is established it will  *)
(* hear of the next job.                                                   *)
(***************************************************************************)
EXTENDS ApnsProperties, SequenceLemmas, FiniteSetTheorems

-----------------------------------------------------------------------------
\* Types of the waiters and of the queue.

LEMMA AsyncWaitType ==
    ASSUME CondTypeOK, NEW c \in Conn, AsyncWait(c)
    PROVE  CondTypeOK'
  BY AppendProperties DEF CondTypeOK, AsyncWait, Waiter

LEMMA AssignHandleType ==
    ASSUME CondTypeOK, NEW c \in Conn, AssignHandle(c)
    PROVE  CondTypeOK'
  <1> DEFINE rest == Disconnected(c)
             held == [conn |-> c, role |-> "held"]
  <1>1. rest \in Seq(Waiter)
    <2>1. CASE held \in ToSet(waiters)
      <3>1. \E i \in DOMAIN waiters : waiters[i] = held
        BY <2>1 DEF ToSet
      <3>2. (CHOOSE i \in DOMAIN waiters : waiters[i] = held) \in DOMAIN waiters
        BY <3>1
      <3> QED
        BY <2>1, <3>2, RemoveAtType DEF CondTypeOK, Disconnected
    <2>2. CASE held \notin ToSet(waiters)
      BY <2>2 DEF CondTypeOK, Disconnected
    <2> QED
      BY <2>1, <2>2
  <1>2. DOMAIN rest = 1..Len(rest) /\ Len(rest) \in Nat
    BY <1>1, LenProperties
  <1>3. \A i \in 1..Len(rest) : rest[i] \in Waiter
    BY <1>1, ElementOfSeq
  <1>4. Assigned(c, rest) \in [1..Len(rest) -> Waiter]
    BY <1>2, <1>3 DEF Assigned, Waiter
  <1>5. Assigned(c, rest) \in Seq(Waiter)
    BY <1>2, <1>4, SeqDef
  <1> QED
    BY <1>5 DEF AssignHandle, CondTypeOK

LEMMA NotifyOneType ==
    ASSUME CondTypeOK, NotifyOne
    PROVE  CondTypeOK'
  <1>1. CASE waiters = <<>>
    BY <1>1 DEF CondTypeOK, NotifyOne, condVars
  <1>2. CASE waiters # <<>>
    <2>1. Head(waiters) \in Waiter /\ Tail(waiters) \in Seq(Waiter)
      BY <1>2, HeadTailProperties DEF CondTypeOK
    <2>2. Head(waiters).conn \in Conn
      BY <2>1 DEF Waiter
    <2>3. wake' \in [Conn -> Nat]
      BY <1>2, <2>2 DEF CondTypeOK, NotifyOne
    <2> QED
      BY <1>2, <2>1, <2>3 DEF CondTypeOK, NotifyOne
  <1> QED
    BY <1>1, <1>2

LEMMA NotifyAllType ==
    ASSUME CondTypeOK, NotifyAll
    PROVE  CondTypeOK'
  <1>1. DOMAIN waiters = 1..Len(waiters) /\ Len(waiters) \in Nat
    BY LenProperties DEF CondTypeOK
  <1>2. ASSUME NEW c \in Conn
        PROVE  Cardinality({i \in DOMAIN waiters : waiters[i].conn = c}) \in Nat
    <2>1. {i \in DOMAIN waiters : waiters[i].conn = c} \in SUBSET (1..Len(waiters))
      BY <1>1
    <2>2. IsFiniteSet(1..Len(waiters))
      BY <1>1, FS_Interval
    <2>3. IsFiniteSet({i \in DOMAIN waiters : waiters[i].conn = c})
      BY <2>1, <2>2, FS_Subset
    <2> QED
      BY <2>3, FS_CardinalityType
  <1>3. <<>> \in Seq(Waiter)
    BY EmptySeq
  <1>4. waiters' \in Seq(Waiter)
    BY <1>3 DEF NotifyAll
  <1>5. wake' \in [Conn -> Nat]
    <2>1. ASSUME NEW c \in Conn
          PROVE  wake[c] + Cardinality({i \in DOMAIN waiters : waiters[i].conn = c}) \in Nat
      BY <1>2 DEF CondTypeOK
    <2> QED
      BY <2>1 DEF NotifyAll
  <1> QED
    BY <1>4, <1>5 DEF CondTypeOK

LEMMA WokenType ==
    ASSUME CondTypeOK, NEW c \in Conn, Woken(c)
    PROVE  CondTypeOK'
  BY DEF CondTypeOK, Woken

\* Returning jobs to the queue keeps the types of the pool.
LEMMA PostRangeType ==
    ASSUME PoolTypeOK, NEW s \in Seq(Job), PostRange(s)
    PROVE  PoolTypeOK'
  BY NotifyAllType, ConcatProperties DEF PoolTypeOK, PostRange

-----------------------------------------------------------------------------
\* Types of the cache's parts and of the writes.

LEMMA PositionType ==
    ASSUME TypeOK, NEW c \in Conn, NEW id, InCache(c, id)
    PROVE  /\ Position(c, id) \in 1..Len(cache[c])
           /\ cache[c][Position(c, id)] = id
           /\ id \in Job
  <1>1. cache[c] \in Seq(Job)
    BY DEF TypeOK, ConnTypeOK
  <1>2. \E i \in DOMAIN cache[c] : cache[c][i] = id
    BY DEF InCache, ToSet
  <1>3. Position(c, id) \in DOMAIN cache[c] /\ cache[c][Position(c, id)] = id
    BY <1>2 DEF Position
  <1> QED
    BY <1>1, <1>3, LenProperties, ElementOfSeq

LEMMA CutType ==
    ASSUME TypeOK, NEW c \in Conn, NEW id, InCache(c, id)
    PROVE  /\ Before(c, id) \in Seq(Job)
           /\ UpTo(c, id) \in Seq(Job)
           /\ After(c, id) \in Seq(Job)
  <1>1. cache[c] \in Seq(Job) /\ Len(cache[c]) \in Nat
    BY LenProperties DEF TypeOK, ConnTypeOK
  <1>2. Position(c, id) \in 1..Len(cache[c])
    BY PositionType
  <1>3. Before(c, id) \in Seq(Job)
    BY <1>1, <1>2, Segment DEF Before
  <1>4. UpTo(c, id) \in Seq(Job)
    BY <1>1, <1>2, Segment DEF UpTo
  <1>5. After(c, id) \in Seq(Job)
    BY <1>1, <1>2, Segment DEF After
  <1> QED
    BY <1>3, <1>4, <1>5

LEMMA AbandonType ==
    ASSUME NEW ws \in Seq(Write)
    PROVE  Abandon(ws) \in Seq(Write)
  <1>1. DOMAIN ws = 1..Len(ws) /\ Len(ws) \in Nat
    BY LenProperties
  <1>2. \A i \in 1..Len(ws) : ws[i] \in Write
    BY ElementOfSeq
  <1>3. Abandon(ws) \in [1..Len(ws) -> Write]
    BY <1>1, <1>2 DEF Abandon, Write, Fate
  <1> QED
    BY <1>1, <1>3, SeqDef

\* A completed write is forgotten, the others stay.
LEMMA RemoveWriteType ==
    ASSUME TypeOK, NEW c \in Conn, NEW i \in DOMAIN writes[c]
    PROVE  RemoveAt(writes[c], i) \in Seq(Write)
  BY RemoveAtType DEF TypeOK, ConnTypeOK

-----------------------------------------------------------------------------
\* Types are preserved by every action.

LEMMA StartConnectType ==
    ASSUME TypeOK, NEW c \in Conn, NEW done, StartConnect(c, done)
    PROVE  /\ op' \in [Conn -> SUBSET Ops]
           /\ sock' \in [Conn -> SockState]
           /\ writes' \in [Conn -> Seq(Write)]
  <1>1. Abandon(writes[c]) \in Seq(Write)
    BY AbandonType DEF TypeOK, ConnTypeOK
  <1> QED
    BY <1>1 DEF StartConnect, Advance, TypeOK, ConnTypeOK, Ops, SockState

LEMMA BrokenType ==
    ASSUME TypeOK, NEW c \in Conn, NEW step, Broken(c, step)
    PROVE  /\ op' \in [Conn -> SUBSET Ops]
           /\ sock' \in [Conn -> SockState]
           /\ writes' \in [Conn -> Seq(Write)]
           /\ faults' \in Nat
           /\ VerdictTypeOK'
  <1>1. Abandon(writes[c]) \in Seq(Write)
    BY AbandonType DEF TypeOK, ConnTypeOK
  <1>2. current[c] \in Job \cup {None}
    BY DEF TypeOK, ConnTypeOK
  <1>3. /\ op' \in [Conn -> SUBSET Ops]
        /\ sock' \in [Conn -> SockState]
        /\ writes' \in [Conn -> Seq(Write)]
    BY <1>1 DEF Broken, Throw, Advance, TypeOK, ConnTypeOK, Ops, SockState
  <1>4. faults' \in Nat
    BY DEF Broken, Fault, TypeOK, GateTypeOK
  <1>5. VerdictTypeOK'
    BY <1>2 DEF Broken, Blame, TypeOK, VerdictTypeOK
  <1> QED
    BY <1>3, <1>4, <1>5

LEMMA StartType ==
    ASSUME TypeOK, NEW c \in Conn, Start(c) \/ RestartTimer(c)
    PROVE  TypeOK'
  BY StartConnectType
     DEF Start, RestartTimer, TypeOK, PoolTypeOK, CondTypeOK, ConnTypeOK, GateTypeOK,
         VerdictTypeOK, condVars, poolVars, gateVars, verdicts

LEMMA HandleConnectType ==
    ASSUME TypeOK, NEW c \in Conn, HandleConnect(c)
    PROVE  TypeOK'
  <1>1. /\ op' \in [Conn -> SUBSET Ops]
        /\ sock' \in [Conn -> SockState]
        /\ writes' \in [Conn -> Seq(Write)]
        /\ faults' \in Nat
        /\ VerdictTypeOK'
        /\ UNCHANGED <<pc, timer>>
    <2>1. CASE Broken(c, "connect")
      BY <2>1, BrokenType DEF Broken
    <2>2. CASE Connected(c)
      BY <2>2 DEF Connected, Advance, TypeOK, ConnTypeOK, GateTypeOK, VerdictTypeOK,
                  verdicts, Ops, SockState
    <2> QED
      BY <2>1, <2>2 DEF HandleConnect
  <1> QED
    BY <1>1 DEF HandleConnect, TypeOK, PoolTypeOK, CondTypeOK, ConnTypeOK, GateTypeOK,
                condVars, poolVars

LEMMA HandleHandshakeType ==
    ASSUME TypeOK, NEW c \in Conn, HandleHandshake(c)
    PROVE  TypeOK'
  <1>1. /\ op' \in [Conn -> SUBSET Ops]
        /\ sock' \in [Conn -> SockState]
        /\ writes' \in [Conn -> Seq(Write)]
        /\ faults' \in Nat
        /\ VerdictTypeOK'
        /\ pc' \in [Conn -> {"idle", "take", "wait", "swap"}]
        /\ timer' \in [Conn -> BOOLEAN]
    <2>1. CASE Broken(c, "handshake")
      BY <2>1, BrokenType DEF Broken, TypeOK, ConnTypeOK
    <2>2. CASE Established(c)
      BY <2>2 DEF Established, ResetCacheChecker, Advance, TypeOK, ConnTypeOK, GateTypeOK,
                  VerdictTypeOK, verdicts, Ops, SockState
    <2> QED
      BY <2>1, <2>2 DEF HandleHandshake
  <1> QED
    BY <1>1 DEF HandleHandshake, TypeOK, PoolTypeOK, CondTypeOK, ConnTypeOK, GateTypeOK,
                condVars, poolVars

LEMMA FailCachedType ==
    ASSUME TypeOK, NEW c \in Conn, NEW id, FailCached(c, id)
    PROVE  /\ PoolTypeOK'
           /\ op' \in [Conn -> SUBSET Ops]
           /\ sock' \in [Conn -> SockState]
           /\ writes' \in [Conn -> Seq(Write)]
           /\ cache' \in [Conn -> Seq(Job)]
           /\ VerdictTypeOK'
  <1>1. InCache(c, id) /\ Reconnect(c) /\ PostRange(After(c, id)) /\ ReportSent(Before(c, id))
    BY DEF FailCached
  <1>2. Before(c, id) \in Seq(Job) /\ After(c, id) \in Seq(Job) /\ id \in Job
    BY <1>1, CutType, PositionType
  <1>3. PoolTypeOK'
    BY <1>1, <1>2, PostRangeType DEF TypeOK
  <1>4. VerdictTypeOK'
    BY <1>1, <1>2, ToSetType DEF FailCached, ReportSent, TypeOK, VerdictTypeOK
  <1>5. cache' \in [Conn -> Seq(Job)]
    BY EmptySeq DEF FailCached, EmptyCache, TypeOK, ConnTypeOK
  <1> QED
    BY <1>1, <1>3, <1>4, <1>5, StartConnectType DEF Reconnect

LEMMA FailLostType ==
    ASSUME TypeOK, NEW c \in Conn, NEW id \in Job \cup {None}, FailLost(c, id)
    PROVE  /\ PoolTypeOK'
           /\ op' \in [Conn -> SUBSET Ops]
           /\ sock' \in [Conn -> SockState]
           /\ writes' \in [Conn -> Seq(Write)]
           /\ cache' \in [Conn -> Seq(Job)]
           /\ VerdictTypeOK'
  BY DEF FailLost, GiveUp, Throw, Advance, TypeOK, PoolTypeOK, CondTypeOK, ConnTypeOK,
         VerdictTypeOK, Ops, condVars, poolVars

LEMMA SortCacheOnShutdownType ==
    ASSUME TypeOK, NEW c \in Conn, NEW id, SortCacheOnShutdown(c, id)
    PROVE  /\ PoolTypeOK'
           /\ op' \in [Conn -> SUBSET Ops]
           /\ sock' \in [Conn -> SockState]
           /\ writes' \in [Conn -> Seq(Write)]
           /\ cache' \in [Conn -> Seq(Job)]
           /\ VerdictTypeOK'
  <1>1. PoolTypeOK' /\ okd' \subseteq Job
    <2>1. CASE ReturnRest(c, id)
      <3>1. /\ InCache(c, id)
            /\ UpTo(c, id) \in Seq(Job)
            /\ After(c, id) \in Seq(Job)
        BY <2>1, CutType DEF ReturnRest
      <3>2. PoolTypeOK'
        BY <2>1, <3>1, PostRangeType DEF ReturnRest, TypeOK
      <3>3. okd' \subseteq Job
        BY <2>1, <3>1, ToSetType DEF ReturnRest, ReportSent, TypeOK, VerdictTypeOK
      <3> QED
        BY <3>2, <3>3
    <2>2. CASE ReturnAll(c, id)
      BY <2>2, PostRangeType DEF ReturnAll, TypeOK, ConnTypeOK, VerdictTypeOK
    <2> QED
      BY <2>1, <2>2 DEF SortCacheOnShutdown
  <1>2. cache' \in [Conn -> Seq(Job)]
    BY EmptySeq DEF SortCacheOnShutdown, EmptyCache, TypeOK, ConnTypeOK
  <1>3. VerdictTypeOK'
    BY <1>1 DEF SortCacheOnShutdown, TypeOK, VerdictTypeOK
  <1> QED
    BY <1>1, <1>2, <1>3, StartConnectType DEF SortCacheOnShutdown, Reconnect

LEMMA HandleReadErrType ==
    ASSUME TypeOK, NEW c \in Conn, HandleReadErr(c)
    PROVE  TypeOK'
  <1>1. resp[c] \in Response /\ resp[c].id \in Job \cup {None} /\ NoResp \in Response
    BY DEF TypeOK, GateTypeOK, Response, NoResp
  <1>2. /\ PoolTypeOK'
        /\ op' \in [Conn -> SUBSET Ops]
        /\ sock' \in [Conn -> SockState]
        /\ writes' \in [Conn -> Seq(Write)]
        /\ cache' \in [Conn -> Seq(Job)]
        /\ VerdictTypeOK'
    <2>1. CASE SortCacheOnError(c, resp[c].id)
      BY <1>1, <2>1, FailCachedType, FailLostType DEF SortCacheOnError
    <2>2. CASE SortCacheOnShutdown(c, resp[c].id)
      BY <2>2, SortCacheOnShutdownType
    <2>3. CASE ReadEof(c)
      BY <2>3, StartConnectType
         DEF ReadEof, Reconnect, TypeOK, PoolTypeOK, CondTypeOK, ConnTypeOK, VerdictTypeOK,
             condVars, poolVars, verdicts
    <2>4. CASE ReadFailure(c)
      BY <2>4 DEF ReadFailure, Blame, GiveUp, Throw, Advance, TypeOK, PoolTypeOK, CondTypeOK,
                  ConnTypeOK, VerdictTypeOK, Ops, condVars, poolVars
    <2> QED
      BY <2>1, <2>2, <2>3, <2>4 DEF HandleReadErr
  <1>3. timer' \in [Conn -> BOOLEAN]
    BY DEF HandleReadErr, TypeOK, ConnTypeOK
  <1>4. resp' \in [Conn -> Response]
    BY <1>1 DEF HandleReadErr, TypeOK, GateTypeOK
  <1> QED
    BY <1>2, <1>3, <1>4 DEF HandleReadErr, TypeOK, ConnTypeOK, GateTypeOK

LEMMA OnCheckCacheType ==
    ASSUME TypeOK, NEW c \in Conn, NEW k \in 0..Len(cache[c]), OnCheckCache(c, k)
    PROVE  TypeOK'
  <1>1. cache[c] \in Seq(Job)
    BY DEF TypeOK, ConnTypeOK
  <1>2. /\ SubSeq(cache[c], 1, k) \in Seq(Job)
        /\ SubSeq(cache[c], k + 1, Len(cache[c])) \in Seq(Job)
    BY <1>1, Cut
  <1>3. okd' \subseteq Job
    BY <1>2, ToSetType DEF OnCheckCache, ReportSent, TypeOK, VerdictTypeOK
  <1>4. cache' \in [Conn -> Seq(Job)]
    BY <1>2 DEF OnCheckCache, TypeOK, ConnTypeOK
  <1>5. timer' \in [Conn -> BOOLEAN]
    BY DEF OnCheckCache, ResetCacheChecker, TypeOK, ConnTypeOK
  <1> QED
    BY <1>3, <1>4, <1>5
       DEF OnCheckCache, TypeOK, PoolTypeOK, CondTypeOK, ConnTypeOK, GateTypeOK,
           VerdictTypeOK, condVars, poolVars, gateVars

LEMMA HandleJobAvailableType ==
    ASSUME TypeOK, NEW c \in Conn, HandleJobAvailable(c)
    PROVE  TypeOK'
  <1>1. CondTypeOK'
    BY WokenType DEF HandleJobAvailable, TypeOK, PoolTypeOK
  <1> QED
    BY <1>1 DEF HandleJobAvailable, TypeOK, PoolTypeOK, ConnTypeOK, GateTypeOK,
                VerdictTypeOK, poolVars, gateVars, verdicts

LEMMA TakeJobType ==
    ASSUME TypeOK, NEW c \in Conn, NEW j \in Job, TakeJob(c, j)
    PROVE  TypeOK'
  <1>1. PoolTypeOK'
    BY HeadTailProperties
       DEF TakeJob, GetNextJob, TypeOK, PoolTypeOK, CondTypeOK, condVars
  <1>2. cache' \in [Conn -> Seq(Job)] /\ batch' \in [Conn -> Seq(Job)]
    BY AppendProperties DEF TakeJob, Remember, TypeOK, ConnTypeOK
  <1>3. current' \in [Conn -> Job \cup {None}]
    BY DEF TakeJob, TypeOK, ConnTypeOK
  <1> QED
    BY <1>1, <1>2, <1>3
       DEF TakeJob, TypeOK, ConnTypeOK, GateTypeOK, VerdictTypeOK, gateVars, verdicts

LEMMA SendType ==
    ASSUME TypeOK, NEW c \in Conn, Send(c)
    PROVE  /\ pc' \in [Conn -> {"idle", "take", "wait", "swap"}]
           /\ batch' \in [Conn -> Seq(Job)]
           /\ writes' \in [Conn -> Seq(Write)]
           /\ wire' \in [Conn -> Seq(Job)]
  <1>1. /\ batch[c] \in Seq(Job)
        /\ Head(batch[c]) \in Job
        /\ Tail(batch[c]) \in Seq(Job)
        /\ wire[c] \in Seq(Job)
        /\ writes[c] \in Seq(Write)
    BY HeadTailProperties DEF Send, TypeOK, ConnTypeOK, GateTypeOK
  <1> DEFINE rest == IF sock[c] = "open" THEN Tail(batch[c]) ELSE batch[c]
  <1>2. wire' \in [Conn -> Seq(Job)]
    <2>1. Append(wire[c], Head(batch[c])) \in Seq(Job)
      BY <1>1, AppendProperties
    <2> QED
      BY <2>1 DEF Send, StartWrite, WriteOn, TypeOK, GateTypeOK
  <1>3. writes' \in [Conn -> Seq(Write)]
    <2>1. PICK f \in FateOn(sock[c]) :
            writes' = [writes EXCEPT ![c] = Append(@, [jobs |-> rest, fate |-> f])]
      BY DEF Send, StartWrite, WriteOn
    <2>2. f \in Fate
      BY DEF FateOn, Fate, TypeOK, ConnTypeOK, SockState
    <2>3. [jobs |-> rest, fate |-> f] \in Write
      BY <1>1, <2>2 DEF Write
    <2>4. Append(writes[c], [jobs |-> rest, fate |-> f]) \in Seq(Write)
      BY <1>1, <2>3, AppendProperties
    <2> QED
      BY <2>1, <2>4 DEF TypeOK, ConnTypeOK
  <1>4. batch' \in [Conn -> Seq(Job)] /\ pc' \in [Conn -> {"idle", "take", "wait", "swap"}]
    BY EmptySeq DEF Send, TypeOK, ConnTypeOK
  <1> QED
    BY <1>2, <1>3, <1>4

LEMMA SendBatchType ==
    ASSUME TypeOK, NEW c \in Conn, SendBatch(c)
    PROVE  TypeOK'
  <1>1. /\ pc' \in [Conn -> {"idle", "take", "wait", "swap"}]
        /\ batch' \in [Conn -> Seq(Job)]
        /\ writes' \in [Conn -> Seq(Write)]
        /\ wire' \in [Conn -> Seq(Job)]
    <2>1. CASE NothingToSend(c)
      BY <2>1 DEF NothingToSend, TypeOK, ConnTypeOK, GateTypeOK
    <2>2. CASE Send(c)
      BY <2>2, SendType
    <2> QED
      BY <2>1, <2>2 DEF SendBatch
  <1> QED
    BY <1>1 DEF SendBatch, TypeOK, PoolTypeOK, CondTypeOK, ConnTypeOK, GateTypeOK,
                VerdictTypeOK, condVars, poolVars, verdicts

LEMMA WaitType ==
    ASSUME TypeOK, NEW c \in Conn, WaitForJob(c) \/ SwapHandle(c)
    PROVE  TypeOK'
  <1>1. CondTypeOK'
    BY AsyncWaitType, AssignHandleType DEF WaitForJob, SwapHandle, TypeOK, PoolTypeOK
  <1>2. pc' \in [Conn -> {"idle", "take", "wait", "swap"}]
    BY DEF WaitForJob, SwapHandle, TypeOK, ConnTypeOK
  <1> QED
    BY <1>1, <1>2
       DEF WaitForJob, SwapHandle, TypeOK, PoolTypeOK, ConnTypeOK, GateTypeOK,
           VerdictTypeOK, poolVars, gateVars, verdicts

LEMMA HandleWriteType ==
    ASSUME TypeOK, NEW c \in Conn, NEW i \in DOMAIN writes[c], HandleWrite(c, i)
    PROVE  TypeOK'
  <1>1. RemoveAt(writes[c], i) \in Seq(Write)
    BY RemoveWriteType
  <1>2. writes' \in [Conn -> Seq(Write)]
    BY <1>1 DEF HandleWrite, TypeOK, ConnTypeOK
  <1>3. pc' \in [Conn -> {"idle", "take", "wait", "swap"}]
    BY DEF HandleWrite, GetNext, TypeOK, ConnTypeOK
  <1> QED
    BY <1>2, <1>3
       DEF HandleWrite, TypeOK, PoolTypeOK, CondTypeOK, ConnTypeOK, GateTypeOK,
           VerdictTypeOK, condVars, poolVars, gateVars, verdicts

LEMMA TransmitType ==
    ASSUME TypeOK, NEW c \in Conn, NEW i \in DOMAIN writes[c], Transmit(c, i)
    PROVE  TypeOK'
  <1> DEFINE w == writes[c][i]
  <1>1. i \in 1..Len(writes[c]) /\ writes[c] \in Seq(Write) /\ wire[c] \in Seq(Job)
    BY LenProperties DEF TypeOK, ConnTypeOK, GateTypeOK
  <1>2. w \in Write
    BY <1>1, ElementOfSeq
  <1>3. Head(w.jobs) \in Job /\ Tail(w.jobs) \in Seq(Job)
    BY <1>2, HeadTailProperties DEF Transmit, Write
  <1>4. [w EXCEPT !.jobs = Tail(@)] \in Write
    BY <1>2, <1>3 DEF Write
  <1>5. [writes[c] EXCEPT ![i] = [w EXCEPT !.jobs = Tail(@)]] \in Seq(Write)
    BY <1>1, <1>4, ExceptSeq
  <1>6. writes' \in [Conn -> Seq(Write)]
    BY <1>5 DEF Transmit, TypeOK, ConnTypeOK
  <1>7. wire' \in [Conn -> Seq(Job)]
    BY <1>1, <1>3, AppendProperties DEF Transmit, TypeOK, GateTypeOK
  <1> QED
    BY <1>6, <1>7
       DEF Transmit, TypeOK, PoolTypeOK, CondTypeOK, ConnTypeOK, GateTypeOK,
           VerdictTypeOK, condVars, poolVars, verdicts

LEMMA GatewayAcceptType ==
    ASSUME TypeOK, NEW c \in Conn, GatewayAccept(c)
    PROVE  TypeOK'
  <1>1. Head(wire[c]) \in Job /\ Tail(wire[c]) \in Seq(Job)
    BY HeadTailProperties DEF GatewayAccept, TypeOK, GateTypeOK
  <1> QED
    BY <1>1
       DEF GatewayAccept, TypeOK, PoolTypeOK, CondTypeOK, ConnTypeOK, GateTypeOK,
           VerdictTypeOK, condVars, poolVars, connVars, verdicts

LEMMA HangupType ==
    ASSUME TypeOK, NEW c \in Conn, NEW kind \in {"reject", "shutdown", "eof", "reset"},
           NEW id \in Job \cup {None}, Hangup(c, kind, id), rejected' \subseteq Job
    PROVE  TypeOK'
  <1>1. Abandon(writes[c]) \in Seq(Write)
    BY AbandonType DEF TypeOK, ConnTypeOK
  <1>2. ConnTypeOK'
    BY <1>1 DEF Hangup, TypeOK, ConnTypeOK, SockState
  <1>3. [kind |-> IF kind = "reject" THEN "error" ELSE kind, id |-> id] \in Response
    BY DEF Response
  <1>4. GateTypeOK'
    BY <1>3, EmptySeq DEF Hangup, Fault, TypeOK, GateTypeOK
  <1> QED
    BY <1>2, <1>4
       DEF Hangup, TypeOK, PoolTypeOK, CondTypeOK, VerdictTypeOK, condVars, poolVars, verdicts

LEMMA GatewayType ==
    ASSUME TypeOK, NEW c \in Conn, Gateway(c)
    PROVE  TypeOK'
  <1>1. CASE GatewayReject(c)
    <2>1. Head(wire[c]) \in Job
      BY <1>1, HeadTailProperties DEF GatewayReject, TypeOK, GateTypeOK
    <2>2. rejected' \subseteq Job
      BY <1>1, <2>1 DEF GatewayReject, TypeOK, GateTypeOK
    <2> QED
      BY <1>1, <2>1, <2>2, HangupType DEF GatewayReject
  <1>2. CASE GatewayShutdown(c)
    BY <1>2, HangupType DEF GatewayShutdown, TypeOK, GateTypeOK
  <1>3. CASE GatewayDrop(c)
    BY <1>3, HangupType DEF GatewayDrop, TypeOK, GateTypeOK
  <1> QED
    BY <1>1, <1>2, <1>3, TransmitType, GatewayAcceptType DEF Gateway

LEMMA ClientType ==
    ASSUME TypeOK, Client
    PROVE  TypeOK'
  <1>1. PoolTypeOK'
    <2>1. CASE Notify
      BY <2>1, NotifyOneType DEF Notify, PostNotify, TypeOK, PoolTypeOK
    <2>2. ASSUME NEW j \in Job, Post(j)
          PROVE  PoolTypeOK'
      BY <2>2, AppendProperties
         DEF Post, PostPush, TypeOK, PoolTypeOK, CondTypeOK, condVars
    <2> QED
      BY <2>1, <2>2 DEF Client
  <1> QED
    BY <1>1 DEF Client, Notify, Post, TypeOK, ConnTypeOK, GateTypeOK, VerdictTypeOK,
                connVars, gateVars, verdicts

-----------------------------------------------------------------------------
LEMMA TypeInit == Init => TypeOK
  BY EmptySeq, NoneAssumption, FaultAssumption
     DEF Init, PoolInit, CondInit, TypeOK, PoolTypeOK, CondTypeOK, ConnTypeOK, GateTypeOK,
         VerdictTypeOK, Ops, SockState, Response, NoResp

LEMMA TypeStep == TypeOK /\ [Next]_vars => TypeOK'
  <1> SUFFICES ASSUME TypeOK, [Next]_vars
               PROVE  TypeOK'
    OBVIOUS
  <1>1. CASE Client
    BY <1>1, ClientType
  <1>2. ASSUME NEW c \in Conn, Handler(c)
        PROVE  TypeOK'
    BY <1>2, StartType, HandleConnectType, HandleHandshakeType, HandleReadErrType,
       OnCheckCacheType, HandleJobAvailableType, TakeJobType, SendBatchType, WaitType,
       HandleWriteType DEF Handler
  <1>3. ASSUME NEW c \in Conn, Gateway(c)
        PROVE  TypeOK'
    BY <1>3, GatewayType
  <1>4. CASE UNCHANGED vars
    BY <1>4 DEF vars, condVars, poolVars, connVars, gateVars, verdicts, TypeOK, PoolTypeOK,
                CondTypeOK, ConnTypeOK, GateTypeOK, VerdictTypeOK
  <1> QED
    BY <1>1, <1>2, <1>3, <1>4 DEF Next

\* Every reachable state is well typed: in particular no handler counts a
\* notification it was not sent and every answer is read as what was written.
THEOREM TypeCorrect == Spec => []TypeOK
  <1> QED
    BY TypeInit, TypeStep, PTL DEF Spec

-----------------------------------------------------------------------------
\* Conservation of jobs.

\* Where the jobs are is all that JobConserved is about.
placeVars == <<jobs, cache, okd, failed, posted>>

LEMMA JobsStay ==
    ASSUME JobConserved, UNCHANGED placeVars
    PROVE  JobConserved'
  BY DEF JobConserved, placeVars, settled

\* A connection releases jobs from its cache: some are reported as sent, some
\* as refused, some go back to the queue and the rest stays.
Parcel(c, sent, bad, back, rest) ==
    /\ back \in Seq(Job) /\ IsInjective(back)
    /\ rest \in Seq(Job) /\ IsInjective(rest)
    /\ ToSet(cache[c]) = sent \cup bad \cup ToSet(back) \cup ToSet(rest)
    /\ sent \cap bad = {}
    /\ (sent \cup bad) \cap (ToSet(back) \cup ToSet(rest)) = {}
    /\ ToSet(back) \cap ToSet(rest) = {}
    /\ jobs' = jobs \o back
    /\ cache' = [cache EXCEPT ![c] = rest]
    /\ okd' = okd \cup sent
    /\ failed' = failed \cup bad
    /\ posted' = posted

Released(c) == \E sent, bad, back, rest : Parcel(c, sent, bad, back, rest)

LEMMA JobsReleased ==
    ASSUME TypeOK, JobConserved, NEW c \in Conn,
           NEW sent, NEW bad, NEW back, NEW rest, Parcel(c, sent, bad, back, rest)
    PROVE  JobConserved'
  <1> USE DEF Parcel
  <1>1. jobs \in Seq(Job) /\ cache \in [Conn -> Seq(Job)]
    BY DEF TypeOK, PoolTypeOK, ConnTypeOK
  <1>2. ToSet(jobs') = ToSet(jobs) \cup ToSet(back)
    BY <1>1, ToSetConcat
  <1>3. cache'[c] = rest /\ \A d \in Conn : d # c => cache'[d] = cache[d]
    BY <1>1
  <1>4. ToSet(jobs) \cap ToSet(cache[c]) = {}
    BY DEF JobConserved
  <1>5. IsInjective(jobs')
    <2>1. ToSet(jobs) \cap ToSet(back) = {} /\ IsInjective(jobs)
      BY <1>4 DEF JobConserved
    <2> QED
      BY <1>1, <2>1, InjectiveConcat
  <1>6. \A d \in Conn : IsInjective(cache'[d])
    BY <1>3 DEF JobConserved
  <1>7. \A d \in Conn : ToSet(cache'[d]) \subseteq ToSet(cache[d])
    BY <1>3
  <1>8. \A d \in Conn : ToSet(jobs') \cap ToSet(cache'[d]) = {}
    BY <1>2, <1>3 DEF JobConserved
  <1>9. \A d, e \in Conn : d # e => ToSet(cache'[d]) \cap ToSet(cache'[e]) = {}
    BY <1>7 DEF JobConserved
  <1>10. settled' = settled \cup sent \cup bad
    BY DEF settled
  <1>11. okd' \cap failed' = {} /\ ToSet(jobs') \cap settled' = {}
    BY <1>2, <1>4, <1>10 DEF JobConserved, settled
  <1>12. \A d \in Conn : ToSet(cache'[d]) \cap settled' = {}
    BY <1>3, <1>10 DEF JobConserved
  <1> DEFINE held == UNION {ToSet(cache[d]) : d \in Conn}
             kept == UNION {ToSet(cache'[d]) : d \in Conn}
  <1>13. held = kept \cup sent \cup bad \cup ToSet(back)
    <2>1. ASSUME NEW d \in Conn
          PROVE  ToSet(cache[d]) \subseteq kept \cup sent \cup bad \cup ToSet(back)
      BY <1>3
    <2>2. \A d \in Conn : ToSet(cache'[d]) \subseteq held
      BY <1>7
    <2>3. sent \cup bad \cup ToSet(back) \subseteq held
      OBVIOUS
    <2> QED
      BY <2>1, <2>2, <2>3
  <1>14. posted' = ToSet(jobs') \cup kept \cup settled'
    <2>1. posted = ToSet(jobs) \cup held \cup settled
      BY DEF JobConserved
    <2> HIDE DEF held, kept
    <2> QED
      BY <1>2, <1>10, <1>13, <2>1
  <1> QED
    BY <1>5, <1>6, <1>8, <1>9, <1>11, <1>12, <1>14 DEF JobConserved

\* A client posts a job it has not posted before.
LEMMA JobPosted ==
    ASSUME TypeOK, JobConserved, NEW j \in Job, Post(j)
    PROVE  JobConserved'
  <1>1. /\ jobs \in Seq(Job)
        /\ j \notin posted
        /\ posted' = posted \cup {j}
        /\ jobs' = Append(jobs, j)
        /\ UNCHANGED <<cache, okd, failed>>
    BY DEF Post, PostPush, TypeOK, PoolTypeOK, connVars, verdicts
  <1>2. ToSet(jobs') = ToSet(jobs) \cup {j}
    BY <1>1, ToSetAppend
  <1>3. /\ j \notin ToSet(jobs)
        /\ \A c \in Conn : j \notin ToSet(cache[c])
        /\ j \notin settled
    BY <1>1 DEF JobConserved
  <1>4. IsInjective(jobs')
    BY <1>1, <1>3, InjectiveAppend DEF JobConserved
  <1>5. settled' = settled
    BY <1>1 DEF settled
  <1>6. \A c \in Conn : ToSet(jobs') \cap ToSet(cache'[c]) = {}
    BY <1>1, <1>2, <1>3 DEF JobConserved
  <1>7. ToSet(jobs') \cap settled' = {}
    BY <1>2, <1>3, <1>5 DEF JobConserved
  <1>8. /\ \A c \in Conn : IsInjective(cache'[c])
        /\ \A c, d \in Conn : c # d => ToSet(cache'[c]) \cap ToSet(cache'[d]) = {}
        /\ okd' \cap failed' = {}
        /\ \A c \in Conn : ToSet(cache'[c]) \cap settled' = {}
    BY <1>1, <1>5 DEF JobConserved
  <1> DEFINE held == UNION {ToSet(cache[c]) : c \in Conn}
             kept == UNION {ToSet(cache'[c]) : c \in Conn}
  <1>9. posted' = ToSet(jobs') \cup settled' \cup kept
    <2>1. posted = ToSet(jobs) \cup settled \cup held
      BY DEF JobConserved
    <2>2. held = kept
      BY <1>1
    <2> HIDE DEF held, kept
    <2> QED
      BY <1>1, <1>2, <1>5, <2>1, <2>2
  <1> QED
    BY <1>4, <1>6, <1>7, <1>8, <1>9 DEF JobConserved

\* A connection takes the job that is first in the queue.
LEMMA JobTaken ==
    ASSUME TypeOK, JobConserved, NEW c \in Conn, NEW j \in Job, TakeJob(c, j)
    PROVE  JobConserved'
  <1>1. /\ jobs \in Seq(Job)
        /\ jobs # <<>>
        /\ j = Head(jobs)
        /\ jobs' = Tail(jobs)
        /\ cache \in [Conn -> Seq(Job)]
        /\ cache' = [cache EXCEPT ![c] = Append(@, j)]
        /\ UNCHANGED <<posted, okd, failed>>
    BY DEF TakeJob, GetNextJob, Remember, TypeOK, PoolTypeOK, ConnTypeOK, verdicts
  <1>2. ToSet(jobs) = {j} \cup ToSet(jobs')
    BY <1>1, ToSetHeadTail
  <1>3. IsInjective(jobs') /\ j \notin ToSet(jobs')
    BY <1>1, InjectiveTail DEF JobConserved
  <1>4. \A d \in Conn : j \notin ToSet(cache[d])
    BY <1>2 DEF JobConserved
  <1>5. cache'[c] = Append(cache[c], j) /\ \A d \in Conn : d # c => cache'[d] = cache[d]
    BY <1>1
  <1>6. ToSet(cache'[c]) = ToSet(cache[c]) \cup {j}
    BY <1>1, <1>5, ToSetAppend
  <1>7. IsInjective(cache'[c])
    BY <1>1, <1>4, <1>5, InjectiveAppend DEF JobConserved
  <1>8. \A d \in Conn : IsInjective(cache'[d])
    BY <1>5, <1>7 DEF JobConserved
  <1>9. ASSUME NEW d \in Conn
        PROVE  ToSet(jobs') \cap ToSet(cache'[d]) = {}
    <2>1. ToSet(jobs) \cap ToSet(cache[d]) = {}
      BY DEF JobConserved
    <2>2. ToSet(cache'[d]) \subseteq ToSet(cache[d]) \cup {j}
      BY <1>5, <1>6
    <2> QED
      BY <1>2, <1>3, <2>1, <2>2
  <1>10. ASSUME NEW d \in Conn, NEW e \in Conn, d # e
         PROVE  ToSet(cache'[d]) \cap ToSet(cache'[e]) = {}
    <2>1. /\ ToSet(cache[d]) \cap ToSet(cache[e]) = {}
          /\ j \notin ToSet(cache[d])
          /\ j \notin ToSet(cache[e])
      BY <1>4, <1>10 DEF JobConserved
    <2>2. \/ ToSet(cache'[d]) = ToSet(cache[d]) \cup {j} /\ cache'[e] = cache[e]
          \/ /\ ToSet(cache'[e]) = ToSet(cache[e]) \cup {j} /\ cache'[d] = cache[d]
          \/ cache'[d] = cache[d] /\ cache'[e] = cache[e]
      BY <1>5, <1>6, <1>10
    <2> QED
      BY <2>1, <2>2
  <1>11. settled' = settled
    BY <1>1 DEF settled
  <1>12. /\ ToSet(jobs') \cap settled' = {}
         /\ \A d \in Conn : ToSet(cache'[d]) \cap settled' = {}
    BY <1>2, <1>5, <1>6, <1>11 DEF JobConserved
  <1> DEFINE held == UNION {ToSet(cache[d]) : d \in Conn}
             kept == UNION {ToSet(cache'[d]) : d \in Conn}
  <1>13. kept = held \cup {j}
    <2>1. \A d \in Conn : ToSet(cache'[d]) \subseteq held \cup {j}
      BY <1>5, <1>6
    <2>2. \A d \in Conn : ToSet(cache[d]) \subseteq kept
      BY <1>5, <1>6
    <2>3. j \in kept
      BY <1>6
    <2> QED
      BY <2>1, <2>2, <2>3
  <1>14. posted' = ToSet(jobs') \cup settled' \cup kept
    <2>1. posted = ToSet(jobs) \cup settled \cup held
      BY DEF JobConserved
    <2> HIDE DEF held, kept
    <2> QED
      BY <1>1, <1>2, <1>11, <1>13, <2>1
  <1> QED
    BY <1>1, <1>3, <1>8, <1>9, <1>10, <1>12, <1>14 DEF JobConserved

-----------------------------------------------------------------------------
\* The parts into which an answer cuts the cache.
LEMMA CacheCut ==
    ASSUME TypeOK, JobConserved, NEW c \in Conn, NEW id, InCache(c, id)
    PROVE  /\ ToSet(cache[c]) = ToSet(UpTo(c, id)) \cup ToSet(After(c, id))
           /\ ToSet(UpTo(c, id)) \cap ToSet(After(c, id)) = {}
           /\ ToSet(UpTo(c, id)) = ToSet(Before(c, id)) \cup {id}
           /\ id \notin ToSet(Before(c, id))
           /\ IsInjective(After(c, id))
  <1> DEFINE p == Position(c, id)
  <1>1. /\ cache[c] \in Seq(Job)
        /\ DOMAIN cache[c] = 1..Len(cache[c])
        /\ Len(cache[c]) \in Nat
        /\ p \in 1..Len(cache[c])
        /\ cache[c][p] = id
        /\ IsInjective(cache[c])
    BY PositionType, LenProperties DEF TypeOK, ConnTypeOK, JobConserved
  <1> HIDE DEF p
  <1>2. /\ ToSet(SubSeq(cache[c], 1, p)) = {cache[c][i] : i \in 1..p}
        /\ ToSet(SubSeq(cache[c], 1, p - 1)) = {cache[c][i] : i \in 1..(p - 1)}
    <2>1. /\ p \in Int /\ 1 <= p /\ p <= Len(cache[c])
          /\ p - 1 \in Int /\ p - 1 <= Len(cache[c])
      BY <1>1
    <2>2. ToSet(SubSeq(cache[c], 1, p)) = {cache[c][i] : i \in 1..p}
      BY <1>1, <2>1, Segment
    <2>3. ToSet(SubSeq(cache[c], 1, p - 1)) = {cache[c][i] : i \in 1..(p - 1)}
      BY <1>1, <2>1, Segment
    <2> QED
      BY <2>2, <2>3
  <1>3. 1..p = (1..(p - 1)) \cup {p}
    BY <1>1
  <1>4. ToSet(SubSeq(cache[c], 1, p)) = ToSet(SubSeq(cache[c], 1, p - 1)) \cup {id}
    BY <1>1, <1>2, <1>3
  <1>5. id \notin {cache[c][i] : i \in 1..(p - 1)}
    <2>1. ASSUME NEW i \in 1..(p - 1), cache[c][i] = id
          PROVE  FALSE
      <3>1. i \in DOMAIN cache[c] /\ p \in DOMAIN cache[c] /\ i # p
        BY <1>1
      <3> QED
        BY <1>1, <2>1, <3>1 DEF IsInjective
    <2> QED
      BY <2>1
  <1>6. IsInjective(SubSeq(cache[c], p + 1, Len(cache[c])))
    BY <1>1, InjectiveSegment
  <1>7. /\ ToSet(cache[c])
             = ToSet(SubSeq(cache[c], 1, p)) \cup ToSet(SubSeq(cache[c], p + 1, Len(cache[c])))
        /\ ToSet(SubSeq(cache[c], 1, p)) \cap ToSet(SubSeq(cache[c], p + 1, Len(cache[c]))) = {}
    BY <1>1, Cut
  <1> QED
    BY <1>2, <1>4, <1>5, <1>6, <1>7 DEF p, UpTo, Before, After

LEMMA FailCachedReleases ==
    ASSUME TypeOK, JobConserved, NEW c \in Conn, NEW id, FailCached(c, id), UNCHANGED posted
    PROVE  Released(c)
  <1>1. /\ InCache(c, id)
        /\ okd' = okd \cup ToSet(Before(c, id))
        /\ failed' = failed \cup {id}
        /\ jobs' = jobs \o After(c, id)
        /\ cache' = [cache EXCEPT ![c] = <<>>]
    BY DEF FailCached, ReportSent, PostRange, EmptyCache
  <1>2. After(c, id) \in Seq(Job) /\ <<>> \in Seq(Job) /\ IsInjective(<<>>) /\ ToSet(<<>>) = {}
    BY <1>1, CutType, ToSetEmpty DEF IsInjective
  <1>3. /\ ToSet(cache[c]) = ToSet(Before(c, id)) \cup {id} \cup ToSet(After(c, id)) \cup ToSet(<<>>)
        /\ ToSet(Before(c, id)) \cap {id} = {}
        /\ (ToSet(Before(c, id)) \cup {id}) \cap (ToSet(After(c, id)) \cup ToSet(<<>>)) = {}
        /\ ToSet(After(c, id)) \cap ToSet(<<>>) = {}
        /\ IsInjective(After(c, id))
    BY <1>1, <1>2, CacheCut
  <1>4. Parcel(c, ToSet(Before(c, id)), {id}, After(c, id), <<>>)
    BY <1>1, <1>2, <1>3 DEF Parcel
  <1> QED
    BY <1>4 DEF Released

LEMMA ShutdownReleases ==
    ASSUME TypeOK, JobConserved, NEW c \in Conn, NEW id, SortCacheOnShutdown(c, id),
           UNCHANGED posted
    PROVE  Released(c)
  <1>1. cache' = [cache EXCEPT ![c] = <<>>] /\ failed' = failed \cup {}
    BY DEF SortCacheOnShutdown, EmptyCache
  <1>2. <<>> \in Seq(Job) /\ IsInjective(<<>>) /\ ToSet(<<>>) = {}
    BY ToSetEmpty DEF IsInjective
  <1>3. CASE ReturnRest(c, id)
    <2>1. /\ InCache(c, id)
          /\ okd' = okd \cup ToSet(UpTo(c, id))
          /\ jobs' = jobs \o After(c, id)
      BY <1>3 DEF ReturnRest, ReportSent, PostRange
    <2>2. After(c, id) \in Seq(Job)
      BY <2>1, CutType
    <2>3. /\ ToSet(cache[c]) = ToSet(UpTo(c, id)) \cup {} \cup ToSet(After(c, id)) \cup ToSet(<<>>)
          /\ ToSet(UpTo(c, id)) \cap {} = {}
          /\ (ToSet(UpTo(c, id)) \cup {}) \cap (ToSet(After(c, id)) \cup ToSet(<<>>)) = {}
          /\ ToSet(After(c, id)) \cap ToSet(<<>>) = {}
          /\ IsInjective(After(c, id))
      BY <1>2, <2>1, CacheCut
    <2>4. Parcel(c, ToSet(UpTo(c, id)), {}, After(c, id), <<>>)
      BY <1>1, <1>2, <2>1, <2>2, <2>3 DEF Parcel
    <2> QED
      BY <2>4 DEF Released
  <1>4. CASE ReturnAll(c, id)
    <2>1. okd' = okd \cup {} /\ jobs' = jobs \o cache[c]
      BY <1>4 DEF ReturnAll, PostRange
    <2>2. cache[c] \in Seq(Job) /\ IsInjective(cache[c])
      BY DEF TypeOK, ConnTypeOK, JobConserved
    <2>3. /\ ToSet(cache[c]) = {} \cup {} \cup ToSet(cache[c]) \cup ToSet(<<>>)
          /\ {} \cap {} = {}
          /\ ({} \cup {}) \cap (ToSet(cache[c]) \cup ToSet(<<>>)) = {}
          /\ ToSet(cache[c]) \cap ToSet(<<>>) = {}
      BY <1>2
    <2>4. Parcel(c, {}, {}, cache[c], <<>>)
      BY <1>1, <1>2, <2>1, <2>2, <2>3 DEF Parcel
    <2> QED
      BY <2>4 DEF Released
  <1> QED
    BY <1>3, <1>4 DEF SortCacheOnShutdown

LEMMA CheckReleases ==
    ASSUME TypeOK, JobConserved, NEW c \in Conn, NEW k \in 0..Len(cache[c]), OnCheckCache(c, k)
    PROVE  Released(c)
  <1> DEFINE front == SubSeq(cache[c], 1, k)
             back  == SubSeq(cache[c], k + 1, Len(cache[c]))
  <1>1. cache[c] \in Seq(Job) /\ IsInjective(cache[c]) /\ Len(cache[c]) \in Nat
    BY LenProperties DEF TypeOK, ConnTypeOK, JobConserved
  <1>2. /\ back \in Seq(Job)
        /\ ToSet(cache[c]) = ToSet(front) \cup ToSet(back)
        /\ ToSet(front) \cap ToSet(back) = {}
    BY <1>1, Cut
  <1>3. IsInjective(back)
    BY <1>1, InjectiveSegment
  <1>4. /\ okd' = okd \cup ToSet(front)
        /\ cache' = [cache EXCEPT ![c] = back]
        /\ failed' = failed \cup {}
        /\ posted' = posted
        /\ jobs' = jobs
    BY DEF OnCheckCache, ReportSent, poolVars
  <1>5. jobs' = jobs \o <<>> /\ <<>> \in Seq(Job) /\ IsInjective(<<>>) /\ ToSet(<<>>) = {}
    BY <1>4, ToSetEmpty, ConcatEmptySeq DEF IsInjective, TypeOK, PoolTypeOK
  <1> HIDE DEF front, back
  <1>6. /\ ToSet(cache[c]) = ToSet(front) \cup {} \cup ToSet(<<>>) \cup ToSet(back)
        /\ ToSet(front) \cap {} = {}
        /\ (ToSet(front) \cup {}) \cap (ToSet(<<>>) \cup ToSet(back)) = {}
        /\ ToSet(<<>>) \cap ToSet(back) = {}
    BY <1>2, <1>5
  <1>7. Parcel(c, ToSet(front), {}, <<>>, back)
    BY <1>2, <1>3, <1>4, <1>5, <1>6 DEF Parcel
  <1> QED
    BY <1>7 DEF Released

LEMMA ReadErrReleases ==
    ASSUME TypeOK, JobConserved, NEW c \in Conn, HandleReadErr(c)
    PROVE  Released(c) \/ UNCHANGED placeVars
  <1>1. CASE FailCached(c, resp[c].id)
    BY <1>1, FailCachedReleases DEF FailCached, PostRange
  <1>2. CASE SortCacheOnShutdown(c, resp[c].id)
    BY <1>2, ShutdownReleases DEF SortCacheOnShutdown, ReturnRest, ReturnAll, PostRange
  <1>3. CASE FailLost(c, resp[c].id) \/ ReadEof(c) \/ ReadFailure(c)
    BY <1>3 DEF FailLost, ReadEof, ReadFailure, placeVars, poolVars, verdicts
  <1> QED
    BY <1>1, <1>2, <1>3 DEF HandleReadErr, SortCacheOnError

\* No other handler and nothing the gateway does moves a job.
LEMMA OthersStay ==
    ASSUME NEW c \in Conn,
           \/ Start(c)
           \/ RestartTimer(c)
           \/ HandleConnect(c)
           \/ HandleHandshake(c)
           \/ HandleJobAvailable(c)
           \/ SendBatch(c)
           \/ WaitForJob(c)
           \/ SwapHandle(c)
           \/ \E i \in DOMAIN writes[c] : HandleWrite(c, i)
           \/ Gateway(c)
    PROVE  UNCHANGED placeVars
  <1>1. CASE Start(c) \/ RestartTimer(c) \/ HandleJobAvailable(c) \/ SendBatch(c)
    BY <1>1
       DEF Start, RestartTimer, HandleJobAvailable, SendBatch, placeVars, poolVars, verdicts
  <1>2. CASE HandleConnect(c) \/ HandleHandshake(c)
    <2>1. UNCHANGED <<okd, failed>>
      BY <1>2 DEF HandleConnect, HandleHandshake, Connected, Established, Broken, verdicts
    <2> QED
      BY <1>2, <2>1 DEF HandleConnect, HandleHandshake, placeVars, poolVars
  <1>3. CASE WaitForJob(c) \/ SwapHandle(c) \/ \E i \in DOMAIN writes[c] : HandleWrite(c, i)
    BY <1>3 DEF WaitForJob, SwapHandle, HandleWrite, placeVars, poolVars, verdicts
  <1>4. CASE Gateway(c)
    BY <1>4
       DEF Gateway, Transmit, GatewayAccept, GatewayReject, GatewayShutdown, GatewayDrop,
           Hangup, placeVars, poolVars, connVars, verdicts
  <1> QED
    BY <1>1, <1>2, <1>3, <1>4

\* What a step does to the places of the jobs: nothing, or it posts one, takes
\* one, or releases those of one connection.
LEMMA JobMoves ==
    ASSUME TypeOK, JobConserved, [Next]_vars
    PROVE  \/ UNCHANGED placeVars
           \/ \E j \in Job : Post(j)
           \/ \E c \in Conn : Released(c) \/ \E j \in Job : TakeJob(c, j)
  <1>1. CASE Client
    BY <1>1 DEF Client, Notify, PostNotify, placeVars, connVars, verdicts
  <1>2. ASSUME NEW c \in Conn, Handler(c)
        PROVE  \/ UNCHANGED placeVars
               \/ Released(c) \/ \E j \in Job : TakeJob(c, j)
    BY <1>2, ReadErrReleases, CheckReleases, OthersStay DEF Handler
  <1>3. ASSUME NEW c \in Conn, Gateway(c)
        PROVE  UNCHANGED placeVars
    BY <1>3, OthersStay
  <1>4. CASE UNCHANGED vars
    BY <1>4 DEF vars, placeVars, poolVars, connVars, verdicts
  <1> QED
    BY <1>1, <1>2, <1>3, <1>4 DEF Next

LEMMA JobsInit == Init => JobConserved
  <1> SUFFICES ASSUME Init
               PROVE  JobConserved
    OBVIOUS
  <1>1. jobs = <<>> /\ posted = {} /\ okd = {} /\ failed = {}
    BY DEF Init, PoolInit
  <1>2. \A c \in Conn : cache[c] = <<>>
    BY DEF Init
  <1>3. IsInjective(<<>>) /\ ToSet(<<>>) = {}
    BY ToSetEmpty DEF IsInjective
  <1> QED
    BY <1>1, <1>2, <1>3 DEF JobConserved, settled

LEMMA JobsStep == TypeOK /\ JobConserved /\ [Next]_vars => JobConserved'
  <1> SUFFICES ASSUME TypeOK, JobConserved, [Next]_vars
               PROVE  JobConserved'
    OBVIOUS
  <1>1. ASSUME NEW c \in Conn, Released(c)
        PROVE  JobConserved'
    BY <1>1, JobsReleased DEF Released
  <1> QED
    BY <1>1, JobMoves, JobsStay, JobPosted, JobTaken

\* Whatever the number of connections, jobs and failures and in whatever order
\* their handlers run, no job that was posted is lost or exists twice: it is in
\* the queue, in the cache of one connection, or has one final verdict.
THEOREM JobsConserved == Spec => []JobConserved
  <1>1. TypeOK /\ [Next]_vars /\ JobConserved => JobConserved'
    BY JobsStep
  <1> QED
    BY JobsInit, TypeCorrect, <1>1, PTL DEF Spec

-----------------------------------------------------------------------------
\* The refinement.

\* Where a job is.
Located(j) ==
    /\ j \in settled => Place(j) = "settled"
    /\ j \in ToSet(jobs) => Place(j) = "queued"
    /\ \A c \in Conn : j \in ToSet(cache[c]) => Place(j) = c
    /\ j \notin posted => Place(j) = "unposted"
    /\ \/ j \in settled \/ j \in ToSet(jobs)
       \/ \E c \in Conn : j \in ToSet(cache[c])
       \/ j \notin posted

LEMMA PlaceOf == JobConserved => \A j \in Job : Located(j)
  <1> SUFFICES ASSUME JobConserved, NEW j \in Job
               PROVE  Located(j)
    OBVIOUS
  <1>1. ASSUME NEW c \in Conn, j \in ToSet(cache[c])
        PROVE  Place(j) = c
    <2>1. j \notin settled /\ j \notin ToSet(jobs) /\ \A d \in Conn : j \in ToSet(cache[d]) => d = c
      BY <1>1 DEF JobConserved
    <2>2. (CHOOSE d \in Conn : j \in ToSet(cache[d])) = c
      BY <1>1, <2>1
    <2> QED
      BY <1>1, <2>1, <2>2 DEF Place
  <1>2. j \in ToSet(jobs) => j \notin settled
    BY DEF JobConserved
  <1>3. j \in posted <=> j \in settled \/ j \in ToSet(jobs) \/ \E c \in Conn : j \in ToSet(cache[c])
    BY DEF JobConserved
  <1> QED
    BY <1>1, <1>2, <1>3 DEF Place, Located

LEMMA PlaceNext == JobConserved' => (\A j \in Job : Located(j))'
  BY PlaceOf, PTL

LEMMA LedgerInitially == Init => Ledger!Init
  <1> SUFFICES ASSUME Init
               PROVE  Ledger!Init
    OBVIOUS
  <1>1. JobConserved /\ posted = {}
    BY JobsInit DEF Init, PoolInit
  <1>2. \A j \in Job : Place(j) = "unposted"
    BY <1>1, PlaceOf DEF Located
  <1> QED
    BY <1>2 DEF Ledger!Init

\* A job that neither side of a step knows more of stays where it is.
LEMMA PlaceStays ==
    ASSUME NEW j \in Job, Located(j), Located(j)',
           j \in settled' <=> j \in settled,
           j \in ToSet(jobs)' <=> j \in ToSet(jobs),
           j \in posted' <=> j \in posted,
           \A d \in Conn : j \in ToSet(cache[d])' <=> j \in ToSet(cache[d])
    PROVE  Place(j)' = Place(j)
  BY DEF Located

LEMMA ReleasePlaces ==
    ASSUME TypeOK, JobConserved, JobConserved', NEW c \in Conn,
           NEW sent, NEW bad, NEW back, NEW rest, Parcel(c, sent, bad, back, rest)
    PROVE  \A j \in Job :
              /\ j \in sent \cup bad => Place(j) = c /\ Place(j)' = "settled"
              /\ j \in ToSet(back) => Place(j) = c /\ Place(j)' = "queued"
              /\ j \notin sent \cup bad \cup ToSet(back) => Place(j)' = Place(j)
  <1>1. \A j \in Job : Located(j) /\ Located(j)'
    BY PlaceOf, PlaceNext
  <1>2. jobs \in Seq(Job) /\ cache \in [Conn -> Seq(Job)]
    BY DEF TypeOK, PoolTypeOK, ConnTypeOK
  <1>3. ToSet(jobs)' = ToSet(jobs) \cup ToSet(back)
    BY <1>2, ToSetConcat DEF Parcel
  <1>4. settled' = settled \cup sent \cup bad /\ posted' = posted
    BY DEF Parcel, settled
  <1>5. /\ ToSet(cache[c]) = sent \cup bad \cup ToSet(back) \cup ToSet(rest)
        /\ ToSet(cache[c])' = ToSet(rest)
        /\ \A d \in Conn : d # c => ToSet(cache[d])' = ToSet(cache[d])
    BY <1>2 DEF Parcel
  <1> SUFFICES ASSUME NEW j \in Job
               PROVE  /\ j \in sent \cup bad => Place(j) = c /\ Place(j)' = "settled"
                      /\ j \in ToSet(back) => Place(j) = c /\ Place(j)' = "queued"
                      /\ j \notin sent \cup bad \cup ToSet(back) => Place(j)' = Place(j)
    OBVIOUS
  <1>6. j \in sent \cup bad => Place(j) = c /\ Place(j)' = "settled"
    BY <1>1, <1>4, <1>5 DEF Located
  <1>7. j \in ToSet(back) => Place(j) = c /\ Place(j)' = "queued"
    BY <1>1, <1>3, <1>5 DEF Located
  <1>8. ASSUME j \notin sent \cup bad \cup ToSet(back)
        PROVE  Place(j)' = Place(j)
    <2>1. \A d \in Conn : j \in ToSet(cache[d])' <=> j \in ToSet(cache[d])
      BY <1>5, <1>8
    <2>2. /\ j \in settled' <=> j \in settled
          /\ j \in ToSet(jobs)' <=> j \in ToSet(jobs)
          /\ j \in posted' <=> j \in posted
      BY <1>3, <1>4, <1>8
    <2> QED
      BY <1>1, <2>1, <2>2, PlaceStays
  <1> QED
    BY <1>6, <1>7, <1>8

LEMMA LedgerStep ==
    TypeOK /\ JobConserved /\ JobConserved' /\ [Next]_vars
        => [Ledger!Next]_([j \in Job |-> Place(j)])
  <1> SUFFICES ASSUME TypeOK, JobConserved, JobConserved', [Next]_vars
               PROVE  [Ledger!Next]_([j \in Job |-> Place(j)])
    OBVIOUS
  <1> DEFINE L == [j \in Job |-> Place(j)]
  <1>0. /\ \A j \in Job : Located(j) /\ Located(j)'
        /\ jobs \in Seq(Job) /\ cache \in [Conn -> Seq(Job)]
    BY PlaceOf, PlaceNext DEF TypeOK, PoolTypeOK, ConnTypeOK
  <1>1. CASE UNCHANGED placeVars
    <2>1. settled' = settled /\ jobs' = jobs /\ posted' = posted /\ cache' = cache
      BY <1>1 DEF placeVars, settled
    <2>2. \A j \in Job : Place(j)' = Place(j)
      BY <1>0, <2>1, PlaceStays
    <2> QED
      BY <2>2
  <1>2. ASSUME NEW j \in Job, Post(j)
        PROVE  Ledger!Post(j)
    <2>1. /\ j \notin posted /\ posted' = posted \cup {j}
          /\ jobs' = Append(jobs, j) /\ UNCHANGED <<cache, okd, failed>>
      BY <1>2 DEF Post, PostPush, connVars, verdicts
    <2>2. ToSet(jobs)' = ToSet(jobs) \cup {j} /\ settled' = settled
      BY <1>0, <2>1, ToSetAppend DEF settled
    <2>3. Place(j) = "unposted" /\ Place(j)' = "queued"
      BY <1>0, <2>1, <2>2 DEF Located
    <2>4. \A k \in Job : k # j => Place(k)' = Place(k)
      BY <1>0, <2>1, <2>2, PlaceStays
    <2>5. L' = [L EXCEPT ![j] = "queued"]
      BY <2>3, <2>4
    <2> QED
      BY <2>3, <2>5 DEF Ledger!Post
  <1>3. ASSUME NEW c \in Conn, NEW j \in Job, TakeJob(c, j)
        PROVE  Ledger!Take(j, c)
    <2>1. /\ jobs # <<>> /\ j = Head(jobs) /\ jobs' = Tail(jobs)
          /\ cache' = [cache EXCEPT ![c] = Append(@, j)]
          /\ UNCHANGED <<posted, okd, failed>>
      BY <1>3 DEF TakeJob, GetNextJob, Remember, verdicts
    <2>2. ToSet(jobs) = {j} \cup ToSet(jobs)' /\ j \notin ToSet(jobs)' /\ settled' = settled
      BY <1>0, <2>1, ToSetHeadTail, InjectiveTail DEF JobConserved, settled
    <2>3. /\ ToSet(cache[c])' = ToSet(cache[c]) \cup {j}
          /\ \A d \in Conn : d # c => ToSet(cache[d])' = ToSet(cache[d])
      BY <1>0, <2>1, ToSetAppend
    <2>4. Place(j) = "queued" /\ Place(j)' = c
      BY <1>0, <2>2, <2>3 DEF Located
    <2>5. ASSUME NEW k \in Job, k # j
          PROVE  Place(k)' = Place(k)
      <3>1. \A d \in Conn : k \in ToSet(cache[d])' <=> k \in ToSet(cache[d])
        BY <2>3, <2>5
      <3> QED
        BY <1>0, <2>1, <2>2, <2>5, <3>1, PlaceStays
    <2>6. L' = [L EXCEPT ![j] = c]
      BY <2>4, <2>5
    <2> QED
      BY <2>4, <2>6 DEF Ledger!Take
  <1>4. ASSUME NEW c \in Conn, Released(c)
        PROVE  Ledger!Next \/ L' = L
    <2>1. PICK sent, bad, back, rest : Parcel(c, sent, bad, back, rest)
      BY <1>4 DEF Released
    <2> DEFINE done == sent \cup bad
               kept == ToSet(back)
    <2>2. done \subseteq Job /\ kept \subseteq Job /\ done \cap kept = {}
      BY <1>0, <2>1, ToSetType DEF Parcel
    <2>3. \A j \in Job :
             /\ j \in done => Place(j) = c /\ Place(j)' = "settled"
             /\ j \in kept => Place(j) = c /\ Place(j)' = "queued"
             /\ j \notin done \cup kept => Place(j)' = Place(j)
      BY <2>1, ReleasePlaces
    <2> HIDE DEF done, kept
    <2>4. CASE done \cup kept = {}
      BY <2>3, <2>4
    <2>5. CASE done \cup kept # {}
      <3>1. done \in SUBSET Ledger!Held(c) /\ kept \in SUBSET (Ledger!Held(c) \ done)
        BY <2>2, <2>3 DEF Ledger!Held
      <3>2. \A j \in Job : L'[j] = CASE j \in done -> "settled" [] j \in kept -> "queued" [] OTHER -> L[j]
        BY <2>2, <2>3
      <3>3. L' = [j \in Job |-> CASE j \in done -> "settled" [] j \in kept -> "queued" [] OTHER -> L[j]]
        BY <3>2
      <3>4. Ledger!Release(c, done, kept)
        BY <2>5, <3>3 DEF Ledger!Release
      <3> QED
        BY <3>1, <3>4 DEF Ledger!Next
    <2> QED
      BY <2>4, <2>5
  <1> QED
    BY <1>1, <1>2, <1>3, <1>4, JobMoves DEF Ledger!Next

\* Whatever the number of connections, jobs and failures, every handler of the
\* APNs connections is a step of the ledger of jobs, or none: it posts, takes or
\* releases jobs, and what is settled never comes back.
THEOREM ApnsImplementsLedger == Spec => ImplementsLedger
  <1> QED
    BY TypeCorrect, JobsConserved, LedgerInitially, LedgerStep, PTL
       DEF ImplementsLedger, Ledger!Spec, Spec

-----------------------------------------------------------------------------
\* The stages of a connection: the operation that leads it on, its socket and
\* whether there is an answer to read.

Starting(c)    == op[c] \in {{"start"}, {"connect"}} /\ sock[c] = "none"
Handshaking(c) == op[c] = {"handshake"} /\ sock[c] = "handshake"
Open(c)        == op[c] = {"read"} /\ sock[c] = "open" /\ timer[c]
Hung(c)        == op[c] = {"read"} /\ sock[c] = "dead"
Restarting(c)  == op[c] = {"restart"} /\ sock[c] \in {"none", "dead"}

Stage(c) ==
    \/ /\ Starting(c) \/ Handshaking(c) \/ Open(c) \/ Restarting(c)
       /\ resp[c].kind = "none"
    \/ /\ Hung(c)
       /\ resp[c].kind # "none"

Lifecycle == \A c \in Conn : Stage(c)

\* The jobs a connection has in its cache or has reported: all it ever sent to
\* the gateway, as long as it does not give any back.
Known(c) == ToSet(cache[c]) \cup okd

\* Nothing can come of a socket any more.
Quiet(c) ==
    /\ wire[c] = <<>>
    /\ lastDone[c] = None
    /\ \A w \in ToSet(writes[c]) : w.fate # "live"

\* All that a connection is about to send or has on its way is in K.
SentIn(c, K) ==
    /\ ToSet(batch[c]) \subseteq K
    /\ ToSet(wire[c]) \subseteq K
    /\ \A w \in ToSet(writes[c]) : w.fate = "live" => ToSet(w.jobs) \subseteq K

SentIsKnown(c) ==
    /\ SentIn(c, Known(c))
    /\ lastDone[c] \in Known(c) \cup {None}

AnswerIsKnown(c) ==
    /\ resp[c].kind = "error" => resp[c].id \in Known(c)
    /\ resp[c].kind = "shutdown" => resp[c].id \in Known(c) \cup {None}

Sound(c) ==
    /\ SentIsKnown(c)
    /\ AnswerIsKnown(c)
    /\ pc[c] # "take" => batch[c] = <<>>
    /\ sock[c] = "dead" => Quiet(c)

Answers == late \subseteq okd /\ \A c \in Conn : Sound(c)

-----------------------------------------------------------------------------
\* The stages follow each other.

LEMMA StageStays ==
    ASSUME NEW c \in Conn, Stage(c),
           op'[c] = op[c], sock'[c] = sock[c], resp'[c] = resp[c], timer'[c] = timer[c]
    PROVE  Stage(c)'
  BY DEF Stage, Starting, Handshaking, Open, Hung, Restarting

\* An operation that completes was the only one.
LEMMA OnlyOperation ==
    ASSUME TypeOK, NEW c \in Conn, Stage(c), NEW done, done \in op[c], NEW then, Advance(c, done, then)
    PROVE  op[c] = {done} /\ op'[c] = {then}
  <1>1. op[c] = {done}
    BY DEF Stage, Starting, Handshaking, Open, Hung, Restarting
  <1>2. op'[c] = (op[c] \ {done}) \cup {then}
    BY DEF Advance, TypeOK, ConnTypeOK
  <1> QED
    BY <1>1, <1>2

LEMMA ConnectStage ==
    ASSUME TypeOK, NEW c \in Conn, Stage(c),
           HandleConnect(c) \/ HandleHandshake(c)
    PROVE  Stage(c)'
  <1>1. resp' = resp
    BY DEF HandleConnect, HandleHandshake
  <1>2. CASE HandleConnect(c)
    <2>1. op[c] = {"connect"}
      BY <1>2 DEF HandleConnect, Stage, Starting, Handshaking, Open, Hung, Restarting
    <2>2. resp[c].kind = "none"
      BY <2>1 DEF Stage, Starting, Handshaking, Open, Hung, Restarting
    <2>3. \/ op'[c] = {"handshake"} /\ sock'[c] = "handshake"
          \/ op'[c] = {"restart"} /\ sock'[c] = "none"
      BY <1>2, <2>1
         DEF HandleConnect, Connected, Broken, Throw, Advance, TypeOK, ConnTypeOK
    <2> QED
      BY <1>1, <2>2, <2>3 DEF Stage, Handshaking, Restarting
  <1>3. CASE HandleHandshake(c)
    <2>1. op[c] = {"handshake"}
      BY <1>3 DEF HandleHandshake, Stage, Starting, Handshaking, Open, Hung, Restarting
    <2>2. resp[c].kind = "none"
      BY <2>1 DEF Stage, Starting, Handshaking, Open, Hung, Restarting
    <2>3. \/ op'[c] = {"read"} /\ sock'[c] = "open" /\ timer'[c]
          \/ op'[c] = {"restart"} /\ sock'[c] = "none"
      BY <1>3, <2>1
         DEF HandleHandshake, Established, ResetCacheChecker, Broken, Throw, Advance,
             TypeOK, ConnTypeOK
    <2> QED
      BY <1>1, <2>2, <2>3 DEF Stage, Open, Restarting
  <1> QED
    BY <1>2, <1>3

LEMMA StartStage ==
    ASSUME TypeOK, NEW c \in Conn, Stage(c), Start(c) \/ RestartTimer(c)
    PROVE  Stage(c)'
  <1>1. op[c] \in {{"start"}, {"restart"}}
    BY DEF Start, RestartTimer, Stage, Starting, Handshaking, Open, Hung, Restarting
  <1>2. resp[c].kind = "none"
    BY <1>1 DEF Stage, Starting, Handshaking, Open, Hung, Restarting
  <1>3. op'[c] = {"connect"} /\ sock'[c] = "none" /\ resp'[c] = resp[c]
    BY <1>1 DEF Start, RestartTimer, StartConnect, Advance, TypeOK, ConnTypeOK, gateVars
  <1> QED
    BY <1>2, <1>3 DEF Stage, Starting

\* An answer is only read from a connection that was hung up.
LEMMA ReadStage ==
    ASSUME TypeOK, NEW c \in Conn, Stage(c), HandleReadErr(c)
    PROVE  Hung(c) /\ Stage(c)'
  <1>1. "read" \in op[c] /\ resp[c].kind # "none"
    BY DEF HandleReadErr
  <1>2. Hung(c)
    BY <1>1 DEF Stage, Starting, Handshaking, Open, Restarting
  <1>3. resp'[c].kind = "none"
    BY DEF HandleReadErr, NoResp, TypeOK, GateTypeOK
  <1>4. Reconnect(c) \/ GiveUp(c)
    BY DEF HandleReadErr, SortCacheOnError, FailCached, FailLost, SortCacheOnShutdown,
           ReadEof, ReadFailure
  <1>5. \/ op'[c] = {"connect"} /\ sock'[c] = "none"
        \/ op'[c] = {"restart"} /\ sock'[c] = "dead"
    BY <1>2, <1>4
       DEF Hung, Reconnect, GiveUp, StartConnect, Throw, Advance, TypeOK, ConnTypeOK
  <1> QED
    BY <1>2, <1>3, <1>5 DEF Stage, Starting, Restarting

LEMMA HangupStage ==
    ASSUME TypeOK, NEW c \in Conn, Stage(c),
           GatewayReject(c) \/ GatewayShutdown(c) \/ GatewayDrop(c)
    PROVE  Stage(c)'
  <1>1. PICK kind \in {"reject", "shutdown", "eof", "reset"} : \E id : Hangup(c, kind, id)
    BY DEF GatewayReject, GatewayShutdown, GatewayDrop
  <1>2. Open(c)
    BY <1>1 DEF Hangup, Stage, Starting, Handshaking, Hung, Restarting
  <1>3. op'[c] = {"read"} /\ sock'[c] = "dead"
    BY <1>1, <1>2 DEF Hangup, Open, TypeOK, ConnTypeOK
  <1>4. resp'[c].kind # "none"
    BY <1>1 DEF Hangup, TypeOK, GateTypeOK
  <1> QED
    BY <1>3, <1>4 DEF Stage, Hung

\* The steps of a connection leave the others alone.
LEMMA OthersStage ==
    ASSUME TypeOK, NEW c \in Conn, Handler(c) \/ Gateway(c), NEW d \in Conn, d # c
    PROVE  op'[d] = op[d] /\ sock'[d] = sock[d] /\ resp'[d] = resp[d] /\ timer'[d] = timer[d]
  <1>1. op'[d] = op[d] /\ sock'[d] = sock[d]
    <2>1. CASE Start(c) \/ RestartTimer(c) \/ HandleConnect(c) \/ HandleHandshake(c)
      BY <2>1 DEF Start, RestartTimer, StartConnect, HandleConnect, HandleHandshake, Connected,
                  Established, Broken, Throw, Advance, TypeOK, ConnTypeOK
    <2>2. CASE HandleReadErr(c)
      <3>1. Reconnect(c) \/ GiveUp(c)
        BY <2>2 DEF HandleReadErr, SortCacheOnError, FailCached, FailLost, SortCacheOnShutdown,
                    ReadEof, ReadFailure
      <3> QED
        BY <3>1 DEF Reconnect, GiveUp, StartConnect, Throw, Advance, TypeOK, ConnTypeOK
    <2>3. CASE Gateway(c)
      BY <2>3 DEF Gateway, Transmit, GatewayAccept, GatewayReject, GatewayShutdown, GatewayDrop,
                  Hangup, connVars, TypeOK, ConnTypeOK
    <2>4. CASE \/ \E k \in 0..Len(cache[c]) : OnCheckCache(c, k)
               \/ HandleJobAvailable(c)
               \/ \E j \in Job : TakeJob(c, j)
               \/ SendBatch(c)
               \/ WaitForJob(c)
               \/ SwapHandle(c)
               \/ \E i \in DOMAIN writes[c] : HandleWrite(c, i)
      BY <2>4 DEF OnCheckCache, HandleJobAvailable, TakeJob, SendBatch, WaitForJob, SwapHandle,
                  HandleWrite
    <2> QED
      BY <2>1, <2>2, <2>3, <2>4 DEF Handler
  <1>2. resp'[d] = resp[d]
    BY DEF Handler, Start, RestartTimer, HandleConnect, HandleHandshake, HandleReadErr,
           OnCheckCache, HandleJobAvailable, TakeJob, SendBatch, WaitForJob, SwapHandle,
           HandleWrite, Gateway, Transmit, GatewayAccept, GatewayReject, GatewayShutdown,
           GatewayDrop, Hangup, gateVars, TypeOK, GateTypeOK
  <1>3. timer'[d] = timer[d]
    BY DEF Handler, Start, RestartTimer, HandleConnect, HandleHandshake, Connected, Established,
           Broken, ResetCacheChecker, HandleReadErr, OnCheckCache, HandleJobAvailable, TakeJob,
           SendBatch, WaitForJob, SwapHandle, HandleWrite, Gateway, Transmit, GatewayAccept,
           GatewayReject, GatewayShutdown, GatewayDrop, Hangup, connVars, TypeOK, ConnTypeOK
  <1> QED
    BY <1>1, <1>2, <1>3

\* Sending, waiting and checking the cache do not change the stage either.
LEMMA WorkStage ==
    ASSUME TypeOK, NEW c \in Conn, Stage(c),
           \/ \E k \in 0..Len(cache[c]) : OnCheckCache(c, k)
           \/ HandleJobAvailable(c)
           \/ \E j \in Job : TakeJob(c, j)
           \/ SendBatch(c)
           \/ WaitForJob(c)
           \/ SwapHandle(c)
           \/ \E i \in DOMAIN writes[c] : HandleWrite(c, i)
           \/ \E i \in DOMAIN writes[c] : Transmit(c, i)
           \/ GatewayAccept(c)
    PROVE  Stage(c)'
  <1>1. op' = op /\ sock' = sock /\ resp' = resp
    BY DEF OnCheckCache, HandleJobAvailable, TakeJob, SendBatch, WaitForJob, SwapHandle,
           HandleWrite, Transmit, GatewayAccept, gateVars, connVars
  <1>2. timer'[c] = timer[c] \/ timer'[c]
    BY DEF OnCheckCache, ResetCacheChecker, HandleJobAvailable, TakeJob, SendBatch, WaitForJob,
           SwapHandle, HandleWrite, Transmit, GatewayAccept, connVars, TypeOK, ConnTypeOK
  <1> QED
    BY <1>1, <1>2 DEF Stage, Starting, Handshaking, Open, Hung, Restarting

LEMMA LifecycleInit == Init => Lifecycle
  BY DEF Init, Lifecycle, Stage, Starting, NoResp

LEMMA LifecycleStep == TypeOK /\ Lifecycle /\ [Next]_vars => Lifecycle'
  <1> SUFFICES ASSUME TypeOK, Lifecycle, [Next]_vars, NEW d \in Conn
               PROVE  Stage(d)'
    BY DEF Lifecycle
  <1>1. Stage(d)
    BY DEF Lifecycle
  <1>2. CASE Client \/ UNCHANGED vars
    BY <1>1, <1>2, StageStays DEF Client, Notify, Post, vars, connVars, gateVars
  <1>3. ASSUME NEW c \in Conn, Handler(c) \/ Gateway(c)
        PROVE  Stage(d)'
    <2>1. CASE d # c
      BY <1>1, <1>3, <2>1, OthersStage, StageStays
    <2>2. CASE d = c
      BY <1>1, <1>3, <2>2, StartStage, ConnectStage, ReadStage, WorkStage, HangupStage
         DEF Handler, Gateway
    <2> QED
      BY <2>1, <2>2
  <1> QED
    BY <1>2, <1>3 DEF Next

LEMMA LifecycleHolds == Spec => []Lifecycle
  <1>1. TypeOK /\ [Next]_vars /\ Lifecycle => Lifecycle'
    BY LifecycleStep
  <1> QED
    BY LifecycleInit, TypeCorrect, <1>1, PTL DEF Spec

\* A connection never has two operations that lead it on and never none: no
\* sequence of failed connects, handshakes and reads, of restarts by the code
\* and by run_one breaks this.
THEOREM OneDriverAlways == Spec => []OneDriver
  <1>1. Lifecycle => OneDriver
    <2> SUFFICES ASSUME Lifecycle, NEW c \in Conn
                 PROVE  Cardinality(op[c]) = 1
      BY DEF OneDriver
    <2>1. \E o : op[c] = {o}
      BY DEF Lifecycle, Stage, Starting, Handshaking, Open, Hung, Restarting
    <2> QED
      BY <2>1, FS_Singleton
  <1> QED
    BY LifecycleHolds, <1>1, PTL

\* While a connection is established its cache checker is armed.
THEOREM TimerAlwaysAlive == Spec => []TimerAlive
  <1>1. Lifecycle => TimerAlive
    BY DEF Lifecycle, TimerAlive, Stage, Starting, Handshaking, Open, Hung, Restarting
  <1> QED
    BY LifecycleHolds, <1>1, PTL

-----------------------------------------------------------------------------
\* Sets of writes.

LEMMA AbandonedIsDead ==
    ASSUME NEW ws \in Seq(Write)
    PROVE  \A w \in ToSet(Abandon(ws)) : w.fate # "live"
  <1>1. DOMAIN ws = 1..Len(ws) /\ \A i \in 1..Len(ws) : ws[i] \in Write
    BY LenProperties, ElementOfSeq
  <1>2. \A i \in DOMAIN ws : Abandon(ws)[i].fate # "live"
    BY <1>1 DEF Abandon, Write
  <1>3. DOMAIN Abandon(ws) = DOMAIN ws
    BY DEF Abandon
  <1> QED
    BY <1>2, <1>3 DEF ToSet

LEMMA RemoveAtSet ==
    ASSUME NEW S, NEW s \in Seq(S), NEW i \in DOMAIN s
    PROVE  ToSet(RemoveAt(s, i)) \subseteq ToSet(s)
  <1> DEFINE front == SubSeq(s, 1, i - 1)
             back  == SubSeq(s, i + 1, Len(s))
  <1>1. DOMAIN s = 1..Len(s) /\ Len(s) \in Nat
    BY LenProperties
  <1>2. /\ i - 1 \in Int /\ i - 1 <= Len(s)
        /\ i + 1 \in Int /\ 1 <= i + 1
    BY <1>1
  <1>3. front \in Seq(S) /\ ToSet(front) = {s[k] : k \in 1..(i - 1)}
    BY <1>1, <1>2, Segment
  <1>4. back \in Seq(S) /\ ToSet(back) = {s[k] : k \in (i + 1)..Len(s)}
    BY <1>1, <1>2, Segment
  <1>5. ToSet(front) \subseteq ToSet(s) /\ ToSet(back) \subseteq ToSet(s)
    BY <1>1, <1>3, <1>4 DEF ToSet
  <1> HIDE DEF front, back
  <1>6. ToSet(front \o back) = ToSet(front) \cup ToSet(back)
    BY <1>3, <1>4, ToSetConcat
  <1> QED
    BY <1>5, <1>6 DEF RemoveAt, front, back

\* Nothing but the one entry goes.
LEMMA RemoveAtRest ==
    ASSUME NEW S, NEW s \in Seq(S), NEW i \in DOMAIN s
    PROVE  ToSet(s) \subseteq ToSet(RemoveAt(s, i)) \cup {s[i]}
  <1> DEFINE front == SubSeq(s, 1, i - 1)
             back  == SubSeq(s, i + 1, Len(s))
  <1>1. DOMAIN s = 1..Len(s) /\ Len(s) \in Nat
    BY LenProperties
  <1>2. /\ i - 1 \in Int /\ i - 1 <= Len(s)
        /\ i + 1 \in Int /\ 1 <= i + 1
    BY <1>1
  <1>3. front \in Seq(S) /\ ToSet(front) = {s[k] : k \in 1..(i - 1)}
    BY <1>1, <1>2, Segment
  <1>4. back \in Seq(S) /\ ToSet(back) = {s[k] : k \in (i + 1)..Len(s)}
    BY <1>1, <1>2, Segment
  <1> HIDE DEF front, back
  <1>5. ToSet(front \o back) = ToSet(front) \cup ToSet(back)
    BY <1>3, <1>4, ToSetConcat
  <1>6. ToSet(s) = {s[k] : k \in DOMAIN s}
    BY DEF ToSet
  <1>7. \A k \in DOMAIN s : k = i \/ k \in 1..(i - 1) \/ k \in (i + 1)..Len(s)
    BY <1>1
  <1> QED
    BY <1>3, <1>4, <1>5, <1>6, <1>7 DEF RemoveAt, front, back

-----------------------------------------------------------------------------
\* What a connection has sent stays known to it.

\* The steps of a connection leave what others have under way alone.
LEMMA OthersKeep ==
    ASSUME TypeOK, NEW c \in Conn, Handler(c) \/ Gateway(c), NEW d \in Conn, d # c
    PROVE  /\ cache'[d] = cache[d]
           /\ pc'[d] = pc[d] /\ batch'[d] = batch[d]
           /\ wire'[d] = wire[d] /\ lastDone'[d] = lastDone[d]
           /\ writes'[d] = writes[d]
  <1>2. cache'[d] = cache[d]
    BY DEF Handler, Start, RestartTimer, HandleConnect, HandleHandshake, HandleReadErr,
           SortCacheOnError, FailCached, FailLost, SortCacheOnShutdown, EmptyCache, ReadEof,
           ReadFailure, OnCheckCache, HandleJobAvailable, TakeJob, Remember, SendBatch,
           WaitForJob, SwapHandle, HandleWrite, Gateway, Transmit, GatewayAccept,
           GatewayReject, GatewayShutdown, GatewayDrop, Hangup, connVars, TypeOK, ConnTypeOK
  <1>3. pc'[d] = pc[d] /\ batch'[d] = batch[d]
    <2>1. CASE HandleConnect(c) \/ HandleHandshake(c)
      BY <2>1 DEF HandleConnect, HandleHandshake, Connected, Established, Broken, TypeOK,
                  ConnTypeOK
    <2>2. CASE Gateway(c) \/ Start(c) \/ RestartTimer(c) \/ HandleReadErr(c)
      BY <2>2 DEF Gateway, Transmit, GatewayAccept, GatewayReject, GatewayShutdown, GatewayDrop,
                  Hangup, connVars, Start, RestartTimer, HandleReadErr
    <2>3. CASE \/ \E k \in 0..Len(cache[c]) : OnCheckCache(c, k)
               \/ HandleJobAvailable(c)
               \/ \E j \in Job : TakeJob(c, j)
               \/ SendBatch(c)
               \/ WaitForJob(c)
               \/ SwapHandle(c)
               \/ \E i \in DOMAIN writes[c] : HandleWrite(c, i)
      BY <2>3 DEF OnCheckCache, HandleJobAvailable, TakeJob, SendBatch, NothingToSend, Send,
                  WaitForJob, SwapHandle, HandleWrite, GetNext, TypeOK, ConnTypeOK
    <2> QED
      BY <2>1, <2>2, <2>3 DEF Handler
  <1>4. wire'[d] = wire[d] /\ lastDone'[d] = lastDone[d]
    <2>1. CASE Gateway(c)
      BY <2>1 DEF Gateway, Transmit, GatewayAccept, GatewayReject, GatewayShutdown, GatewayDrop,
                  Hangup, TypeOK, GateTypeOK
    <2>2. CASE SendBatch(c)
      BY <2>2 DEF SendBatch, NothingToSend, Send, StartWrite, WriteOn, TypeOK, GateTypeOK
    <2>3. CASE Handler(c) /\ wire' = wire
      BY <2>3 DEF Handler, Start, RestartTimer, HandleConnect, HandleHandshake, HandleReadErr,
                  OnCheckCache, HandleJobAvailable, TakeJob, SendBatch, WaitForJob, SwapHandle,
                  HandleWrite, gateVars
    <2>4. Handler(c) => SendBatch(c) \/ wire' = wire
      BY DEF Handler, Start, RestartTimer, HandleConnect, HandleHandshake, HandleReadErr,
             OnCheckCache, HandleJobAvailable, TakeJob, WaitForJob, SwapHandle,
             HandleWrite, gateVars
    <2> QED
      BY <2>1, <2>2, <2>3, <2>4
  <1>5. writes'[d] = writes[d]
    <2>1. CASE Start(c) \/ RestartTimer(c) \/ HandleConnect(c) \/ HandleHandshake(c)
      BY <2>1 DEF Start, RestartTimer, StartConnect, HandleConnect, HandleHandshake, Connected,
                  Established, Broken, TypeOK, ConnTypeOK
    <2>2. CASE HandleReadErr(c)
      <3>1. Reconnect(c) \/ GiveUp(c)
        BY <2>2 DEF HandleReadErr, SortCacheOnError, FailCached, FailLost, SortCacheOnShutdown,
                    ReadEof, ReadFailure
      <3> QED
        BY <3>1 DEF Reconnect, GiveUp, StartConnect, TypeOK, ConnTypeOK
    <2>3. CASE Gateway(c)
      BY <2>3 DEF Gateway, Transmit, GatewayAccept, GatewayReject, GatewayShutdown, GatewayDrop,
                  Hangup, connVars, TypeOK, ConnTypeOK
    <2>4. CASE SendBatch(c)
      BY <2>4 DEF SendBatch, NothingToSend, Send, StartWrite, WriteOn, TypeOK, ConnTypeOK
    <2>5. CASE \/ \E k \in 0..Len(cache[c]) : OnCheckCache(c, k)
               \/ HandleJobAvailable(c)
               \/ \E j \in Job : TakeJob(c, j)
               \/ WaitForJob(c)
               \/ SwapHandle(c)
               \/ \E i \in DOMAIN writes[c] : HandleWrite(c, i)
      BY <2>5 DEF OnCheckCache, HandleJobAvailable, TakeJob, WaitForJob, SwapHandle,
                  HandleWrite, TypeOK, ConnTypeOK
    <2> QED
      BY <2>1, <2>2, <2>3, <2>4, <2>5 DEF Handler
  <1> QED
    BY <1>2, <1>3, <1>4, <1>5

\* A connection that starts, connects, breaks or reads an answer abandons its
\* writes or leaves them as they are.
LEMMA LifecycleWrites ==
    ASSUME TypeOK, NEW c \in Conn,
           \/ Start(c) \/ RestartTimer(c) \/ HandleConnect(c) \/ HandleHandshake(c)
           \/ HandleReadErr(c)
    PROVE  /\ UNCHANGED <<batch, wire, lastDone>>
           /\ writes'[c] = writes[c] \/ writes'[c] = Abandon(writes[c])
  <1>1. UNCHANGED <<batch, wire, lastDone>>
    BY DEF Start, RestartTimer, HandleConnect, HandleHandshake, HandleReadErr, gateVars
  <1>2. CASE Start(c) \/ RestartTimer(c) \/ HandleConnect(c) \/ HandleHandshake(c)
    BY <1>1, <1>2 DEF Start, RestartTimer, StartConnect, HandleConnect, HandleHandshake, Connected,
                      Established, Broken, TypeOK, ConnTypeOK
  <1>3. CASE HandleReadErr(c)
    <2>1. Reconnect(c) \/ GiveUp(c)
      BY <1>3 DEF HandleReadErr, SortCacheOnError, FailCached, FailLost, SortCacheOnShutdown,
                  ReadEof, ReadFailure
    <2> QED
      BY <1>1, <2>1 DEF Reconnect, GiveUp, StartConnect, TypeOK, ConnTypeOK
  <1> QED
    BY <1>2, <1>3

LEMMA LifecycleSent ==
    ASSUME TypeOK, NEW c \in Conn, NEW K, SentIn(c, K),
           \/ Start(c) \/ RestartTimer(c) \/ HandleConnect(c) \/ HandleHandshake(c)
           \/ HandleReadErr(c)
    PROVE  SentIn(c, K)'
  <1>1. UNCHANGED <<batch, wire>>
    BY LifecycleWrites
  <1>2. CASE writes'[c] = writes[c]
    BY <1>1, <1>2 DEF SentIn
  <1>3. CASE writes'[c] = Abandon(writes[c])
    <2>1. \A w \in ToSet(writes'[c]) : w.fate # "live"
      BY <1>3, AbandonedIsDead DEF TypeOK, ConnTypeOK
    <2> QED
      BY <1>1, <2>1 DEF SentIn
  <1> QED
    BY <1>2, <1>3, LifecycleWrites

\* A write goes the way of the socket; its first buffer leaves at once on one
\* that is open.
LEMMA SendWrites ==
    ASSUME TypeOK, NEW c \in Conn, Send(c)
    PROVE  \E f \in FateOn(sock[c]), rest \in Seq(Job) :
              /\ f \in Fate
              /\ ToSet(rest) \subseteq ToSet(batch[c])
              /\ ToSet(writes'[c]) = ToSet(writes[c]) \cup {[jobs |-> rest, fate |-> f]}
              /\ ToSet(wire'[c]) \subseteq ToSet(wire[c]) \cup ToSet(batch[c])
              /\ sock[c] # "open" => wire' = wire
              /\ batch'[c] = <<>>
  <1> DEFINE open == sock[c] = "open"
             rest == IF open THEN Tail(batch[c]) ELSE batch[c]
  <1>1. batch[c] \in Seq(Job) /\ batch[c] # <<>> /\ wire[c] \in Seq(Job)
    BY DEF Send, TypeOK, ConnTypeOK, GateTypeOK
  <1>2. /\ Head(batch[c]) \in ToSet(batch[c])
        /\ Head(batch[c]) \in Job
        /\ ToSet(rest) \subseteq ToSet(batch[c])
        /\ rest \in Seq(Job)
    BY <1>1, ToSetHeadTail, HeadTailProperties
  <1>3. ToSet(wire'[c]) \subseteq ToSet(wire[c]) \cup ToSet(batch[c]) /\ (~open => wire' = wire)
    <2>1. CASE open
      <3>1. wire'[c] = Append(wire[c], Head(batch[c]))
        BY <2>1 DEF Send, StartWrite, WriteOn, TypeOK, GateTypeOK
      <3>2. ToSet(wire'[c]) = ToSet(wire[c]) \cup {Head(batch[c])}
        BY <1>1, <1>2, <3>1, ToSetAppend
      <3> QED
        BY <1>2, <2>1, <3>2
    <2>2. CASE ~open
      BY <2>2 DEF Send, StartWrite, WriteOn
    <2> QED
      BY <2>1, <2>2
  <1>4. PICK f \in FateOn(sock[c]) :
          writes' = [writes EXCEPT ![c] = Append(@, [jobs |-> rest, fate |-> f])]
    BY DEF Send, StartWrite, WriteOn
  <1>5. f \in Fate
    BY DEF FateOn, Fate, TypeOK, ConnTypeOK, SockState
  <1>6. ToSet(writes'[c]) = ToSet(writes[c]) \cup {[jobs |-> rest, fate |-> f]}
    <2> DEFINE new == [jobs |-> rest, fate |-> f]
    <2>1. new \in Write
      BY <1>2, <1>5 DEF Write
    <2>2. writes'[c] = Append(writes[c], new) /\ writes[c] \in Seq(Write)
      BY <1>4 DEF TypeOK, ConnTypeOK
    <2> HIDE DEF new
    <2>3. ToSet(writes'[c]) = ToSet(writes[c]) \cup {new}
      BY <2>1, <2>2, ToSetAppend
    <2> QED
      BY <2>3 DEF new
  <1>7. batch'[c] = <<>>
    BY DEF Send, TypeOK, ConnTypeOK
  <1> HIDE DEF rest
  <1> QED
    BY <1>2, <1>3, <1>4, <1>5, <1>6, <1>7

LEMMA SendSent ==
    ASSUME TypeOK, NEW c \in Conn, NEW K, SentIn(c, K), SendBatch(c)
    PROVE  SentIn(c, K)'
  <1>1. CASE NothingToSend(c)
    BY <1>1 DEF NothingToSend, SentIn
  <1>2. CASE Send(c)
    <2>1. PICK f \in FateOn(sock[c]), rest \in Seq(Job) :
            /\ ToSet(rest) \subseteq ToSet(batch[c])
            /\ ToSet(writes'[c]) = ToSet(writes[c]) \cup {[jobs |-> rest, fate |-> f]}
            /\ ToSet(wire'[c]) \subseteq ToSet(wire[c]) \cup ToSet(batch[c])
            /\ batch'[c] = <<>>
      BY <1>2, SendWrites
    <2>2. ToSet(batch'[c]) = {}
      BY <2>1, ToSetEmpty
    <2> QED
      BY <2>1, <2>2 DEF SentIn
  <1> QED
    BY <1>1, <1>2 DEF SendBatch

\* Waiting for a job, completing a write and checking the cache send nothing.
LEMMA WorkSent ==
    ASSUME TypeOK, NEW c \in Conn, NEW K, SentIn(c, K),
           \/ HandleJobAvailable(c)
           \/ WaitForJob(c)
           \/ SwapHandle(c)
           \/ \E i \in DOMAIN writes[c] : HandleWrite(c, i)
           \/ \E k \in 0..Len(cache[c]) : OnCheckCache(c, k)
    PROVE  SentIn(c, K)'
  <1>1. UNCHANGED <<batch, wire>>
    BY DEF HandleJobAvailable, WaitForJob, SwapHandle, HandleWrite, OnCheckCache, gateVars
  <1>2. ToSet(writes'[c]) \subseteq ToSet(writes[c])
    <2>1. ASSUME NEW i \in DOMAIN writes[c], HandleWrite(c, i)
          PROVE  ToSet(writes'[c]) \subseteq ToSet(writes[c])
      <3>1. writes'[c] = RemoveAt(writes[c], i) /\ writes[c] \in Seq(Write)
        BY <2>1 DEF HandleWrite, TypeOK, ConnTypeOK
      <3> QED
        BY <3>1, RemoveAtSet
    <2> QED
      BY <2>1 DEF HandleJobAvailable, WaitForJob, SwapHandle, OnCheckCache
  <1> QED
    BY <1>1, <1>2 DEF SentIn

LEMMA TransmitSent ==
    ASSUME TypeOK, NEW c \in Conn, NEW K, SentIn(c, K), NEW i \in DOMAIN writes[c], Transmit(c, i)
    PROVE  SentIn(c, K)'
  <1> DEFINE old == writes[c][i]
             new == [old EXCEPT !.jobs = Tail(@)]
  <1>1. /\ writes[c] \in Seq(Write)
        /\ wire[c] \in Seq(Job)
        /\ old \in Write
        /\ old \in ToSet(writes[c])
        /\ old.fate = "live"
        /\ old.jobs # <<>>
    BY ElementOfSeq, LenProperties DEF Transmit, TypeOK, ConnTypeOK, GateTypeOK, ToSet
  <1>2. /\ old.jobs \in Seq(Job)
        /\ ToSet(old.jobs) \subseteq K
        /\ ToSet(old.jobs) = {Head(old.jobs)} \cup ToSet(Tail(old.jobs))
        /\ Head(old.jobs) \in Job
    BY <1>1, ToSetHeadTail, HeadTailProperties DEF SentIn, Write
  <1>3. ToSet(wire'[c]) \subseteq K
    <2>1. wire'[c] = Append(wire[c], Head(old.jobs))
      BY DEF Transmit, TypeOK, GateTypeOK
    <2>2. ToSet(wire'[c]) = ToSet(wire[c]) \cup {Head(old.jobs)}
      BY <1>1, <1>2, <2>1, ToSetAppend
    <2> QED
      BY <1>2, <2>2 DEF SentIn
  <1>4. \A w \in ToSet(writes'[c]) : w.fate = "live" => ToSet(w.jobs) \subseteq K
    <2>1. writes'[c] = [writes[c] EXCEPT ![i] = new]
      BY DEF Transmit, TypeOK, ConnTypeOK
    <2>2. ToSet(writes'[c]) \subseteq ToSet(writes[c]) \cup {new}
      BY <2>1 DEF ToSet
    <2>3. ToSet(new.jobs) \subseteq K
      BY <1>1, <1>2 DEF Write
    <2> HIDE DEF new
    <2> QED
      BY <2>2, <2>3 DEF SentIn
  <1>5. batch' = batch
    BY DEF Transmit
  <1> QED
    BY <1>3, <1>4, <1>5 DEF SentIn

LEMMA AcceptSent ==
    ASSUME TypeOK, NEW c \in Conn, NEW K, SentIn(c, K), GatewayAccept(c)
    PROVE  SentIn(c, K)'
  <1>1. wire[c] \in Seq(Job) /\ wire[c] # <<>> /\ wire'[c] = Tail(wire[c])
    BY DEF GatewayAccept, TypeOK, GateTypeOK
  <1>2. ToSet(wire[c]) = {Head(wire[c])} \cup ToSet(Tail(wire[c]))
    BY <1>1, ToSetHeadTail
  <1>3. UNCHANGED <<batch, writes>>
    BY DEF GatewayAccept, connVars
  <1> QED
    BY <1>1, <1>2, <1>3 DEF SentIn

LEMMA HangupSent ==
    ASSUME TypeOK, NEW c \in Conn, NEW K, SentIn(c, K), NEW kind, NEW id, Hangup(c, kind, id)
    PROVE  SentIn(c, K)'
  <1>1. batch' = batch /\ wire'[c] = <<>> /\ writes'[c] = Abandon(writes[c])
    BY DEF Hangup, TypeOK, ConnTypeOK, GateTypeOK
  <1>2. \A w \in ToSet(writes'[c]) : w.fate # "live"
    BY <1>1, AbandonedIsDead DEF TypeOK, ConnTypeOK
  <1>3. ToSet(wire'[c]) = {}
    BY <1>1, ToSetEmpty
  <1> QED
    BY <1>1, <1>2, <1>3 DEF SentIn

\* Only taking a job puts something new under way.
LEMMA SentStays ==
    ASSUME TypeOK, NEW c \in Conn, Handler(c) \/ Gateway(c), \A j \in Job : ~TakeJob(c, j),
           NEW K, SentIn(c, K)
    PROVE  SentIn(c, K)'
  <1>1. CASE Handler(c)
    BY <1>1, LifecycleSent, SendSent, WorkSent DEF Handler
  <1>2. CASE Gateway(c)
    <2>1. ASSUME GatewayReject(c) \/ GatewayShutdown(c) \/ GatewayDrop(c)
          PROVE  \E kind, id : Hangup(c, kind, id)
      BY <2>1 DEF GatewayReject, GatewayShutdown, GatewayDrop
    <2> QED
      BY <1>2, <2>1, TransmitSent, AcceptSent, HangupSent DEF Gateway
  <1> QED
    BY <1>1, <1>2

LEMMA TakeSent ==
    ASSUME TypeOK, NEW c \in Conn, NEW K, SentIn(c, K), NEW j \in Job, TakeJob(c, j)
    PROVE  /\ SentIn(c, K \cup {j})'
           /\ ToSet(cache'[c]) = ToSet(cache[c]) \cup {j}
  <1>1. /\ batch'[c] = Append(batch[c], j)
        /\ cache'[c] = Append(cache[c], j)
        /\ UNCHANGED <<writes, wire>>
    BY DEF TakeJob, Remember, gateVars, TypeOK, ConnTypeOK
  <1>2. /\ ToSet(batch'[c]) = ToSet(batch[c]) \cup {j}
        /\ ToSet(cache'[c]) = ToSet(cache[c]) \cup {j}
    BY <1>1, ToSetAppend DEF TypeOK, ConnTypeOK
  <1> QED
    BY <1>1, <1>2 DEF SentIn

-----------------------------------------------------------------------------
\* What the answers name is known.

\* Knowing more does no harm.
LEMMA SoundStays ==
    ASSUME NEW c \in Conn, Sound(c), Known(c) \subseteq Known(c)',
           pc'[c] = pc[c], batch'[c] = batch[c], wire'[c] = wire[c], lastDone'[c] = lastDone[c],
           writes'[c] = writes[c], sock'[c] = sock[c], resp'[c] = resp[c]
    PROVE  Sound(c)'
  <1>1. SentIsKnown(c)'
    BY DEF Sound, SentIsKnown, SentIn
  <1>2. AnswerIsKnown(c)'
    BY DEF Sound, AnswerIsKnown
  <1>3. sock'[c] = "dead" => Quiet(c)'
    BY DEF Sound, Quiet
  <1> QED
    BY <1>1, <1>2, <1>3 DEF Sound

LEMMA ReportsGrow ==
    ASSUME TypeOK, [Next]_vars
    PROVE  okd \subseteq okd'
  <1>1. ASSUME NEW c \in Conn, HandleConnect(c) \/ HandleHandshake(c)
        PROVE  okd' = okd
    BY <1>1 DEF HandleConnect, HandleHandshake, Connected, Established, Broken, verdicts
  <1>2. ASSUME NEW c \in Conn, HandleReadErr(c)
        PROVE  okd \subseteq okd'
    BY <1>2 DEF HandleReadErr, SortCacheOnError, FailCached, FailLost, SortCacheOnShutdown,
                ReturnRest, ReturnAll, ReadEof, ReadFailure, ReportSent, verdicts
  <1>3. ASSUME NEW c \in Conn, NEW k \in 0..Len(cache[c]), OnCheckCache(c, k)
        PROVE  okd \subseteq okd'
    BY <1>3 DEF OnCheckCache, ReportSent
  <1>4. ASSUME NEW c \in Conn,
               \/ Start(c)
               \/ RestartTimer(c)
               \/ HandleJobAvailable(c)
               \/ \E j \in Job : TakeJob(c, j)
               \/ SendBatch(c)
               \/ WaitForJob(c)
               \/ SwapHandle(c)
               \/ \E i \in DOMAIN writes[c] : HandleWrite(c, i)
               \/ Gateway(c)
        PROVE  okd' = okd
    BY <1>4 DEF Start, RestartTimer, HandleJobAvailable, TakeJob, SendBatch, WaitForJob,
                SwapHandle, HandleWrite, Gateway, Transmit, GatewayAccept, GatewayReject,
                GatewayShutdown, GatewayDrop, Hangup, verdicts
  <1>5. CASE Client \/ UNCHANGED vars
    BY <1>5 DEF Client, Notify, Post, vars, verdicts
  <1> QED
    BY <1>1, <1>2, <1>3, <1>4, <1>5 DEF Next, Handler

LEMMA OthersSound ==
    ASSUME TypeOK, NEW c \in Conn, Handler(c) \/ Gateway(c), NEW d \in Conn, d # c,
           Sound(d), okd \subseteq okd'
    PROVE  Sound(d)'
  <1>1. sock'[d] = sock[d] /\ resp'[d] = resp[d]
    BY OthersStage
  <1>2. Known(d) \subseteq Known(d)'
    BY OthersKeep DEF Known
  <1> QED
    BY <1>1, <1>2, OthersKeep, SoundStays

\* What is under way stays known, unless a job is taken or jobs are given back.
LEMMA SentStaysKnown ==
    ASSUME TypeOK, NEW c \in Conn, Handler(c) \/ Gateway(c), \A j \in Job : ~TakeJob(c, j),
           SentIn(c, Known(c)), Known(c) \subseteq Known(c)'
    PROVE  SentIn(c, Known(c))'
  <1>1. PICK K : K = Known(c)
    OBVIOUS
  <1>2. SentIn(c, K)'
    BY <1>1, SentStays
  <1> QED
    BY <1>1, <1>2 DEF SentIn

\* A connection that starts, connects or breaks.
LEMMA LifecycleSound ==
    ASSUME TypeOK, NEW c \in Conn, Sound(c),
           Start(c) \/ RestartTimer(c) \/ HandleConnect(c) \/ HandleHandshake(c)
    PROVE  Sound(c)'
  <1>1. UNCHANGED <<batch, lastDone, resp, cache>> /\ okd' = okd
    BY DEF Start, RestartTimer, HandleConnect, HandleHandshake, Connected, Established, Broken,
           gateVars, verdicts
  <1>2. Known(c)' = Known(c)
    BY <1>1 DEF Known
  <1>3. sock'[c] # "dead"
    BY DEF Start, RestartTimer, StartConnect, HandleConnect, HandleHandshake, Connected,
           Established, Broken, TypeOK, ConnTypeOK
  <1>4. pc'[c] = pc[c] \/ pc[c] = "idle"
    BY DEF Start, RestartTimer, HandleConnect, HandleHandshake
  <1>5. \A j \in Job : ~TakeJob(c, j)
    BY <1>1 DEF Start, RestartTimer, HandleConnect, HandleHandshake, poolVars, TakeJob, GetNextJob,
                TypeOK, ConnTypeOK
  <1>6. SentIsKnown(c)'
    BY <1>1, <1>2, <1>5, SentStaysKnown DEF Handler, Sound, SentIsKnown
  <1>7. AnswerIsKnown(c)'
    BY <1>1, <1>2 DEF Sound, AnswerIsKnown
  <1> QED
    BY <1>1, <1>3, <1>4, <1>6, <1>7 DEF Sound

\* An answer is read from a connection that has nothing on its way any more, so
\* it may forget what it knew.
LEMMA ReadQuiet ==
    ASSUME TypeOK, NEW c \in Conn, Stage(c), Sound(c), HandleReadErr(c)
    PROVE  Quiet(c)' /\ batch'[c] = <<>> /\ \A K : SentIn(c, K)'
  <1>1. Quiet(c) /\ batch[c] = <<>>
    BY ReadStage DEF Hung, Sound, HandleReadErr
  <1>2. UNCHANGED <<batch, wire, lastDone>>
    BY LifecycleWrites
  <1>3. \A w \in ToSet(writes'[c]) : w.fate # "live"
    BY <1>1, LifecycleWrites, AbandonedIsDead DEF Quiet, TypeOK, ConnTypeOK
  <1>4. Quiet(c)'
    BY <1>1, <1>2, <1>3 DEF Quiet
  <1>5. ToSet(batch'[c]) = {} /\ ToSet(wire'[c]) = {}
    BY <1>1, <1>2, ToSetEmpty DEF Quiet
  <1>6. \A K : SentIn(c, K)'
    BY <1>3, <1>5 DEF SentIn
  <1> QED
    BY <1>1, <1>2, <1>4, <1>6

LEMMA ReadSound ==
    ASSUME TypeOK, NEW c \in Conn, Stage(c), Sound(c), HandleReadErr(c)
    PROVE  Sound(c)'
  <1>1. Quiet(c)' /\ batch'[c] = <<>>
    BY ReadQuiet
  <1>2. SentIsKnown(c)'
    <2>1. PICK K : K = Known(c)'
      OBVIOUS
    <2>2. SentIn(c, K)'
      BY ReadQuiet
    <2> QED
      BY <1>1, <2>1, <2>2 DEF SentIsKnown, SentIn, Quiet
  <1>3. AnswerIsKnown(c)'
    BY DEF HandleReadErr, NoResp, AnswerIsKnown, TypeOK, GateTypeOK
  <1> QED
    BY <1>1, <1>2, <1>3 DEF Sound

\* What leaves the cache at a check is reported.
LEMMA CheckSound ==
    ASSUME TypeOK, NEW c \in Conn, Sound(c), NEW k \in 0..Len(cache[c]), OnCheckCache(c, k)
    PROVE  Sound(c)'
  <1>1. cache[c] \in Seq(Job)
    BY DEF TypeOK, ConnTypeOK
  <1>2. ToSet(cache[c]) = ToSet(SubSeq(cache[c], 1, k))
                            \cup ToSet(SubSeq(cache[c], k + 1, Len(cache[c])))
    BY <1>1, Cut
  <1>3. /\ okd' = okd \cup ToSet(SubSeq(cache[c], 1, k))
        /\ cache'[c] = SubSeq(cache[c], k + 1, Len(cache[c]))
    BY DEF OnCheckCache, ReportSent, TypeOK, ConnTypeOK
  <1>4. Known(c) \subseteq Known(c)'
    BY <1>2, <1>3 DEF Known
  <1> QED
    BY <1>4, SoundStays DEF OnCheckCache, gateVars

\* A job that is taken is known at once.
LEMMA TakeSound ==
    ASSUME TypeOK, NEW c \in Conn, Sound(c), NEW j \in Job, TakeJob(c, j)
    PROVE  Sound(c)'
  <1>1. pc[c] = "take" /\ UNCHANGED <<pc, sock, writes, wire, lastDone, resp, okd>>
    BY DEF TakeJob, gateVars, verdicts
  <1>2. PICK K : K = Known(c)
    OBVIOUS
  <1>3. SentIn(c, K)
    BY <1>2 DEF Sound, SentIsKnown
  <1>4. SentIn(c, K \cup {j})' /\ ToSet(cache'[c]) = ToSet(cache[c]) \cup {j}
    BY <1>3, TakeSent
  <1>5. Known(c)' = K \cup {j}
    BY <1>1, <1>2, <1>4 DEF Known
  <1>6. SentIsKnown(c)'
    BY <1>1, <1>2, <1>4, <1>5 DEF Sound, SentIsKnown, SentIn
  <1>7. AnswerIsKnown(c)'
    BY <1>1, <1>2, <1>5 DEF Sound, AnswerIsKnown
  <1>8. sock'[c] = "dead" => Quiet(c)'
    BY <1>1 DEF Sound, Quiet
  <1> QED
    BY <1>1, <1>6, <1>7, <1>8 DEF Sound

LEMMA SendSound ==
    ASSUME TypeOK, NEW c \in Conn, Sound(c), SendBatch(c)
    PROVE  Sound(c)'
  <1>1. UNCHANGED <<cache, okd, sock, lastDone, resp>> /\ Known(c)' = Known(c)
    BY DEF SendBatch, Known, verdicts
  <1>2. SentIsKnown(c)'
    <2>1. PICK K : K = Known(c)
      OBVIOUS
    <2>2. SentIn(c, K)'
      BY <2>1, SendSent DEF Sound, SentIsKnown
    <2> QED
      BY <1>1, <2>1, <2>2 DEF Sound, SentIsKnown, SentIn
  <1>3. AnswerIsKnown(c)'
    BY <1>1 DEF Sound, AnswerIsKnown
  <1>4. CASE NothingToSend(c)
    <2>1. batch'[c] = <<>> /\ wire'[c] = wire[c] /\ writes'[c] = writes[c]
      BY <1>4 DEF NothingToSend
    <2> QED
      BY <1>1, <1>2, <1>3, <2>1 DEF Sound, Quiet
  <1>5. CASE Send(c)
    <2>1. PICK f \in FateOn(sock[c]), rest \in Seq(Job) :
            /\ ToSet(writes'[c]) = ToSet(writes[c]) \cup {[jobs |-> rest, fate |-> f]}
            /\ sock[c] # "open" => wire' = wire
            /\ batch'[c] = <<>>
      BY <1>5, SendWrites
    <2>2. sock[c] = "dead" => f = "lost"
      BY DEF FateOn
    <2>3. sock'[c] = "dead" => Quiet(c)'
      BY <1>1, <2>1, <2>2 DEF Sound, Quiet
    <2> QED
      BY <1>2, <1>3, <2>1, <2>3 DEF Sound
  <1> QED
    BY <1>4, <1>5 DEF SendBatch

\* Waiting for a job and completing a write send nothing.
LEMMA WorkSound ==
    ASSUME TypeOK, NEW c \in Conn, Sound(c),
           \/ HandleJobAvailable(c)
           \/ WaitForJob(c)
           \/ SwapHandle(c)
           \/ \E i \in DOMAIN writes[c] : HandleWrite(c, i)
    PROVE  Sound(c)'
  <1>1. UNCHANGED <<batch, cache, sock, wire, lastDone, resp, okd>>
    BY DEF HandleJobAvailable, WaitForJob, SwapHandle, HandleWrite, gateVars, verdicts
  <1>2. pc[c] # "take"
    BY DEF HandleJobAvailable, WaitForJob, SwapHandle, HandleWrite
  <1>3. ToSet(writes'[c]) \subseteq ToSet(writes[c])
    <2>1. ASSUME NEW i \in DOMAIN writes[c], HandleWrite(c, i)
          PROVE  ToSet(writes'[c]) \subseteq ToSet(writes[c])
      <3>1. writes'[c] = RemoveAt(writes[c], i) /\ writes[c] \in Seq(Write)
        BY <2>1 DEF HandleWrite, TypeOK, ConnTypeOK
      <3> QED
        BY <3>1, RemoveAtSet
    <2> QED
      BY <2>1 DEF HandleJobAvailable, WaitForJob, SwapHandle
  <1>4. Known(c)' = Known(c)
    BY <1>1 DEF Known
  <1>5. SentIsKnown(c)'
    BY <1>1, <1>3, <1>4 DEF Sound, SentIsKnown, SentIn
  <1>6. AnswerIsKnown(c)'
    BY <1>1, <1>4 DEF Sound, AnswerIsKnown
  <1>7. sock'[c] = "dead" => Quiet(c)'
    BY <1>1, <1>3 DEF Sound, Quiet
  <1> QED
    BY <1>1, <1>2, <1>5, <1>6, <1>7 DEF Sound

\* Nothing reaches or leaves the gateway on a socket that is dead.
LEMMA GatewaySound ==
    ASSUME TypeOK, NEW c \in Conn, Sound(c),
           GatewayAccept(c) \/ \E i \in DOMAIN writes[c] : Transmit(c, i)
    PROVE  Sound(c)'
  <1>1. UNCHANGED <<pc, batch, cache, sock, resp, okd>> /\ Known(c)' = Known(c)
    BY DEF GatewayAccept, Transmit, connVars, verdicts, Known
  <1>2. sock[c] # "dead"
    BY DEF GatewayAccept, Transmit, Sound, Quiet
  <1>3. lastDone'[c] \in Known(c) \cup {None}
    <2>1. CASE GatewayAccept(c)
      <3>1. lastDone'[c] = Head(wire[c]) /\ wire[c] \in Seq(Job) /\ wire[c] # <<>>
        BY <2>1 DEF GatewayAccept, TypeOK, GateTypeOK
      <3>2. Head(wire[c]) \in ToSet(wire[c])
        BY <3>1, ToSetHeadTail
      <3> QED
        BY <3>1, <3>2 DEF Sound, SentIsKnown, SentIn
    <2>2. CASE \E i \in DOMAIN writes[c] : Transmit(c, i)
      BY <2>2 DEF Transmit, Sound, SentIsKnown
    <2> QED
      BY <2>1, <2>2
  <1>4. SentIsKnown(c)'
    <2>1. PICK K : K = Known(c)
      OBVIOUS
    <2>2. SentIn(c, K)'
      BY <2>1, TransmitSent, AcceptSent DEF Sound, SentIsKnown
    <2> QED
      BY <1>1, <1>3, <2>1, <2>2 DEF SentIsKnown, SentIn
  <1>5. AnswerIsKnown(c)'
    BY <1>1 DEF Sound, AnswerIsKnown
  <1> QED
    BY <1>1, <1>2, <1>4, <1>5 DEF Sound

\* The gateway names a request it was sent, or none.
LEMMA HangupSound ==
    ASSUME TypeOK, NEW c \in Conn, Sound(c),
           GatewayReject(c) \/ GatewayShutdown(c) \/ GatewayDrop(c)
    PROVE  Sound(c)'
  <1> DEFINE Named(kind, id) ==
               /\ Hangup(c, kind, id)
               /\ kind = "reject" => id \in Known(c)
               /\ kind = "shutdown" => id \in Known(c) \cup {None}
  <1>0. PICK kind \in {"reject", "shutdown", "eof", "reset"} : \E id : Named(kind, id)
    <2>1. CASE GatewayReject(c)
      <3>1. Head(wire[c]) \in ToSet(wire[c])
        BY <2>1, ToSetHeadTail DEF GatewayReject, TypeOK, GateTypeOK
      <3>2. Hangup(c, "reject", Head(wire[c])) /\ Head(wire[c]) \in Known(c)
        BY <2>1, <3>1 DEF GatewayReject, Sound, SentIsKnown, SentIn
      <3> QED
        BY <3>2
    <2>2. CASE GatewayShutdown(c)
      <3>1. Hangup(c, "shutdown", lastDone[c]) /\ lastDone[c] \in Known(c) \cup {None}
        BY <2>2 DEF GatewayShutdown, Sound, SentIsKnown
      <3> QED
        BY <3>1
    <2>3. CASE GatewayDrop(c)
      BY <2>3 DEF GatewayDrop
    <2> QED
      BY <2>1, <2>2, <2>3
  <1>1. PICK id : Named(kind, id)
    BY <1>0
  <1>2. /\ wire'[c] = <<>>
        /\ lastDone'[c] = None
        /\ writes'[c] = Abandon(writes[c])
        /\ resp'[c] = [kind |-> IF kind = "reject" THEN "error" ELSE kind, id |-> id]
        /\ UNCHANGED <<pc, batch, cache, okd>>
    BY <1>1 DEF Hangup, verdicts, TypeOK, ConnTypeOK, GateTypeOK
  <1>3. Known(c)' = Known(c)
    BY <1>2 DEF Known
  <1>4. Quiet(c)'
    BY <1>2, AbandonedIsDead DEF Quiet, TypeOK, ConnTypeOK
  <1>5. SentIsKnown(c)'
    BY <1>2, <1>3, <1>4, ToSetEmpty DEF Sound, SentIsKnown, SentIn, Quiet
  <1>6. AnswerIsKnown(c)'
    BY <1>1, <1>2, <1>3 DEF AnswerIsKnown
  <1> QED
    BY <1>2, <1>4, <1>5, <1>6 DEF Sound

LEMMA LateStep ==
    ASSUME TypeOK, Answers, [Next]_vars, okd \subseteq okd'
    PROVE  late' \subseteq okd'
  <1>1. ASSUME NEW c \in Conn, FailLost(c, resp[c].id), resp[c].kind = "error"
        PROVE  late' \subseteq okd'
    <2>1. resp[c].id \in okd
      BY <1>1 DEF Answers, Sound, AnswerIsKnown, Known, FailLost, InCache
    <2> QED
      BY <1>1, <2>1 DEF FailLost, Answers
  <1>2. ASSUME NEW c \in Conn, HandleReadErr(c)
        PROVE  late' \subseteq okd'
    <2>1. \/ FailLost(c, resp[c].id) /\ resp[c].kind = "error"
          \/ late' = late
      BY <1>2 DEF HandleReadErr, SortCacheOnError, FailCached, SortCacheOnShutdown, ReadEof,
                  ReadFailure, verdicts
    <2> QED
      BY <1>1, <2>1 DEF Answers
  <1>3. ASSUME NEW c \in Conn, Handler(c), ~HandleReadErr(c)
        PROVE  late' = late
    BY <1>3 DEF Handler, Start, RestartTimer, HandleConnect, HandleHandshake, Connected,
                Established, Broken, OnCheckCache, HandleJobAvailable, TakeJob, SendBatch,
                WaitForJob, SwapHandle, HandleWrite, verdicts
  <1>4. CASE Client \/ (\E c \in Conn : Gateway(c)) \/ UNCHANGED vars
    BY <1>4 DEF Client, Notify, Post, Gateway, Transmit, GatewayAccept, GatewayReject,
                GatewayShutdown, GatewayDrop, Hangup, vars, verdicts, Answers
  <1> QED
    BY <1>2, <1>3, <1>4 DEF Next, Answers

LEMMA AnswersInit == Init => Answers
  BY ToSetEmpty
     DEF Init, Answers, Sound, SentIsKnown, SentIn, AnswerIsKnown, Known, NoResp

LEMMA AnswersStep == TypeOK /\ Lifecycle /\ Answers /\ [Next]_vars => Answers'
  <1> SUFFICES ASSUME TypeOK, Lifecycle, Answers, [Next]_vars
               PROVE  Answers'
    OBVIOUS
  <1>1. okd \subseteq okd'
    BY ReportsGrow
  <1>2. late' \subseteq okd'
    BY <1>1, LateStep
  <1>3. ASSUME NEW d \in Conn
        PROVE  Sound(d)'
    <2>1. Sound(d) /\ Stage(d)
      BY DEF Answers, Lifecycle
    <2>2. CASE Client \/ UNCHANGED vars
      BY <2>1, <2>2, SoundStays
         DEF Client, Notify, Post, vars, connVars, gateVars, verdicts, Known
    <2>3. ASSUME NEW c \in Conn, Handler(c) \/ Gateway(c)
          PROVE  Sound(d)'
      <3>1. CASE d # c
        BY <1>1, <2>1, <2>3, <3>1, OthersSound
      <3>2. CASE d = c
        BY <2>1, <2>3, <3>2, LifecycleSound, ReadSound, CheckSound, TakeSound, SendSound,
           WorkSound, GatewaySound, HangupSound DEF Handler, Gateway
      <3> QED
        BY <3>1, <3>2
    <2> QED
      BY <2>2, <2>3 DEF Next
  <1> QED
    BY <1>2, <1>3 DEF Answers

LEMMA AnswersHold == Spec => []Answers
  <1>1. TypeOK /\ Lifecycle /\ [Next]_vars /\ Answers => Answers'
    BY AnswersStep
  <1> QED
    BY AnswersInit, TypeCorrect, LifecycleHolds, <1>1, PTL DEF Spec

\* A request that an answer names and the cache does not hold was reported as
\* sent before: the "probably" of the comment in sort_cache_on_shutdown.
THEOREM AnswersAreKnown == Spec => []UnknownIdentWasConfirmed
  <1>1. Answers => UnknownIdentWasConfirmed
    BY DEF Answers, Sound, AnswerIsKnown, Known, UnknownIdentWasConfirmed
  <1> QED
    BY AnswersHold, <1>1, PTL

\* A failure that is reported for a request missing in the cache takes back a
\* success reported before, whatever the check time is.
THEOREM LateAlwaysConfirmed == Spec => []LateWasConfirmed
  <1>1. Answers => LateWasConfirmed
    BY DEF Answers, LateWasConfirmed
  <1> QED
    BY AnswersHold, <1>1, PTL

-----------------------------------------------------------------------------
\* A check time that is big enough.

\* What a connection has under way is in its cache, and so is the request that
\* an error names.
Kept(c) ==
    /\ SentIn(c, ToSet(cache[c]))
    /\ resp[c].kind = "error" => resp[c].id \in ToSet(cache[c])

\* A refused request was reported or is named by an answer not read yet.
Refused == \A j \in rejected : j \in failed \/ \E c \in Conn : resp[c].kind = "error" /\ resp[c].id = j

InTime == late = {} /\ Refused /\ \A c \in Conn : Kept(c)

LEMMA KeptStays ==
    ASSUME NEW c \in Conn, Kept(c), cache'[c] = cache[c], batch'[c] = batch[c],
           wire'[c] = wire[c], writes'[c] = writes[c], resp'[c] = resp[c]
    PROVE  Kept(c)'
  BY DEF Kept, SentIn

\* The checker takes nothing out of the cache that is under way or answered.
LEMMA CheckKept ==
    ASSUME TypeOK, CheckTimeBigEnough, NEW c \in Conn, Sound(c), Kept(c),
           NEW k \in 0..Len(cache[c]), OnCheckCache(c, k)
    PROVE  Kept(c)'
  <1> DEFINE front == SubSeq(cache[c], 1, k)
             back  == SubSeq(cache[c], k + 1, Len(cache[c]))
  <1>1. cache[c] \in Seq(Job) /\ Len(cache[c]) \in Nat
    BY LenProperties DEF TypeOK, ConnTypeOK
  <1>2. /\ ToSet(cache[c]) = ToSet(front) \cup ToSet(back)
        /\ ToSet(front) = {cache[c][i] : i \in 1..k}
    BY <1>1, Cut, Segment
  <1>3. /\ cache'[c] = back
        /\ UNCHANGED <<batch, wire, writes, resp>>
        /\ pc[c] = "idle"
        /\ \A i \in 1..k : Ripe(c, cache[c][i])
    BY DEF OnCheckCache, gateVars, TypeOK, ConnTypeOK
  <1> HIDE DEF front, back
  <1>4. \A j \in ToSet(front) : Ripe(c, j)
    BY <1>2, <1>3
  <1>5. ToSet(wire[c]) \subseteq ToSet(back)
    BY <1>2, <1>4 DEF Ripe, Kept, SentIn
  <1>6. \A w \in ToSet(writes[c]) : w.fate = "live" => ToSet(w.jobs) \subseteq ToSet(back)
    <2>1. ASSUME NEW j \in ToSet(front), NEW w \in ToSet(writes[c])
          PROVE  j \notin ToSet(w.jobs)
      BY <1>4 DEF Ripe, ToSet
    <2> QED
      BY <1>2, <2>1 DEF Kept, SentIn
  <1>7. ToSet(batch[c]) = {}
    BY <1>3, ToSetEmpty DEF Sound
  <1>8. resp[c].kind = "error" => resp[c].id \in ToSet(back)
    BY <1>2, <1>4 DEF Ripe, Kept
  <1> QED
    BY <1>3, <1>5, <1>6, <1>7, <1>8 DEF Kept, SentIn

LEMMA TakeKept ==
    ASSUME TypeOK, NEW c \in Conn, Kept(c), NEW j \in Job, TakeJob(c, j)
    PROVE  Kept(c)'
  <1>1. PICK K : K = ToSet(cache[c])
    OBVIOUS
  <1>2. SentIn(c, K) /\ resp' = resp
    BY <1>1 DEF Kept, TakeJob, gateVars
  <1>3. SentIn(c, K \cup {j})' /\ ToSet(cache'[c]) = ToSet(cache[c]) \cup {j}
    BY <1>2, TakeSent
  <1> QED
    BY <1>1, <1>2, <1>3 DEF Kept, SentIn

LEMMA ReadKept ==
    ASSUME TypeOK, NEW c \in Conn, Stage(c), Sound(c), HandleReadErr(c)
    PROVE  Kept(c)'
  <1>1. PICK K : K = ToSet(cache'[c])
    OBVIOUS
  <1>2. SentIn(c, K)'
    BY ReadQuiet
  <1>3. resp'[c].kind # "error"
    BY DEF HandleReadErr, NoResp, TypeOK, GateTypeOK
  <1> QED
    BY <1>1, <1>2, <1>3 DEF Kept, SentIn

\* The gateway refuses what it was sent.
LEMMA HangupKept ==
    ASSUME TypeOK, NEW c \in Conn, Kept(c),
           GatewayReject(c) \/ GatewayShutdown(c) \/ GatewayDrop(c)
    PROVE  Kept(c)'
  <1>1. ASSUME NEW kind, NEW id, Hangup(c, kind, id),
               kind \in {"reject", "shutdown", "eof", "reset"},
               kind = "reject" => id \in ToSet(cache[c])
        PROVE  Kept(c)'
    <2>1. PICK K : K = ToSet(cache[c])
      OBVIOUS
    <2>2. SentIn(c, K)'
      BY <1>1, <2>1, HangupSent DEF Kept
    <2>3. cache' = cache
      BY <1>1 DEF Hangup
    <2>4. resp'[c] = [kind |-> IF kind = "reject" THEN "error" ELSE kind, id |-> id]
      BY <1>1 DEF Hangup, TypeOK, GateTypeOK
    <2>5. resp'[c].kind = "error" => resp'[c].id \in ToSet(cache[c])
      BY <1>1, <2>4
    <2> QED
      BY <2>1, <2>2, <2>3, <2>5 DEF Kept, SentIn
  <1>2. CASE GatewayReject(c)
    <2>1. wire[c] \in Seq(Job) /\ wire[c] # <<>> /\ Hangup(c, "reject", Head(wire[c]))
      BY <1>2 DEF GatewayReject, TypeOK, GateTypeOK
    <2>2. Head(wire[c]) \in ToSet(cache[c])
      BY <2>1, ToSetHeadTail DEF Kept, SentIn
    <2> QED
      BY <1>1, <2>1, <2>2
  <1>3. CASE GatewayShutdown(c)
    BY <1>1, <1>3 DEF GatewayShutdown
  <1>4. CASE GatewayDrop(c)
    BY <1>1, <1>4 DEF GatewayDrop
  <1> QED
    BY <1>2, <1>3, <1>4

LEMMA OtherKept ==
    ASSUME TypeOK, NEW c \in Conn, Kept(c),
           \/ Start(c) \/ RestartTimer(c) \/ HandleConnect(c) \/ HandleHandshake(c)
           \/ HandleJobAvailable(c) \/ SendBatch(c) \/ WaitForJob(c) \/ SwapHandle(c)
           \/ \E i \in DOMAIN writes[c] : HandleWrite(c, i)
           \/ \E i \in DOMAIN writes[c] : Transmit(c, i)
           \/ GatewayAccept(c)
    PROVE  Kept(c)'
  <1>1. PICK K : K = ToSet(cache[c])
    OBVIOUS
  <1>2. SentIn(c, K)'
    BY <1>1, LifecycleSent, SendSent, WorkSent, TransmitSent, AcceptSent DEF Kept
  <1>3. cache' = cache /\ resp' = resp
    BY DEF Start, RestartTimer, HandleConnect, HandleHandshake, HandleJobAvailable, SendBatch,
           WaitForJob, SwapHandle, HandleWrite, Transmit, GatewayAccept, gateVars, connVars
  <1> QED
    BY <1>1, <1>2, <1>3 DEF Kept, SentIn

LEMMA KeptStep ==
    ASSUME TypeOK, CheckTimeBigEnough, Lifecycle, Answers, [Next]_vars, NEW d \in Conn, Kept(d)
    PROVE  Kept(d)'
  <1>1. Sound(d) /\ Stage(d)
    BY DEF Answers, Lifecycle
  <1>2. CASE Client \/ UNCHANGED vars
    BY <1>2, KeptStays DEF Client, Notify, Post, vars, connVars, gateVars
  <1>3. ASSUME NEW c \in Conn, Handler(c) \/ Gateway(c)
        PROVE  Kept(d)'
    <2>1. CASE d # c
      BY <1>3, <2>1, OthersKeep, OthersStage, KeptStays
    <2>2. CASE d = c
      BY <1>1, <1>3, <2>2, CheckKept, TakeKept, ReadKept, HangupKept, OtherKept
         DEF Handler, Gateway
    <2> QED
      BY <2>1, <2>2
  <1> QED
    BY <1>2, <1>3 DEF Next

\* Reading an answer reports the request it refuses, which is in the cache.
LEMMA ReadInTime ==
    ASSUME TypeOK, InTime, NEW c \in Conn, HandleReadErr(c)
    PROVE  /\ late' = {}
           /\ failed \subseteq failed'
           /\ resp[c].kind = "error" => resp[c].id \in failed'
           /\ rejected' = rejected
           /\ \A d \in Conn : d # c => resp'[d] = resp[d]
  <1>1. resp[c].kind = "error" => InCache(c, resp[c].id)
    BY DEF InTime, Kept, InCache
  <1>2. resp[c].kind = "error" => FailCached(c, resp[c].id)
    BY <1>1 DEF HandleReadErr, SortCacheOnError, FailLost
  <1>3. CASE resp[c].kind = "error"
    BY <1>2, <1>3 DEF HandleReadErr, FailCached, InTime, TypeOK, GateTypeOK
  <1>4. CASE resp[c].kind # "error"
    <2>1. late' = late /\ failed' = failed
      BY <1>4 DEF HandleReadErr, SortCacheOnShutdown, ReadEof, ReadFailure, verdicts
    <2> QED
      BY <1>4, <2>1 DEF HandleReadErr, InTime, TypeOK, GateTypeOK
  <1> QED
    BY <1>3, <1>4

LEMMA RefusedStep ==
    ASSUME TypeOK, Lifecycle, InTime, [Next]_vars
    PROVE  late' = {} /\ Refused'
  <1>1. CASE Client \/ UNCHANGED vars
    BY <1>1 DEF Client, Notify, Post, vars, connVars, gateVars, verdicts, InTime, Refused
  <1>2. ASSUME NEW c \in Conn, HandleReadErr(c)
        PROVE  late' = {} /\ Refused'
    <2>1. \A j \in rejected : j \in failed' \/ \E d \in Conn : resp'[d].kind = "error" /\ resp'[d].id = j
      BY <1>2, ReadInTime DEF InTime, Refused
    <2> QED
      BY <1>2, <2>1, ReadInTime DEF Refused
  <1>3. ASSUME NEW c \in Conn, Handler(c), ~HandleReadErr(c)
        PROVE  late' = {} /\ Refused'
    <2>1. UNCHANGED <<late, failed, rejected, resp>>
      BY <1>3 DEF Handler, Start, RestartTimer, HandleConnect, HandleHandshake, Connected,
                  Established, Broken, OnCheckCache, HandleJobAvailable, TakeJob, SendBatch,
                  WaitForJob, SwapHandle, HandleWrite, gateVars, verdicts
    <2> QED
      BY <2>1 DEF InTime, Refused
  <1>4. ASSUME NEW c \in Conn, Gateway(c)
        PROVE  late' = {} /\ Refused'
    <2>1. late' = late /\ failed' = failed
      BY <1>4 DEF Gateway, Transmit, GatewayAccept, GatewayReject, GatewayShutdown, GatewayDrop,
                  Hangup, verdicts
    <2>2. CASE GatewayAccept(c) \/ \E i \in DOMAIN writes[c] : Transmit(c, i)
      <3>1. resp' = resp /\ rejected' = rejected
        BY <2>2 DEF Transmit, GatewayAccept
      <3> QED
        BY <2>1, <3>1 DEF InTime, Refused
    <2>3. CASE GatewayReject(c) \/ GatewayShutdown(c) \/ GatewayDrop(c)
      <3>1. resp[c].kind = "none"
        BY <2>3 DEF GatewayReject, GatewayShutdown, GatewayDrop, Hangup, Lifecycle, Stage, Hung
      <3>2. \A d \in Conn : d # c => resp'[d] = resp[d]
        BY <2>3 DEF GatewayReject, GatewayShutdown, GatewayDrop, Hangup, TypeOK, GateTypeOK
      <3>3. \A j \in rejected' \ rejected : resp'[c].kind = "error" /\ resp'[c].id = j
        BY <2>3 DEF GatewayReject, GatewayShutdown, GatewayDrop, Hangup, TypeOK, GateTypeOK
      <3> QED
        BY <2>1, <3>1, <3>2, <3>3 DEF InTime, Refused
    <2> QED
      BY <1>4, <2>2, <2>3 DEF Gateway
  <1> QED
    BY <1>1, <1>2, <1>3, <1>4 DEF Next

LEMMA InTimeInit == Init => InTime
  BY ToSetEmpty DEF Init, InTime, Refused, Kept, SentIn, NoResp

LEMMA InTimeHolds ==
    ASSUME CheckTimeBigEnough
    PROVE  Spec => []InTime
  <1>1. TypeOK /\ Lifecycle /\ Answers /\ [Next]_vars /\ InTime => InTime'
    <2> SUFFICES ASSUME TypeOK, Lifecycle, Answers, [Next]_vars, InTime
                 PROVE  InTime'
      OBVIOUS
    <2>1. \A d \in Conn : Kept(d)'
      BY KeptStep DEF InTime
    <2> QED
      BY <2>1, RefusedStep DEF InTime
  <1> QED
    BY InTimeInit, TypeCorrect, LifecycleHolds, AnswersHold, <1>1, PTL DEF Spec

\* With a check time that is big enough every request the gateway names in an
\* error is still in the cache when sort_cache_on_error looks for it.
THEOREM NoFailureIsLost ==
    ASSUME CheckTimeBigEnough
    PROVE  Spec => []NoLostFailure
  <1>1. InTime => NoLostFailure
    BY DEF InTime, NoLostFailure
  <1> QED
    BY InTimeHolds, <1>1, PTL

\* With a check time that is big enough nothing the gateway refuses is reported
\* as sent: what an answer names is in a cache, and a job has one place.
THEOREM RejectedIsNeverConfirmed ==
    ASSUME CheckTimeBigEnough
    PROVE  Spec => []RejectedNeverConfirmed
  <1>1. InTime /\ JobConserved => RejectedNeverConfirmed
    BY DEF InTime, Refused, Kept, JobConserved, settled, RejectedNeverConfirmed
  <1> QED
    BY InTimeHolds, JobsConserved, <1>1, PTL

-----------------------------------------------------------------------------
\* The waiters of a connection.

Fresh(c) == [conn |-> c, role |-> "new"]
Held(c)  == [conn |-> c, role |-> "held"]

\* No two waiters are alike, and a new one only exists until its handle is
\* assigned.
OwnWaiters ==
    /\ IsInjective(waiters)
    /\ \A c \in Conn : pc[c] # "swap" => Fresh(c) \notin ToSet(waiters)

LEMMA RemoveAtInjective ==
    ASSUME NEW S, NEW s \in Seq(S), IsInjective(s), NEW i \in DOMAIN s
    PROVE  /\ RemoveAt(s, i) \in Seq(S)
           /\ IsInjective(RemoveAt(s, i))
           /\ ToSet(RemoveAt(s, i)) = ToSet(s) \ {s[i]}
  <1> DEFINE front == SubSeq(s, 1, i - 1)
             back  == SubSeq(s, i + 1, Len(s))
  <1>1. DOMAIN s = 1..Len(s) /\ Len(s) \in Nat
    BY LenProperties
  <1>2. /\ i - 1 \in Int /\ i - 1 <= Len(s)
        /\ i + 1 \in Int /\ 1 <= i + 1
    BY <1>1
  <1>3. front \in Seq(S) /\ ToSet(front) = {s[k] : k \in 1..(i - 1)} /\ IsInjective(front)
    BY <1>1, <1>2, Segment, InjectiveSegment
  <1>4. back \in Seq(S) /\ ToSet(back) = {s[k] : k \in (i + 1)..Len(s)} /\ IsInjective(back)
    BY <1>1, <1>2, Segment, InjectiveSegment
  <1> HIDE DEF front, back
  <1>5. ToSet(front) \cap ToSet(back) = {}
    <2>1. ASSUME NEW k \in 1..(i - 1), NEW l \in (i + 1)..Len(s)
          PROVE  s[k] # s[l]
      <3>1. k \in DOMAIN s /\ l \in DOMAIN s /\ k # l
        BY <1>1
      <3> QED
        BY <3>1 DEF IsInjective
    <2> QED
      BY <1>3, <1>4, <2>1
  <1>6. ToSet(front) \cup ToSet(back) = ToSet(s) \ {s[i]}
    <2>1. ToSet(s) = {s[k] : k \in DOMAIN s}
      BY DEF ToSet
    <2>2. \A k \in DOMAIN s : k = i \/ k \in 1..(i - 1) \/ k \in (i + 1)..Len(s)
      BY <1>1
    <2>3. \A k \in 1..(i - 1) : k \in DOMAIN s /\ k # i
      BY <1>1
    <2>4. \A k \in (i + 1)..Len(s) : k \in DOMAIN s /\ k # i
      BY <1>1
    <2>5. \A k \in DOMAIN s : k # i => s[k] # s[i]
      BY DEF IsInjective
    <2>6. ToSet(front) \cup ToSet(back) \subseteq ToSet(s) \ {s[i]}
      BY <1>3, <1>4, <2>1, <2>3, <2>4, <2>5
    <2>7. ToSet(s) \ {s[i]} \subseteq ToSet(front) \cup ToSet(back)
      BY <1>3, <1>4, <2>1, <2>2
    <2> QED
      BY <2>6, <2>7
  <1>7. ToSet(front \o back) = ToSet(front) \cup ToSet(back) /\ IsInjective(front \o back)
    BY <1>3, <1>4, <1>5, ToSetConcat, InjectiveConcat
  <1> QED
    BY <1>6, <1>7, RemoveAtType DEF RemoveAt, front, back

LEMMA DisconnectedSet ==
    ASSUME CondTypeOK, IsInjective(waiters), NEW c \in Conn
    PROVE  /\ Disconnected(c) \in Seq(Waiter)
           /\ IsInjective(Disconnected(c))
           /\ ToSet(Disconnected(c)) = ToSet(waiters) \ {Held(c)}
  <1>1. CASE Held(c) \in ToSet(waiters)
    <2> DEFINE i == CHOOSE i \in DOMAIN waiters : waiters[i] = Held(c)
    <2>1. i \in DOMAIN waiters /\ waiters[i] = Held(c)
      BY <1>1 DEF ToSet
    <2>2. Disconnected(c) = RemoveAt(waiters, i)
      BY <1>1 DEF Disconnected, Held
    <2> HIDE DEF i
    <2> QED
      BY <2>1, <2>2, RemoveAtInjective DEF CondTypeOK
  <1>2. CASE Held(c) \notin ToSet(waiters)
    BY <1>2 DEF Disconnected, Held, CondTypeOK
  <1> QED
    BY <1>1, <1>2

LEMMA AssignedSet ==
    ASSUME NEW ws \in Seq(Waiter), IsInjective(ws), NEW c \in Conn, Held(c) \notin ToSet(ws)
    PROVE  /\ IsInjective(Assigned(c, ws))
           /\ ToSet(Assigned(c, ws)) = {w \in ToSet(ws) : w.conn # c}
                \cup (IF Fresh(c) \in ToSet(ws) THEN {Held(c)} ELSE {})
  <1> DEFINE as == Assigned(c, ws)
  <1>1. /\ DOMAIN ws = 1..Len(ws)
        /\ \A i \in DOMAIN ws : ws[i] \in Waiter
    BY LenProperties, ElementOfSeq
  <1>2. /\ DOMAIN as = DOMAIN ws
        /\ \A i \in DOMAIN ws : ws[i].conn # c => as[i] = ws[i]
        /\ \A i \in DOMAIN ws : ws[i].conn = c => as[i] = Held(c)
    BY <1>1 DEF Assigned, Waiter, Held
  <1>3. \A i \in DOMAIN ws : ws[i].conn = c => ws[i] = Fresh(c)
    BY <1>1 DEF Waiter, Held, Fresh, ToSet
  <1>4. Fresh(c).conn = c /\ Held(c).conn = c
    BY DEF Fresh, Held
  <1> HIDE DEF as
  <1>5. IsInjective(as)
    BY <1>2, <1>3, <1>4 DEF IsInjective
  <1>6. ToSet(as) = {w \in ToSet(ws) : w.conn # c}
                      \cup (IF Fresh(c) \in ToSet(ws) THEN {Held(c)} ELSE {})
    <2>1. ToSet(ws) = {ws[i] : i \in DOMAIN ws} /\ ToSet(as) = {as[i] : i \in DOMAIN ws}
      BY <1>2 DEF ToSet
    <2>2. ASSUME NEW w \in ToSet(as)
          PROVE  \/ w \in ToSet(ws) /\ w.conn # c
                 \/ w = Held(c) /\ Fresh(c) \in ToSet(ws)
      BY <1>2, <1>3, <2>1
    <2>3. ASSUME NEW w \in ToSet(ws), w.conn # c
          PROVE  w \in ToSet(as)
      BY <1>2, <2>1, <2>3
    <2>4. Fresh(c) \in ToSet(ws) => Held(c) \in ToSet(as)
      BY <1>2, <1>4, <2>1
    <2> QED
      BY <2>2, <2>3, <2>4
  <1> QED
    BY <1>5, <1>6 DEF as

\* What the assignment of a handle leaves of the waiters.
LEMMA SwapSet ==
    ASSUME TypeOK, IsInjective(waiters), NEW c \in Conn, SwapHandle(c)
    PROVE  /\ IsInjective(waiters')
           /\ ToSet(waiters') = {w \in ToSet(waiters) : w.conn # c}
                \cup (IF Fresh(c) \in ToSet(waiters) THEN {Held(c)} ELSE {})
  <1>1. waiters' = Assigned(c, Disconnected(c))
    BY DEF SwapHandle, AssignHandle
  <1>2. /\ Disconnected(c) \in Seq(Waiter)
        /\ IsInjective(Disconnected(c))
        /\ ToSet(Disconnected(c)) = ToSet(waiters) \ {Held(c)}
    BY DisconnectedSet DEF TypeOK, PoolTypeOK
  <1>3. PICK ws : ws = Disconnected(c)
    OBVIOUS
  <1>4. /\ IsInjective(Assigned(c, ws))
        /\ ToSet(Assigned(c, ws)) = {w \in ToSet(ws) : w.conn # c}
             \cup (IF Fresh(c) \in ToSet(ws) THEN {Held(c)} ELSE {})
    BY <1>2, <1>3, AssignedSet
  <1>5. Held(c).conn = c /\ Fresh(c) # Held(c)
    BY DEF Held, Fresh
  <1>6. /\ {w \in ToSet(ws) : w.conn # c} = {w \in ToSet(waiters) : w.conn # c}
        /\ Fresh(c) \in ToSet(ws) <=> Fresh(c) \in ToSet(waiters)
    BY <1>2, <1>3, <1>5
  <1> QED
    BY <1>1, <1>3, <1>4, <1>6

LEMMA WaitSet ==
    ASSUME TypeOK, OwnWaiters, NEW c \in Conn, WaitForJob(c)
    PROVE  IsInjective(waiters') /\ ToSet(waiters') = ToSet(waiters) \cup {Fresh(c)}
  <1>1. waiters' = Append(waiters, Fresh(c)) /\ waiters \in Seq(Waiter) /\ Fresh(c) \in Waiter
    BY DEF WaitForJob, AsyncWait, Fresh, Waiter, TypeOK, PoolTypeOK, CondTypeOK
  <1>2. Fresh(c) \notin ToSet(waiters)
    BY DEF OwnWaiters, WaitForJob
  <1> QED
    BY <1>1, <1>2, ToSetAppend, InjectiveAppend DEF OwnWaiters

\* A notification runs or is on its way to each connection whose waiter is gone.
LEMMA NotifySet ==
    ASSUME CondTypeOK, IsInjective(waiters), NotifyOne \/ NotifyAll
    PROVE  /\ IsInjective(waiters')
           /\ ToSet(waiters') \subseteq ToSet(waiters)
           /\ \A w \in ToSet(waiters) : w \in ToSet(waiters') \/ wake'[w.conn] > 0
           /\ \A c \in Conn : wake[c] > 0 => wake'[c] > 0
  <1>1. CASE NotifyOne /\ waiters = <<>>
    BY <1>1 DEF NotifyOne, condVars
  <1>2. CASE NotifyOne /\ waiters # <<>>
    <2>1. /\ waiters' = Tail(waiters)
          /\ wake' = [wake EXCEPT ![Head(waiters).conn] = @ + 1]
          /\ waiters \in Seq(Waiter)
          /\ wake \in [Conn -> Nat]
      BY <1>2 DEF NotifyOne, CondTypeOK
    <2>2. /\ ToSet(waiters) = {Head(waiters)} \cup ToSet(waiters')
          /\ IsInjective(waiters')
          /\ Head(waiters) \in Waiter
      BY <1>2, <2>1, ToSetHeadTail, InjectiveTail, HeadTailProperties
    <2>3. Head(waiters).conn \in Conn
      BY <2>2 DEF Waiter
    <2>4. wake'[Head(waiters).conn] > 0 /\ \A c \in Conn : wake[c] > 0 => wake'[c] > 0
      BY <2>1, <2>3
    <2> QED
      BY <2>2, <2>4
  <1>3. CASE NotifyAll
    <2> DEFINE mine(c) == {i \in DOMAIN waiters : waiters[i].conn = c}
    <2>1. /\ waiters' = <<>>
          /\ \A c \in Conn : wake'[c] = wake[c] + Cardinality(mine(c))
      BY <1>3 DEF NotifyAll
    <2>2. DOMAIN waiters = 1..Len(waiters) /\ Len(waiters) \in Nat
      BY LenProperties DEF CondTypeOK
    <2>3. \A c \in Conn : IsFiniteSet(mine(c)) /\ Cardinality(mine(c)) \in Nat
      <3>1. ASSUME NEW c \in Conn
            PROVE  IsFiniteSet(mine(c)) /\ Cardinality(mine(c)) \in Nat
        <4>1. mine(c) \in SUBSET (1..Len(waiters)) /\ IsFiniteSet(1..Len(waiters))
          BY <2>2, FS_Interval
        <4>2. IsFiniteSet(mine(c))
          BY <4>1, FS_Subset
        <4> QED
          BY <4>2, FS_CardinalityType
      <3> QED
        BY <3>1
    <2>4. ASSUME NEW w \in ToSet(waiters)
          PROVE  wake'[w.conn] > 0
      <3>1. PICK i \in DOMAIN waiters : waiters[i] = w
        BY DEF ToSet
      <3>2. w.conn \in Conn
        <4>1. waiters \in Seq(Waiter) /\ i \in 1..Len(waiters)
          BY <2>2 DEF CondTypeOK
        <4>2. w \in Waiter
          BY <3>1, <4>1, ElementOfSeq
        <4> QED
          BY <4>2 DEF Waiter
      <3>3. mine(w.conn) # {}
        BY <3>1
      <3>4. Cardinality(mine(w.conn)) # 0
        BY <2>3, <3>2, <3>3, FS_EmptySet
      <3>5. wake[w.conn] \in Nat /\ Cardinality(mine(w.conn)) \in Nat
        BY <2>3, <3>2 DEF CondTypeOK
      <3> HIDE DEF mine
      <3> QED
        BY <2>1, <3>2, <3>4, <3>5
    <2>5. ASSUME NEW c \in Conn, wake[c] > 0
          PROVE  wake'[c] > 0
      <3>1. wake[c] \in Nat /\ Cardinality(mine(c)) \in Nat
        BY <2>3 DEF CondTypeOK
      <3> HIDE DEF mine
      <3> QED
        BY <2>1, <2>5, <3>1
    <2>6. IsInjective(waiters') /\ ToSet(waiters') = {}
      BY <2>1, ToSetEmpty DEF IsInjective
    <2> QED
      BY <2>4, <2>5, <2>6
  <1> QED
    BY <1>1, <1>2, <1>3

\* A step that changes the list of waiters registers one, assigns a handle or
\* notifies.
LEMMA WaiterMoves ==
    ASSUME TypeOK, [Next]_vars
    PROVE  \/ \E c \in Conn : WaitForJob(c) \/ SwapHandle(c)
           \/ NotifyOne \/ NotifyAll
           \/ waiters' = waiters
  <1>1. ASSUME NEW c \in Conn, HandleReadErr(c)
        PROVE  NotifyAll \/ waiters' = waiters
    BY <1>1 DEF HandleReadErr, SortCacheOnError, FailCached, FailLost, SortCacheOnShutdown,
                ReturnRest, ReturnAll, PostRange, ReadEof, ReadFailure, condVars
  <1>2. ASSUME NEW c \in Conn, Handler(c), ~HandleReadErr(c), ~WaitForJob(c), ~SwapHandle(c)
        PROVE  waiters' = waiters
    BY <1>2 DEF Handler, Start, RestartTimer, HandleConnect, HandleHandshake, OnCheckCache,
                HandleJobAvailable, Woken, TakeJob, SendBatch, HandleWrite, condVars
  <1>3. ASSUME NEW c \in Conn, Gateway(c)
        PROVE  waiters' = waiters
    BY <1>3 DEF Gateway, Transmit, GatewayAccept, GatewayReject, GatewayShutdown, GatewayDrop,
                Hangup, condVars
  <1>4. CASE Client \/ UNCHANGED vars
    BY <1>4 DEF Client, Notify, PostNotify, Post, PostPush, vars, condVars
  <1> QED
    BY <1>1, <1>2, <1>3, <1>4 DEF Next

\* A connection only leaves the middle of wait_for_job by assigning the handle.
LEMMA SwapEnds ==
    ASSUME TypeOK, [Next]_vars, NEW d \in Conn, pc[d] = "swap", ~SwapHandle(d)
    PROVE  pc'[d] = "swap"
  <1>1. CASE Client \/ UNCHANGED vars
    BY <1>1 DEF Client, Notify, Post, vars, connVars
  <1>2. ASSUME NEW c \in Conn, Handler(c) \/ Gateway(c), c # d
        PROVE  pc'[d] = "swap"
    BY <1>2, OthersKeep
  <1>3. CASE Handler(d)
    BY <1>3 DEF Handler, Start, RestartTimer, HandleConnect, HandleHandshake, HandleReadErr,
                OnCheckCache, HandleJobAvailable, TakeJob, SendBatch, WaitForJob, HandleWrite
  <1>4. CASE Gateway(d)
    BY <1>4 DEF Gateway, Transmit, GatewayAccept, GatewayReject, GatewayShutdown, GatewayDrop,
                Hangup, connVars
  <1> QED
    BY <1>1, <1>2, <1>3, <1>4 DEF Next

LEMMA OwnWaitersStep == TypeOK /\ OwnWaiters /\ [Next]_vars => OwnWaiters'
  <1> SUFFICES ASSUME TypeOK, OwnWaiters, [Next]_vars
               PROVE  OwnWaiters'
    OBVIOUS
  <1>0. \A c, d \in Conn : Fresh(c).conn = c /\ Fresh(c) # Held(d)
    BY DEF Fresh, Held
  <1>1. ASSUME NEW c \in Conn, WaitForJob(c)
        PROVE  OwnWaiters'
    <2>1. IsInjective(waiters') /\ ToSet(waiters') = ToSet(waiters) \cup {Fresh(c)}
      BY <1>1, WaitSet
    <2>2. pc' = [pc EXCEPT ![c] = "swap"] /\ pc'[c] = "swap"
      BY <1>1 DEF WaitForJob, TypeOK, ConnTypeOK
    <2>3. ASSUME NEW d \in Conn, pc'[d] # "swap"
          PROVE  Fresh(d) \notin ToSet(waiters')
      <3>1. d # c /\ pc[d] # "swap"
        BY <2>2, <2>3 DEF TypeOK, ConnTypeOK
      <3>2. Fresh(d) # Fresh(c)
        BY <1>0, <3>1
      <3> QED
        BY <2>1, <3>1, <3>2 DEF OwnWaiters
    <2> QED
      BY <2>1, <2>3 DEF OwnWaiters, Fresh
  <1>2. ASSUME NEW c \in Conn, SwapHandle(c)
        PROVE  OwnWaiters'
    <2>1. /\ IsInjective(waiters')
          /\ ToSet(waiters') = {w \in ToSet(waiters) : w.conn # c}
               \cup (IF Fresh(c) \in ToSet(waiters) THEN {Held(c)} ELSE {})
      BY <1>2, SwapSet DEF OwnWaiters
    <2>2. pc' = [pc EXCEPT ![c] = "idle"]
      BY <1>2 DEF SwapHandle
    <2>3. ASSUME NEW d \in Conn, pc'[d] # "swap"
          PROVE  Fresh(d) \notin ToSet(waiters')
      <3>1. d = c \/ Fresh(d) \notin ToSet(waiters)
        BY <2>2, <2>3 DEF OwnWaiters, TypeOK, ConnTypeOK
      <3> QED
        BY <1>0, <2>1, <3>1
    <2> QED
      BY <2>1, <2>3 DEF OwnWaiters, Fresh
  <1>3. CASE /\ NotifyOne \/ NotifyAll \/ waiters' = waiters
             /\ \A c \in Conn : ~SwapHandle(c)
    <2>1. IsInjective(waiters') /\ ToSet(waiters') \subseteq ToSet(waiters)
      <3>1. CASE NotifyOne \/ NotifyAll
        BY <3>1, NotifySet DEF OwnWaiters, TypeOK, PoolTypeOK
      <3>2. CASE waiters' = waiters
        BY <3>2 DEF OwnWaiters
      <3> QED
        BY <1>3, <3>1, <3>2
    <2>2. \A d \in Conn : pc'[d] # "swap" => pc[d] # "swap"
      BY <1>3, SwapEnds
    <2> QED
      BY <2>1, <2>2 DEF OwnWaiters, Fresh
  <1> QED
    BY <1>1, <1>2, <1>3, WaiterMoves

LEMMA OwnWaitersHold == Spec => []OwnWaiters
  <1>1. Init => OwnWaiters
    BY ToSetEmpty DEF Init, PoolInit, CondInit, OwnWaiters, IsInjective
  <1>2. TypeOK /\ [Next]_vars /\ OwnWaiters => OwnWaiters'
    BY OwnWaitersStep
  <1> QED
    BY <1>1, <1>2, TypeCorrect, PTL DEF Spec

\* However often a connection is restarted, and whoever notifies it meanwhile,
\* at most one waiter of it is registered between two of its handlers.
THEOREM WaiterStaysSingle == Spec => []SingleWaiter
  <1>1. TypeOK /\ OwnWaiters => SingleWaiter
    <2> SUFFICES ASSUME TypeOK, OwnWaiters, NEW c \in Conn, pc[c] # "swap"
                 PROVE  Cardinality({i \in DOMAIN waiters : waiters[i].conn = c}) <= 1
      BY DEF SingleWaiter
    <2> DEFINE mine == {i \in DOMAIN waiters : waiters[i].conn = c}
    <2>1. \A i \in mine : waiters[i] = Held(c)
      <3>1. ASSUME NEW i \in mine
            PROVE  waiters[i] = Held(c)
        <4>1. waiters \in Seq(Waiter) /\ i \in 1..Len(waiters)
          BY LenProperties DEF TypeOK, PoolTypeOK, CondTypeOK
        <4>2. waiters[i] \in Waiter /\ waiters[i] \in ToSet(waiters)
          BY <4>1, ElementOfSeq DEF ToSet
        <4>3. waiters[i] # Fresh(c)
          BY <4>2 DEF OwnWaiters
        <4> QED
          BY <4>2, <4>3 DEF Waiter, Held, Fresh
      <3> QED
        BY <3>1
    <2>2. \A i, k \in mine : i = k
      BY <2>1 DEF OwnWaiters, IsInjective
    <2>3. CASE mine = {}
      <3>1. Cardinality(mine) = 0
        BY <2>3, FS_EmptySet
      <3> QED
        BY <3>1
    <2>4. CASE mine # {}
      <3>1. PICK i \in mine : mine = {i}
        BY <2>2, <2>4
      <3>2. Cardinality(mine) = 1
        BY <3>1, FS_Singleton
      <3> QED
        BY <3>2
    <2> QED
      BY <2>3, <2>4
  <1> QED
    BY <1>1, TypeCorrect, OwnWaitersHold, PTL

-----------------------------------------------------------------------------
\* An established connection hears of new jobs.

\* Someone will run a handler of c that looks into the queue.
Registered(c) == wake[c] > 0 \/ \E w \in ToSet(waiters) : w.conn = c
Working(c)    == pc[c] # "idle" \/ \E w \in ToSet(writes[c]) : w.fate = "live"

\* In the middle of wait_for_job the connection relies on the new waiter, as the
\* old one is about to go.
Hears(c) ==
    /\ sock[c] = "open" => Working(c) \/ Registered(c)
    /\ pc[c] = "swap" => wake[c] > 0 \/ Fresh(c) \in ToSet(waiters)

\* A waiter of d that is gone was notified, unless d has assigned its handle;
\* a notification stays until d runs it.
LEMMA WaiterStays ==
    ASSUME TypeOK, OwnWaiters, [Next]_vars, NEW d \in Conn, ~SwapHandle(d)
    PROVE  \A w \in ToSet(waiters) : w.conn = d => w \in ToSet(waiters') \/ wake'[d] > 0
  <1>1. ASSUME NEW c \in Conn, WaitForJob(c)
        PROVE  ToSet(waiters) \subseteq ToSet(waiters')
    BY <1>1, WaitSet
  <1>2. ASSUME NEW c \in Conn, SwapHandle(c), NEW w \in ToSet(waiters), w.conn = d
        PROVE  w \in ToSet(waiters')
    <2>1. ToSet(waiters') = {v \in ToSet(waiters) : v.conn # c}
            \cup (IF Fresh(c) \in ToSet(waiters) THEN {Held(c)} ELSE {})
      BY <1>2, SwapSet DEF OwnWaiters
    <2> QED
      BY <1>2, <2>1
  <1>3. CASE NotifyOne \/ NotifyAll
    BY <1>3, NotifySet DEF OwnWaiters, TypeOK, PoolTypeOK
  <1>4. CASE waiters' = waiters
    BY <1>4
  <1> QED
    BY <1>1, <1>2, <1>3, <1>4, WaiterMoves

LEMMA WakeStays ==
    ASSUME TypeOK, OwnWaiters, [Next]_vars, NEW d \in Conn, ~HandleJobAvailable(d), wake[d] > 0
    PROVE  wake'[d] > 0
  <1>1. CASE NotifyOne \/ NotifyAll
    BY <1>1, NotifySet DEF OwnWaiters, TypeOK, PoolTypeOK
  <1>2. ASSUME NEW c \in Conn, HandleJobAvailable(c)
        PROVE  wake'[d] > 0
    <2>1. c # d
      BY <1>2
    <2> QED
      BY <1>2, <2>1 DEF HandleJobAvailable, Woken, TypeOK, PoolTypeOK, CondTypeOK
  <1>3. ASSUME NEW c \in Conn, HandleReadErr(c)
        PROVE  NotifyAll \/ wake' = wake
    BY <1>3 DEF HandleReadErr, SortCacheOnError, FailCached, FailLost, SortCacheOnShutdown,
                ReturnRest, ReturnAll, PostRange, ReadEof, ReadFailure, condVars
  <1>4. ASSUME NEW c \in Conn, Handler(c), ~HandleReadErr(c), ~HandleJobAvailable(c)
        PROVE  wake' = wake
    BY <1>4 DEF Handler, Start, RestartTimer, HandleConnect, HandleHandshake, OnCheckCache,
                TakeJob, SendBatch, WaitForJob, AsyncWait, SwapHandle, AssignHandle, HandleWrite,
                condVars
  <1>5. ASSUME NEW c \in Conn, Gateway(c)
        PROVE  wake' = wake
    BY <1>5 DEF Gateway, Transmit, GatewayAccept, GatewayReject, GatewayShutdown, GatewayDrop,
                Hangup, condVars
  <1>6. CASE Client \/ UNCHANGED vars
    <2>1. NotifyOne \/ wake' = wake
      BY <1>6 DEF Client, Notify, PostNotify, Post, PostPush, vars, condVars
    <2> QED
      BY <1>1, <2>1
  <1> QED
    BY <1>1, <1>2, <1>3, <1>4, <1>5, <1>6 DEF Next

\* The new waiter carries the connection through the assignment of its handle.
LEMMA SwapHears ==
    ASSUME TypeOK, OwnWaiters, [Next]_vars, NEW d \in Conn, Hears(d), SwapHandle(d)
    PROVE  Hears(d)'
  <1>1. pc[d] = "swap" /\ pc'[d] = "idle"
    BY DEF SwapHandle, TypeOK, ConnTypeOK
  <1>2. wake[d] > 0 \/ Fresh(d) \in ToSet(waiters)
    BY <1>1 DEF Hears
  <1>3. wake[d] > 0 => wake'[d] > 0
    BY <1>1, WakeStays DEF HandleJobAvailable
  <1>4. Fresh(d) \in ToSet(waiters) => Held(d) \in ToSet(waiters')
    BY SwapSet DEF OwnWaiters
  <1>5. Registered(d)'
    BY <1>2, <1>3, <1>4 DEF Registered, Held
  <1> QED
    BY <1>1, <1>5 DEF Hears

LEMMA RegisteredStays ==
    ASSUME TypeOK, OwnWaiters, [Next]_vars, NEW d \in Conn, ~SwapHandle(d), ~HandleJobAvailable(d)
    PROVE  /\ Registered(d) => Registered(d)'
           /\ wake[d] > 0 \/ Fresh(d) \in ToSet(waiters)
                => wake'[d] > 0 \/ Fresh(d) \in ToSet(waiters')
  <1>1. Fresh(d).conn = d
    BY DEF Fresh
  <1> QED
    BY <1>1, WaiterStays, WakeStays DEF Registered

\* A connection that stays as it is, apart from its waiters.
LEMMA HearsStays ==
    ASSUME TypeOK, OwnWaiters, [Next]_vars, NEW d \in Conn, Hears(d),
           ~SwapHandle(d), ~HandleJobAvailable(d),
           sock'[d] = "open" => sock[d] = "open",
           sock'[d] = "open" /\ Working(d) => Working(d)',
           pc'[d] = "swap" => pc[d] = "swap"
    PROVE  Hears(d)'
  <1>1. sock'[d] = "open" => Working(d)' \/ Registered(d)'
    BY RegisteredStays DEF Hears
  <1>2. pc'[d] = "swap" => wake'[d] > 0 \/ Fresh(d) \in ToSet(waiters')
    BY RegisteredStays DEF Hears
  <1> QED
    BY <1>1, <1>2 DEF Hears, Fresh

\* Steps of the connection itself.
LEMMA OwnStepHears ==
    ASSUME TypeOK, Lifecycle, OwnWaiters, [Next]_vars, NEW d \in Conn, Hears(d),
           Handler(d) \/ Gateway(d)
    PROVE  Hears(d)'
  <1>1. CASE \/ Start(d) \/ RestartTimer(d) \/ HandleConnect(d)
             \/ GatewayReject(d) \/ GatewayShutdown(d) \/ GatewayDrop(d)
    <2>1. sock'[d] # "open" /\ pc' = pc
      BY <1>1 DEF Start, RestartTimer, StartConnect, HandleConnect, Connected, Broken, GatewayReject,
                  GatewayShutdown, GatewayDrop, Hangup, TypeOK, ConnTypeOK
    <2>2. ~SwapHandle(d) /\ ~HandleJobAvailable(d)
      BY <2>1 DEF SwapHandle, HandleJobAvailable, TypeOK, ConnTypeOK
    <2> QED
      BY <2>1, <2>2, HearsStays
  <1>2. CASE HandleHandshake(d)
    <2>1. pc'[d] # "swap" /\ (sock'[d] = "open" => pc'[d] = "wait")
      BY <1>2 DEF HandleHandshake, Established, Broken, TypeOK, ConnTypeOK
    <2> QED
      BY <2>1 DEF Hears, Working
  <1>3. CASE HandleReadErr(d)
    <2>1. Hung(d) /\ pc'[d] = "idle"
      BY <1>3, ReadStage DEF Lifecycle, HandleReadErr
    <2>2. sock'[d] # "open"
      <3>1. Reconnect(d) \/ GiveUp(d)
        BY <1>3 DEF HandleReadErr, SortCacheOnError, FailCached, FailLost, SortCacheOnShutdown,
                    ReadEof, ReadFailure
      <3> QED
        BY <2>1, <3>1 DEF Hung, Reconnect, GiveUp, StartConnect, TypeOK, ConnTypeOK
    <2> QED
      BY <2>1, <2>2 DEF Hears
  <1>4. CASE \/ HandleJobAvailable(d)
             \/ \E j \in Job : TakeJob(d, j)
    <2>1. pc'[d] = "take"
      BY <1>4 DEF HandleJobAvailable, TakeJob, TypeOK, ConnTypeOK
    <2> QED
      BY <2>1 DEF Hears, Working
  <1>5. CASE WaitForJob(d)
    <2>1. pc'[d] = "swap"
      BY <1>5 DEF WaitForJob, TypeOK, ConnTypeOK
    <2>2. Fresh(d) \in ToSet(waiters')
      BY <1>5, WaitSet
    <2> QED
      BY <2>1, <2>2 DEF Hears, Working, Fresh
  <1>6. CASE SwapHandle(d)
    BY <1>6, SwapHears
  <1>7. CASE SendBatch(d)
    <2>1. CASE NothingToSend(d)
      <3>1. pc'[d] = "wait"
        BY <2>1 DEF NothingToSend, TypeOK, ConnTypeOK
      <3> QED
        BY <3>1 DEF Hears, Working
    <2>2. CASE Send(d)
      <3>1. pc'[d] = "idle" /\ sock' = sock
        BY <1>7, <2>2 DEF SendBatch, Send, TypeOK, ConnTypeOK
      <3>2. PICK f \in FateOn(sock[d]), rest \in Seq(Job) :
              ToSet(writes'[d]) = ToSet(writes[d]) \cup {[jobs |-> rest, fate |-> f]}
        BY <2>2, SendWrites
      <3>3. sock[d] = "open" => f = "live"
        BY DEF FateOn
      <3>4. sock[d] = "open" => \E w \in ToSet(writes'[d]) : w.fate = "live"
        <4>1. [jobs |-> rest, fate |-> f].fate = f
          OBVIOUS
        <4>2. [jobs |-> rest, fate |-> f] \in ToSet(writes'[d])
          BY <3>2
        <4> QED
          BY <3>3, <4>1, <4>2
      <3>5. sock'[d] = "open" => Working(d)'
        BY <3>1, <3>4 DEF Working
      <3> QED
        BY <3>1, <3>5 DEF Hears
    <2> QED
      BY <1>7, <2>1, <2>2 DEF SendBatch
  <1>8. CASE (\E k \in 0..Len(cache[d]) : OnCheckCache(d, k)) \/ GatewayAccept(d)
    <2>1. UNCHANGED <<pc, sock, writes>> /\ ~SwapHandle(d) /\ ~HandleJobAvailable(d)
      BY <1>8 DEF OnCheckCache, GatewayAccept, connVars, SwapHandle, HandleJobAvailable, TypeOK,
                  ConnTypeOK
    <2> QED
      BY <2>1, HearsStays DEF Working
  <1>9. ASSUME NEW i \in DOMAIN writes[d], HandleWrite(d, i)
        PROVE  Hears(d)'
    <2>1. CASE pc'[d] = "take"
      BY <2>1 DEF Hears, Working
    <2>2. CASE pc'[d] # "take"
      <3>1. writes[d][i].fate # "live" /\ pc' = pc /\ pc[d] = "idle" /\ sock' = sock
        BY <1>9, <2>2 DEF HandleWrite, GetNext, TypeOK, ConnTypeOK
      <3>2. writes'[d] = RemoveAt(writes[d], i) /\ writes[d] \in Seq(Write)
        BY <1>9 DEF HandleWrite, TypeOK, ConnTypeOK
      <3>3. ToSet(writes[d]) \subseteq ToSet(writes'[d]) \cup {writes[d][i]}
        BY <3>2, RemoveAtRest
      <3>4. Working(d) => Working(d)'
        BY <3>1, <3>3 DEF Working
      <3>5. ~SwapHandle(d) /\ ~HandleJobAvailable(d)
        BY <3>1 DEF SwapHandle, HandleJobAvailable, TypeOK, ConnTypeOK
      <3> QED
        BY <3>1, <3>4, <3>5, HearsStays
    <2> QED
      BY <2>1, <2>2
  <1>10. ASSUME NEW i \in DOMAIN writes[d], Transmit(d, i)
         PROVE  Hears(d)'
    <2> DEFINE new == [writes[d][i] EXCEPT !.jobs = Tail(@)]
    <2>1. writes'[d] = [writes[d] EXCEPT ![i] = new] /\ writes[d] \in Seq(Write)
      BY <1>10 DEF Transmit, TypeOK, ConnTypeOK
    <2>2. writes[d][i] \in Write /\ writes[d][i].fate = "live"
      BY <1>10, <2>1, ElementOfSeq, LenProperties DEF Transmit
    <2>3. new.fate = "live"
      BY <2>2 DEF Write
    <2> HIDE DEF new
    <2>4. new \in ToSet(writes'[d])
      BY <2>1 DEF ToSet
    <2>5. Working(d)' /\ pc' = pc
      BY <1>10, <2>3, <2>4 DEF Working, Transmit
    <2>6. sock' = sock /\ ~SwapHandle(d) /\ ~HandleJobAvailable(d)
      BY <1>10, <2>5 DEF Transmit, SwapHandle, HandleJobAvailable, TypeOK, ConnTypeOK
    <2> QED
      BY <2>5, <2>6, HearsStays
  <1> QED
    BY <1>1, <1>2, <1>3, <1>4, <1>5, <1>6, <1>7, <1>8, <1>9, <1>10 DEF Handler, Gateway

LEMMA HearsStep ==
    ASSUME TypeOK, Lifecycle, OwnWaiters, [Next]_vars, NEW d \in Conn, Hears(d)
    PROVE  Hears(d)'
  <1>1. CASE Client \/ UNCHANGED vars
    <2>1. UNCHANGED <<pc, sock, writes>>
      BY <1>1 DEF Client, Notify, Post, vars, connVars
    <2>2. ~SwapHandle(d) /\ ~HandleJobAvailable(d)
      BY <2>1 DEF SwapHandle, HandleJobAvailable, TypeOK, ConnTypeOK
    <2> QED
      BY <2>1, <2>2, HearsStays DEF Working
  <1>2. ASSUME NEW c \in Conn, Handler(c) \/ Gateway(c), c # d
        PROVE  Hears(d)'
    <2>1. pc'[d] = pc[d] /\ sock'[d] = sock[d] /\ writes'[d] = writes[d]
      BY <1>2, OthersKeep, OthersStage
    <2>2. ~SwapHandle(d) /\ ~HandleJobAvailable(d)
      BY <2>1 DEF SwapHandle, HandleJobAvailable, TypeOK, ConnTypeOK
    <2> QED
      BY <2>1, <2>2, HearsStays DEF Working
  <1> QED
    BY <1>1, <1>2, OwnStepHears DEF Next

LEMMA HearsHolds == Spec => [](\A c \in Conn : Hears(c))
  <1>1. Init => \A c \in Conn : Hears(c)
    BY DEF Init, Hears
  <1>2. TypeOK /\ Lifecycle /\ OwnWaiters /\ [Next]_vars /\ (\A c \in Conn : Hears(c))
          => (\A c \in Conn : Hears(c))'
    BY HearsStep
  <1> QED
    BY <1>1, <1>2, TypeCorrect, LifecycleHolds, OwnWaitersHold, PTL DEF Spec

\* An established connection always has a way to learn of a new job, whatever
\* restarts, notifications and completions of old writes have come before.
THEOREM ConnectionNeverDeaf == Spec => []NoDeafConnection
  <1>1. (\A c \in Conn : Hears(c)) => NoDeafConnection
    BY DEF Hears, Working, Registered, NoDeafConnection, ToSet
  <1> QED
    BY <1>1, HearsHolds, PTL
=============================================================================
