-------------------------- MODULE ApnsOrderProofs ---------------------------
(***************************************************************************)
(* Order between the cache of a connection and what the gateway accepts,   *)
(* for every value of the constants: around one failure everything before  *)
(* the request an answer names was accepted, and no request is accepted    *)
(* twice.                                                                  *)
(***************************************************************************)
EXTENDS ApnsProofs

-----------------------------------------------------------------------------
\* The order of a cache, of what is on its way and of what was accepted.

\* What is accepted (A) of the cache (s) comes before what is not; the latter
\* is on its way (l), in the same order.
InOrder(s, l, A) ==
    /\ \A i, k \in DOMAIN s : i < k /\ s[k] \in A => s[i] \in A
    /\ \A i \in DOMAIN s : s[i] \in A \/ s[i] \in ToSet(l)
    /\ \A a, b \in DOMAIN l, i, k \in DOMAIN s :
          a < b /\ s[i] = l[a] /\ s[k] = l[b] => i < k

LEMMA OrderTake ==
    ASSUME NEW s \in Seq(Job), NEW l \in Seq(Job), NEW A, InOrder(s, l, A),
           NEW j \in Job, j \notin ToSet(s), j \notin ToSet(l), j \notin A
    PROVE  InOrder(Append(s, j), Append(l, j), A)
  <1> DEFINE t == Append(s, j)
             m == Append(l, j)
  <1>1. /\ Len(s) \in Nat /\ DOMAIN s = 1..Len(s)
        /\ DOMAIN t = 1..(Len(s) + 1)
        /\ \A i \in 1..Len(s) : t[i] = s[i]
        /\ t[Len(s) + 1] = j
    BY LenProperties, AppendProperties
  <1>2. /\ Len(l) \in Nat /\ DOMAIN l = 1..Len(l)
        /\ DOMAIN m = 1..(Len(l) + 1)
        /\ \A i \in 1..Len(l) : m[i] = l[i]
        /\ m[Len(l) + 1] = j
    BY LenProperties, AppendProperties
  <1>3. ToSet(m) = ToSet(l) \cup {j}
    BY ToSetAppend
  <1> HIDE DEF t, m
  <1>4. \A i \in DOMAIN t : t[i] = j <=> i = Len(s) + 1
    BY <1>1 DEF ToSet
  <1>5. \A a \in DOMAIN m : m[a] = j <=> a = Len(l) + 1
    BY <1>2 DEF ToSet
  <1>6. ASSUME NEW i \in DOMAIN t, NEW k \in DOMAIN t, i < k, t[k] \in A
        PROVE  t[i] \in A
    <2>1. k \in DOMAIN s /\ i \in DOMAIN s
      BY <1>1, <1>4, <1>6
    <2> QED
      BY <1>1, <1>6, <2>1 DEF InOrder
  <1>7. ASSUME NEW i \in DOMAIN t
        PROVE  t[i] \in A \/ t[i] \in ToSet(m)
    BY <1>1, <1>3 DEF InOrder
  <1>8. ASSUME NEW a \in DOMAIN m, NEW b \in DOMAIN m, NEW i \in DOMAIN t, NEW k \in DOMAIN t,
               a < b, t[i] = m[a], t[k] = m[b]
        PROVE  i < k
    <2>1. a \in DOMAIN l
      BY <1>2, <1>8
    <2>2. m[a] # j
      BY <1>2, <1>5, <2>1
    <2>3. i \in DOMAIN s
      BY <1>1, <1>4, <1>8, <2>2
    <2>4. CASE b = Len(l) + 1
      BY <1>1, <1>4, <1>5, <1>8, <2>3, <2>4
    <2>5. CASE b # Len(l) + 1
      <3>1. b \in DOMAIN l /\ m[b] # j
        BY <1>2, <1>5, <2>5
      <3>2. k \in DOMAIN s
        BY <1>1, <1>4, <1>8, <3>1
      <3>3. s[i] = l[a] /\ s[k] = l[b]
        BY <1>1, <1>2, <1>8, <2>1, <2>3, <3>1, <3>2
      <3> QED
        BY <1>8, <2>1, <2>3, <3>1, <3>2, <3>3 DEF InOrder
    <2> QED
      BY <2>4, <2>5
  <1> QED
    BY <1>6, <1>7, <1>8 DEF InOrder, t, m

\* The first on its way is preceded by accepted ones only.
LEMMA OrderLead ==
    ASSUME NEW s \in Seq(Job), NEW l \in Seq(Job), NEW A, InOrder(s, l, A), IsInjective(s), l # <<>>,
           NEW i \in DOMAIN s, NEW k \in DOMAIN s, i < k, s[k] = Head(l)
    PROVE  s[i] \in A
  <1>1. DOMAIN s = 1..Len(s) /\ Len(s) \in Nat /\ Len(l) \in Nat \ {0} /\ DOMAIN l = 1..Len(l)
    BY LenProperties, EmptySeq
  <1>2. Head(l) = l[1] /\ 1 \in DOMAIN l
    BY <1>1
  <1>3. i # k /\ s[i] # s[k] /\ ~(k < i)
    BY <1>1 DEF IsInjective
  <1>4. ASSUME NEW b \in DOMAIN l, s[i] = l[b]
        PROVE  FALSE
    <2>1. b # 1
      BY <1>2, <1>3, <1>4
    <2>2. 1 < b
      BY <1>1, <2>1
    <2>3. k < i
      BY <1>2, <1>4, <2>2 DEF InOrder
    <2> QED
      BY <1>3, <2>3
  <1> QED
    BY <1>4 DEF InOrder, ToSet

LEMMA OrderAccept ==
    ASSUME NEW s \in Seq(Job), NEW l \in Seq(Job), NEW A, InOrder(s, l, A), IsInjective(s), l # <<>>
    PROVE  InOrder(s, Tail(l), A \cup {Head(l)})
  <1> DEFINE m == Tail(l)
             B == A \cup {Head(l)}
  <1>1. /\ Len(l) \in Nat \ {0} /\ DOMAIN l = 1..Len(l)
        /\ DOMAIN m = 1..(Len(l) - 1)
        /\ \A a \in 1..(Len(l) - 1) : m[a] = l[a + 1]
    BY LenProperties, EmptySeq, HeadTailProperties
  <1>2. ToSet(l) = {Head(l)} \cup ToSet(m)
    BY ToSetHeadTail
  <1> HIDE DEF m
  <1>3. \A i, k \in DOMAIN s : i < k /\ s[k] \in B => s[i] \in B
    BY OrderLead DEF InOrder
  <1>4. \A i \in DOMAIN s : s[i] \in B \/ s[i] \in ToSet(m)
    BY <1>2 DEF InOrder
  <1>5. ASSUME NEW a \in DOMAIN m, NEW b \in DOMAIN m, NEW i \in DOMAIN s, NEW k \in DOMAIN s,
               a < b, s[i] = m[a], s[k] = m[b]
        PROVE  i < k
    <2>1. a + 1 \in DOMAIN l /\ b + 1 \in DOMAIN l /\ a + 1 < b + 1
      BY <1>1, <1>5
    <2>2. s[i] = l[a + 1] /\ s[k] = l[b + 1]
      BY <1>1, <1>5
    <2> QED
      BY <2>1, <2>2 DEF InOrder
  <1> HIDE DEF B
  <1>6. InOrder(s, m, B)
    BY <1>3, <1>4, <1>5 DEF InOrder
  <1> QED
    BY <1>6 DEF m, B

\* Leaving out the oldest disturbs no order, and neither does what is accepted
\* from another connection.
LEMMA OrderCut ==
    ASSUME NEW s \in Seq(Job), NEW l \in Seq(Job), NEW A, InOrder(s, l, A), NEW n \in 0..Len(s)
    PROVE  InOrder(SubSeq(s, n + 1, Len(s)), l, A)
  <1> DEFINE t == SubSeq(s, n + 1, Len(s))
  <1>1. Len(s) \in Nat /\ DOMAIN s = 1..Len(s)
    BY LenProperties
  <1>2. /\ DOMAIN t = 1..(Len(s) - n)
        /\ \A i \in DOMAIN t : n + i \in DOMAIN s /\ t[i] = s[n + i]
    BY SuffixAt
  <1> HIDE DEF t
  <1>3. \A i, k \in DOMAIN t : i < k <=> n + i < n + k
    BY <1>1, <1>2
  <1>4. \A i, k \in DOMAIN t : i < k /\ t[k] \in A => t[i] \in A
    BY <1>2, <1>3 DEF InOrder
  <1>5. \A i \in DOMAIN t : t[i] \in A \/ t[i] \in ToSet(l)
    BY <1>2 DEF InOrder
  <1>6. \A a, b \in DOMAIN l, i, k \in DOMAIN t :
          a < b /\ t[i] = l[a] /\ t[k] = l[b] => i < k
    BY <1>2, <1>3 DEF InOrder
  <1> QED
    BY <1>4, <1>5, <1>6 DEF InOrder, t

LEMMA OrderElsewhere ==
    ASSUME NEW s, NEW l, NEW A, InOrder(s, l, A), NEW h, h \notin ToSet(s)
    PROVE  InOrder(s, l, A \cup {h})
  BY DEF InOrder, ToSet

-----------------------------------------------------------------------------
\* Before anything has gone wrong.

Calm == faults = MaxFaults

Mine(c)   == {w \in ToSet(waiters) : w.conn = c}
Asleep(c) == wake[c] = 0 /\ Mine(c) = {}

\* The handlers of a connection follow each other, as those of GCM always do.
Chained(c) ==
    /\ resp[c].kind = "none"
    /\ sock[c] = "open" \/ (pc[c] = "idle" /\ Asleep(c) /\ writes[c] = <<>>)
    /\ \/ writes[c] = <<>>
       \/ Len(writes[c]) = 1 /\ writes[c][1].fate = "live" /\ pc[c] = "idle" /\ Asleep(c)
    /\ pc[c] \in {"take", "wait"} => Asleep(c)
    /\ wake[c] > 0 => wake[c] = 1 /\ Mine(c) = {}
    /\ \A v, w \in Mine(c) : v = w

\* What a connection has on its way, in the order it will arrive.
Unsent(c) == IF writes[c] = <<>> THEN <<>> ELSE writes[c][1].jobs
Line(c)   == wire[c] \o (Unsent(c) \o batch[c])

LEMMA ChainedStays ==
    ASSUME NEW c \in Conn, Chained(c), resp'[c] = resp[c], sock'[c] = sock[c], pc'[c] = pc[c],
           writes'[c] = writes[c], wake'[c] = wake[c], Mine(c)' = Mine(c)
    PROVE  Chained(c)'
  BY DEF Chained, Asleep

\* A notification takes the waiter of c, if it has one.
LEMMA NotifyChained ==
    ASSUME TypeOK, OwnWaiters, NEW c \in Conn, Chained(c), NotifyOne,
           resp'[c] = resp[c], sock'[c] = sock[c], pc'[c] = pc[c], writes'[c] = writes[c]
    PROVE  Chained(c)'
  <1>1. CASE waiters = <<>>
    <2>1. UNCHANGED <<waiters, wake>>
      BY <1>1 DEF NotifyOne, condVars
    <2>2. Mine(c)' = Mine(c)
      BY <2>1 DEF Mine
    <2> QED
      BY <2>1, <2>2, ChainedStays
  <1>2. CASE waiters # <<>>
    <2>1. /\ waiters' = Tail(waiters)
          /\ wake' = [wake EXCEPT ![Head(waiters).conn] = @ + 1]
          /\ waiters \in Seq(Waiter)
          /\ wake \in [Conn -> Nat]
      BY <1>2 DEF NotifyOne, TypeOK, PoolTypeOK, CondTypeOK
    <2>2. /\ ToSet(waiters) = {Head(waiters)} \cup ToSet(waiters')
          /\ Head(waiters) \notin ToSet(waiters')
      BY <1>2, <2>1, ToSetHeadTail, InjectiveTail DEF OwnWaiters
    <2>3. CASE Head(waiters).conn # c
      <3>1. Mine(c)' = Mine(c) /\ wake'[c] = wake[c]
        BY <2>1, <2>2, <2>3 DEF Mine
      <3> QED
        BY <3>1, ChainedStays
    <2>4. CASE Head(waiters).conn = c
      <3>1. Head(waiters) \in Mine(c)
        BY <2>2, <2>4 DEF Mine
      <3>2. Mine(c)' \subseteq Mine(c) /\ Head(waiters) \notin Mine(c)'
        BY <2>2 DEF Mine
      <3>3. Mine(c)' = {}
        BY <3>1, <3>2 DEF Chained
      <3>4. wake[c] = 0
        BY <2>1, <3>1 DEF Chained
      <3>5. wake'[c] = 1
        BY <2>1, <2>4, <3>4
      <3>6. writes[c] = <<>> /\ sock[c] = "open" /\ pc[c] \notin {"take", "wait"}
        BY <3>1 DEF Chained, Asleep
      <3> QED
        BY <3>3, <3>5, <3>6 DEF Chained, Asleep
    <2> QED
      BY <2>3, <2>4
  <1> QED
    BY <1>1, <1>2

\* Without a fault no answer comes and no operation fails.
LEMMA CalmStep ==
    ASSUME TypeOK, Lifecycle, [Next]_vars, faults' = faults,
           \A c \in Conn : Chained(c), NEW c \in Conn
    PROVE  /\ ~HandleReadErr(c) /\ ~GatewayReject(c) /\ ~GatewayShutdown(c) /\ ~GatewayDrop(c)
           /\ ~Broken(c, "connect") /\ ~Broken(c, "handshake")
  <1>1. ~HandleReadErr(c)
    BY DEF HandleReadErr, Chained
  <1>2. faults \in Nat
    BY DEF TypeOK, GateTypeOK
  <1>3. \A kind : ~Fault(kind)
    BY <1>2 DEF Fault
  <1> QED
    BY <1>1, <1>3 DEF GatewayReject, GatewayShutdown, GatewayDrop, Hangup, Broken

\* What others do to the waiters of d, when nothing fails.
LEMMA OthersNotify ==
    ASSUME TypeOK, OwnWaiters, NEW d \in Conn,
           \/ Client \/ UNCHANGED vars
           \/ \E c \in Conn : c # d /\ (Handler(c) \/ Gateway(c)) /\ ~HandleReadErr(c)
    PROVE  \/ NotifyOne
           \/ wake'[d] = wake[d] /\ Mine(d)' = Mine(d)
  <1>1. CASE Client \/ UNCHANGED vars
    <2>1. NotifyOne \/ UNCHANGED <<waiters, wake>>
      BY <1>1 DEF Client, Notify, PostNotify, Post, PostPush, vars, condVars
    <2> QED
      BY <2>1 DEF Mine
  <1>2. ASSUME NEW c \in Conn, c # d, Handler(c) \/ Gateway(c), ~HandleReadErr(c)
        PROVE  wake'[d] = wake[d] /\ Mine(d)' = Mine(d)
    <2>0. Fresh(c).conn = c /\ Held(c).conn = c
      BY DEF Fresh, Held
    <2>1. CASE WaitForJob(c)
      <3>1. ToSet(waiters') = ToSet(waiters) \cup {Fresh(c)} /\ wake' = wake
        BY <2>1, WaitSet DEF WaitForJob, AsyncWait
      <3> QED
        BY <1>2, <2>0, <3>1 DEF Mine
    <2>2. CASE SwapHandle(c)
      <3>1. /\ wake' = wake
            /\ ToSet(waiters') = {w \in ToSet(waiters) : w.conn # c}
                 \cup (IF Fresh(c) \in ToSet(waiters) THEN {Held(c)} ELSE {})
        BY <2>2, SwapSet DEF SwapHandle, AssignHandle, OwnWaiters
      <3> QED
        BY <1>2, <2>0, <3>1 DEF Mine
    <2>3. CASE HandleJobAvailable(c)
      <3>1. waiters' = waiters /\ wake'[d] = wake[d]
        BY <1>2, <2>3 DEF HandleJobAvailable, Woken, TypeOK, PoolTypeOK, CondTypeOK
      <3> QED
        BY <3>1 DEF Mine
    <2>4. CASE ~WaitForJob(c) /\ ~SwapHandle(c) /\ ~HandleJobAvailable(c)
      <3>1. UNCHANGED <<waiters, wake>>
        BY <1>2, <2>4
           DEF Handler, Start, RestartTimer, HandleConnect, HandleHandshake, OnCheckCache, TakeJob,
               SendBatch, HandleWrite, Gateway, Transmit, GatewayAccept, GatewayReject,
               GatewayShutdown, GatewayDrop, Hangup, condVars
      <3> QED
        BY <3>1 DEF Mine
    <2> QED
      BY <2>1, <2>2, <2>3, <2>4
  <1> QED
    BY <1>1, <1>2

LEMMA NoElements ==
    ASSUME NEW S, NEW s \in Seq(S), \/ ToSet(s) = {}
                                    \/ DOMAIN s = {}
    PROVE  s = <<>>
  <1>1. s # <<>> => Len(s) \in Nat \ {0} /\ 1 \in DOMAIN s
    BY EmptySeq, LenProperties
  <1> QED
    BY <1>1 DEF ToSet

\* A write that completes while nothing fails was the only one, and all sent.
LEMMA WriteOver ==
    ASSUME TypeOK, NEW d \in Conn, Chained(d), NEW i \in DOMAIN writes[d], HandleWrite(d, i)
    PROVE  /\ writes[d] # <<>> /\ writes[d][1].jobs = <<>> /\ Asleep(d) /\ sock[d] = "open"
           /\ pc'[d] = "take" /\ writes'[d] = <<>>
           /\ UNCHANGED <<resp, sock, waiters, wake, batch, wire, cache, accepted>>
  <1>t. writes[d] \in Seq(Write)
    BY DEF TypeOK, ConnTypeOK
  <1>1. writes[d] # <<>> /\ i = 1 /\ Len(writes[d]) = 1
    <2>1. writes[d] # <<>>
      BY <1>t, LenProperties, EmptySeq
    <2>2. Len(writes[d]) = 1 /\ i \in 1..Len(writes[d])
      BY <1>t, <2>1, LenProperties DEF Chained
    <2> QED
      BY <2>1, <2>2
  <1>2. writes[d][i].fate = "live" /\ Asleep(d) /\ sock[d] = "open"
    BY <1>1 DEF Chained
  <1>3. /\ writes[d][i].jobs = <<>> /\ pc'[d] = "take" /\ writes'[d] = RemoveAt(writes[d], i)
        /\ UNCHANGED <<resp, sock, waiters, wake, batch, wire, cache, accepted>>
    BY <1>2 DEF HandleWrite, GetNext, condVars, gateVars, TypeOK, ConnTypeOK
  <1>4. writes'[d] = <<>>
    <2>1. IsInjective(writes[d])
      BY <1>t, <1>1, LenProperties DEF IsInjective
    <2>2. /\ RemoveAt(writes[d], i) \in Seq(Write)
          /\ ToSet(RemoveAt(writes[d], i)) = ToSet(writes[d]) \ {writes[d][i]}
      BY <1>t, <2>1, RemoveAtInjective
    <2>3. ToSet(writes[d]) = {writes[d][i]}
      BY <1>t, <1>1, LenProperties DEF ToSet
    <2> QED
      BY <1>3, <2>2, <2>3, NoElements
  <1> QED
    BY <1>1, <1>2, <1>3, <1>4

\* The only write there is moves on by one job.
LEMMA Transmitted ==
    ASSUME TypeOK, [Next]_vars, NEW d \in Conn, Chained(d), NEW i \in DOMAIN writes[d], Transmit(d, i)
    PROVE  /\ writes[d] # <<>>
           /\ writes[d][1].jobs \in Seq(Job) /\ writes[d][1].jobs # <<>>
           /\ Len(writes'[d]) = 1 /\ writes'[d][1].fate = "live"
           /\ writes'[d][1].jobs = Tail(writes[d][1].jobs)
           /\ wire'[d] = Append(wire[d], Head(writes[d][1].jobs))
           /\ UNCHANGED <<resp, sock, pc, waiters, wake, batch, cache, accepted>>
  <1>t. writes[d] \in Seq(Write)
    BY DEF TypeOK, ConnTypeOK
  <1>1. writes[d] # <<>> /\ i = 1 /\ Len(writes[d]) = 1
    <2>1. writes[d] # <<>>
      BY <1>t, LenProperties, EmptySeq
    <2>2. Len(writes[d]) = 1 /\ i \in 1..Len(writes[d])
      BY <1>t, <2>1, LenProperties DEF Chained
    <2> QED
      BY <2>1, <2>2
  <1>2. /\ writes'[d] = [writes[d] EXCEPT ![1].jobs = Tail(@)]
        /\ wire'[d] = Append(wire[d], Head(writes[d][1].jobs))
        /\ writes[d][1].jobs # <<>>
        /\ UNCHANGED <<resp, sock, pc, waiters, wake, batch, cache, accepted>>
    BY <1>1 DEF Transmit, condVars, TypeOK, ConnTypeOK, GateTypeOK
  <1>3. writes[d][1] \in Write /\ writes[d][1].fate = "live" /\ DOMAIN writes[d] = 1..1
    BY <1>t, <1>1, LenProperties, ElementOfSeq DEF Chained
  <1>4. /\ DOMAIN writes'[d] = 1..1 /\ writes'[d][1].fate = "live"
        /\ writes'[d][1].jobs = Tail(writes[d][1].jobs)
        /\ writes[d][1].jobs \in Seq(Job)
    BY <1>2, <1>3 DEF Write
  <1>5. writes'[d] \in Seq(Write)
    BY TypeStep DEF TypeOK, ConnTypeOK
  <1>6. PICK ws : ws = writes'[d]
    OBVIOUS
  <1>7. ws \in Seq(Write) /\ DOMAIN ws = 1..1
    BY <1>4, <1>5, <1>6
  <1>8. Len(ws) \in Nat /\ DOMAIN ws = 1..Len(ws)
    BY <1>7, LenProperties
  <1>9. Len(ws) = 1
    <2>1. PICK n \in Nat : n = Len(ws)
      BY <1>8
    <2>2. 1..n = 1..1
      BY <1>7, <1>8, <2>1
    <2>3. 1 \in 1..1
      OBVIOUS
    <2>4. 1 \in 1..n
      BY <2>2, <2>3
    <2>5. n \in 1..n
      BY <2>4
    <2>6. n \in 1..1
      BY <2>2, <2>5
    <2>7. n = 1
      BY <2>6
    <2> QED
      BY <2>1, <2>7
  <1> QED
    BY <1>1, <1>2, <1>4, <1>6, <1>9

LEMMA OwnChained ==
    ASSUME TypeOK, Lifecycle, OwnWaiters, [Next]_vars, faults' = faults,
           \A c \in Conn : Chained(c),
           NEW d \in Conn, Handler(d) \/ Gateway(d)
    PROVE  Chained(d)'
  <1>0. /\ Chained(d) /\ Stage(d)
        /\ ~HandleReadErr(d) /\ ~GatewayReject(d) /\ ~GatewayShutdown(d) /\ ~GatewayDrop(d)
        /\ ~Broken(d, "connect") /\ ~Broken(d, "handshake")
    BY CalmStep DEF Lifecycle
  <1>t. writes[d] \in Seq(Write) /\ waiters \in Seq(Waiter) /\ wake \in [Conn -> Nat]
    BY DEF TypeOK, PoolTypeOK, CondTypeOK, ConnTypeOK
  <1>1. CASE Start(d) \/ RestartTimer(d)
    <2>1. sock[d] # "open"
      BY <1>0, <1>1 DEF Start, RestartTimer, Stage, Starting, Handshaking, Open, Hung, Restarting
    <2>2. writes[d] = <<>> /\ pc[d] = "idle" /\ Asleep(d)
      BY <1>0, <2>1 DEF Chained
    <2>3. writes'[d] = Abandon(writes[d]) /\ UNCHANGED <<resp, pc, waiters, wake>>
      BY <1>1 DEF Start, RestartTimer, StartConnect, condVars, gateVars, TypeOK, ConnTypeOK
    <2>4. writes'[d] = <<>>
      <3>1. Abandon(writes[d]) \in Seq(Write)
        BY <1>t, AbandonType
      <3>2. DOMAIN Abandon(writes[d]) = DOMAIN writes[d]
        BY DEF Abandon
      <3>3. DOMAIN writes[d] = {}
        BY <1>t, <2>2, LenProperties, EmptySeq
      <3> QED
        BY <2>3, <3>1, <3>2, <3>3, NoElements
    <2>5. Mine(d)' = Mine(d)
      BY <2>3 DEF Mine
    <2> QED
      BY <1>0, <2>2, <2>3, <2>4, <2>5 DEF Chained, Asleep
  <1>2. CASE HandleConnect(d)
    <2>1. sock[d] # "open"
      BY <1>0, <1>2 DEF HandleConnect, Stage, Starting, Handshaking, Open, Hung, Restarting
    <2>2. UNCHANGED <<resp, pc, writes, waiters, wake>>
      BY <1>0, <1>2 DEF HandleConnect, Connected, condVars
    <2>3. Mine(d)' = Mine(d)
      BY <2>2 DEF Mine
    <2> QED
      BY <1>0, <2>1, <2>2, <2>3 DEF Chained, Asleep
  <1>3. CASE HandleHandshake(d)
    <2>1. sock[d] # "open"
      BY <1>0, <1>3 DEF HandleHandshake, Stage, Starting, Handshaking, Open, Hung, Restarting
    <2>2. UNCHANGED <<resp, writes, waiters, wake>> /\ pc'[d] = "wait" /\ sock'[d] = "open"
      BY <1>0, <1>3 DEF HandleHandshake, Established, condVars, TypeOK, ConnTypeOK
    <2>3. Mine(d)' = Mine(d)
      BY <2>2 DEF Mine
    <2> QED
      BY <1>0, <2>1, <2>2, <2>3 DEF Chained, Asleep
  <1>4. CASE \/ \E k \in 0..Len(cache[d]) : OnCheckCache(d, k)
             \/ \E j \in Job : TakeJob(d, j)
             \/ GatewayAccept(d)
    <2>1. UNCHANGED <<resp, sock, pc, writes, waiters, wake>>
      BY <1>4 DEF OnCheckCache, TakeJob, GatewayAccept, condVars, connVars, gateVars
    <2>2. Mine(d)' = Mine(d)
      BY <2>1 DEF Mine
    <2> QED
      BY <1>0, <2>1, <2>2, ChainedStays
  <1>5. CASE HandleJobAvailable(d)
    <2>1. /\ pc'[d] = "take" /\ wake'[d] = wake[d] - 1 /\ wake[d] > 0
          /\ UNCHANGED <<resp, sock, writes, waiters>>
      BY <1>5 DEF HandleJobAvailable, Woken, gateVars, TypeOK, PoolTypeOK, CondTypeOK, ConnTypeOK
    <2>2. wake[d] = 1 /\ Mine(d) = {}
      BY <1>0, <2>1 DEF Chained
    <2>3. Mine(d)' = {} /\ wake'[d] = 0
      BY <2>1, <2>2 DEF Mine
    <2>4. writes[d] = <<>> /\ sock[d] = "open"
      BY <1>0, <2>2 DEF Chained, Asleep
    <2> QED
      BY <1>0, <2>1, <2>3, <2>4 DEF Chained, Asleep
  <1>6. CASE SendBatch(d)
    <2>1. /\ pc[d] = "take" /\ Asleep(d) /\ sock[d] = "open" /\ writes[d] = <<>>
          /\ UNCHANGED <<resp, sock, waiters, wake>>
      BY <1>0, <1>6 DEF SendBatch, Chained, condVars
    <2>2. Mine(d)' = Mine(d)
      BY <2>1 DEF Mine
    <2>3. CASE NothingToSend(d)
      <3>1. pc'[d] = "wait" /\ writes' = writes
        BY <2>3 DEF NothingToSend, TypeOK, ConnTypeOK
      <3> QED
        BY <1>0, <2>1, <2>2, <3>1 DEF Chained, Asleep
    <2>4. CASE Send(d)
      <3>1. pc'[d] = "idle" /\ writes'[d] = Append(<<>>, [jobs |-> Tail(batch[d]), fate |-> "live"])
        BY <2>1, <2>4 DEF Send, StartWrite, WriteOn, FateOn, TypeOK, ConnTypeOK
      <3>2. Len(writes'[d]) = 1 /\ writes'[d][1].fate = "live"
        BY <3>1
      <3> QED
        BY <1>0, <2>1, <2>2, <3>1, <3>2 DEF Chained, Asleep
    <2> QED
      BY <1>6, <2>3, <2>4 DEF SendBatch
  <1>7. CASE WaitForJob(d)
    <2>1. /\ pc[d] = "wait" /\ pc'[d] = "swap" /\ Asleep(d) /\ sock[d] = "open" /\ writes[d] = <<>>
          /\ UNCHANGED <<resp, sock, writes, wake>>
      BY <1>0, <1>7 DEF WaitForJob, AsyncWait, Chained, gateVars, TypeOK, ConnTypeOK
    <2>2. ToSet(waiters') = ToSet(waiters) \cup {Fresh(d)}
      BY <1>7, WaitSet
    <2>3. Mine(d)' \subseteq Mine(d) \cup {Fresh(d)}
      BY <2>2 DEF Mine
    <2> QED
      BY <1>0, <2>1, <2>3 DEF Chained, Asleep
  <1>8. CASE SwapHandle(d)
    <2>1. /\ pc[d] = "swap" /\ pc'[d] = "idle" /\ sock[d] = "open" /\ writes[d] = <<>>
          /\ UNCHANGED <<resp, sock, writes, wake>>
      BY <1>0, <1>8 DEF SwapHandle, AssignHandle, Chained, gateVars, TypeOK, ConnTypeOK
    <2>2. ToSet(waiters') = {w \in ToSet(waiters) : w.conn # d}
            \cup (IF Fresh(d) \in ToSet(waiters) THEN {Held(d)} ELSE {})
      BY <1>8, SwapSet DEF OwnWaiters
    <2>3. Mine(d)' \subseteq {Held(d)} /\ (Mine(d) = {} => Mine(d)' = {})
      <3>1. Fresh(d).conn = d /\ Held(d).conn = d
        BY DEF Fresh, Held
      <3> QED
        BY <2>2, <3>1 DEF Mine
    <2> QED
      BY <1>0, <2>1, <2>3 DEF Chained, Asleep
  <1>9. ASSUME NEW i \in DOMAIN writes[d], HandleWrite(d, i)
        PROVE  Chained(d)'
    <2>1. /\ Asleep(d) /\ sock[d] = "open" /\ pc'[d] = "take" /\ writes'[d] = <<>>
          /\ UNCHANGED <<resp, sock, waiters, wake>>
      BY <1>0, <1>9, WriteOver
    <2>2. Mine(d)' = Mine(d)
      BY <2>1 DEF Mine
    <2> QED
      BY <1>0, <2>1, <2>2 DEF Chained, Asleep
  <1>10. ASSUME NEW i \in DOMAIN writes[d], Transmit(d, i)
         PROVE  Chained(d)'
    <2>1. /\ writes[d] # <<>> /\ Len(writes'[d]) = 1 /\ writes'[d][1].fate = "live"
          /\ UNCHANGED <<resp, sock, pc, waiters, wake>>
      BY <1>0, <1>10, Transmitted
    <2>2. Mine(d)' = Mine(d)
      BY <2>1 DEF Mine
    <2> QED
      BY <1>0, <2>1, <2>2 DEF Chained, Asleep
  <1> QED
    BY <1>0, <1>1, <1>2, <1>3, <1>4, <1>5, <1>6, <1>7, <1>8, <1>9, <1>10 DEF Handler, Gateway

LEMMA ChainedStep ==
    ASSUME TypeOK, Lifecycle, OwnWaiters, [Next]_vars, faults' = faults,
           \A c \in Conn : Chained(c), NEW d \in Conn
    PROVE  Chained(d)'
  <1>1. ASSUME UNCHANGED <<resp, sock, pc, writes>> \/ \E c \in Conn : c # d /\ (Handler(c) \/ Gateway(c)),
               \/ Client \/ UNCHANGED vars
               \/ \E c \in Conn : c # d /\ (Handler(c) \/ Gateway(c)) /\ ~HandleReadErr(c)
        PROVE  Chained(d)'
    <2>1. resp'[d] = resp[d] /\ sock'[d] = sock[d] /\ pc'[d] = pc[d] /\ writes'[d] = writes[d]
      BY <1>1, OthersKeep, OthersStage
    <2>2. NotifyOne \/ (wake'[d] = wake[d] /\ Mine(d)' = Mine(d))
      BY <1>1, OthersNotify
    <2> QED
      BY <2>1, <2>2, NotifyChained, ChainedStays
  <1>2. CASE Client \/ UNCHANGED vars
    <2>1. UNCHANGED <<resp, sock, pc, writes>>
      BY <1>2 DEF Client, Notify, Post, vars, connVars, gateVars
    <2> QED
      BY <1>1, <1>2, <2>1
  <1>3. CASE \E c \in Conn : Handler(c) \/ Gateway(c)
    BY <1>1, <1>3, CalmStep, OwnChained
  <1> QED
    BY <1>2, <1>3 DEF Next

LEMMA LineType ==
    ASSUME TypeOK, NEW c \in Conn
    PROVE  /\ wire[c] \in Seq(Job) /\ Unsent(c) \in Seq(Job) /\ batch[c] \in Seq(Job)
           /\ Unsent(c) \o batch[c] \in Seq(Job)
           /\ Line(c) \in Seq(Job)
  <1>1. wire[c] \in Seq(Job) /\ batch[c] \in Seq(Job) /\ writes[c] \in Seq(Write)
    BY DEF TypeOK, ConnTypeOK, GateTypeOK
  <1>2. writes[c] # <<>> => writes[c][1] \in Write
    BY <1>1, EmptySeq, LenProperties, ElementOfSeq
  <1>3. Unsent(c) \in Seq(Job)
    BY <1>2 DEF Unsent, Write
  <1>4. PICK t : t = Unsent(c) \o batch[c]
    OBVIOUS
  <1>5. t \in Seq(Job)
    BY <1>1, <1>3, <1>4, ConcatProperties
  <1>6. wire[c] \o t \in Seq(Job)
    BY <1>1, <1>5, ConcatProperties
  <1> QED
    BY <1>1, <1>3, <1>4, <1>5, <1>6 DEF Line

LEMMA LineKnown ==
    ASSUME TypeOK, NEW c \in Conn, Chained(c), SentIsKnown(c)
    PROVE  ToSet(Line(c)) \subseteq Known(c)
  <1>1. PICK w, u, b : w = wire[c] /\ u = Unsent(c) /\ b = batch[c]
    OBVIOUS
  <1>2. w \in Seq(Job) /\ u \in Seq(Job) /\ b \in Seq(Job)
    BY <1>1, LineType
  <1>3. PICK t : t = u \o b
    OBVIOUS
  <1>4. t \in Seq(Job) /\ ToSet(t) = ToSet(u) \cup ToSet(b)
    BY <1>2, <1>3, ConcatProperties, ToSetConcat
  <1>5. ToSet(w \o t) = ToSet(w) \cup ToSet(t)
    BY <1>2, <1>4, ToSetConcat
  <1>6. ToSet(w) \subseteq Known(c) /\ ToSet(b) \subseteq Known(c)
    BY <1>1 DEF SentIsKnown, SentIn
  <1>7. ToSet(u) \subseteq Known(c)
    <2>1. CASE writes[c] = <<>>
      BY <1>1, <2>1, ToSetEmpty DEF Unsent
    <2>2. CASE writes[c] # <<>>
      <3>1. writes[c][1].fate = "live"
        BY <2>2 DEF Chained
      <3>2. writes[c] \in Seq(Write)
        BY DEF TypeOK, ConnTypeOK
      <3>3. 1 \in DOMAIN writes[c]
        BY <2>2, <3>2, EmptySeq, LenProperties
      <3>4. writes[c][1] \in ToSet(writes[c])
        BY <3>3 DEF ToSet
      <3>5. ToSet(writes[c][1].jobs) \subseteq Known(c)
        BY <3>1, <3>4 DEF SentIsKnown, SentIn
      <3> QED
        BY <1>1, <2>2, <3>5 DEF Unsent
    <2> QED
      BY <2>1, <2>2
  <1> QED
    BY <1>1, <1>3, <1>4, <1>5, <1>6, <1>7 DEF Line

\* Sending and transmitting only move jobs along the line.
LEMMA LineSend ==
    ASSUME TypeOK, NEW d \in Conn, Chained(d), Send(d), pc[d] = "take"
    PROVE  Line(d)' = Line(d)
  <1>1. sock[d] = "open" /\ writes[d] = <<>> /\ batch[d] # <<>>
    BY DEF Chained, Send
  <1>2. /\ wire'[d] = Append(wire[d], Head(batch[d]))
        /\ writes'[d] = Append(<<>>, [jobs |-> Tail(batch[d]), fate |-> "live"])
        /\ batch'[d] = <<>>
    BY <1>1 DEF Send, StartWrite, WriteOn, FateOn, TypeOK, ConnTypeOK, GateTypeOK
  <1>3. Unsent(d) = <<>> /\ Unsent(d)' = Tail(batch[d])
    BY <1>1, <1>2 DEF Unsent
  <1>4. PICK w, b : w = wire[d] /\ b = batch[d]
    OBVIOUS
  <1>5. w \in Seq(Job) /\ b \in Seq(Job) /\ b # <<>> /\ <<>> \in Seq(Job)
    BY <1>1, <1>4, LineType
  <1>6. Append(w, Head(b)) \o (Tail(b) \o <<>>) = w \o (b \o <<>>)
    BY <1>5, MoveOver
  <1>7. b \o <<>> = b /\ <<>> \o b = b
    BY <1>5, ConcatEmptySeq
  <1> QED
    BY <1>2, <1>3, <1>4, <1>6, <1>7 DEF Line

LEMMA LineTransmit ==
    ASSUME TypeOK, [Next]_vars, NEW d \in Conn, Chained(d), NEW i \in DOMAIN writes[d], Transmit(d, i)
    PROVE  Line(d)' = Line(d)
  <1>1. /\ writes[d] # <<>> /\ writes[d][1].jobs # <<>>
        /\ Len(writes'[d]) = 1
        /\ writes'[d][1].jobs = Tail(writes[d][1].jobs)
        /\ wire'[d] = Append(wire[d], Head(writes[d][1].jobs))
        /\ batch' = batch
    BY Transmitted
  <1>2. writes'[d] # <<>>
    BY <1>1
  <1>3. Unsent(d) = writes[d][1].jobs /\ Unsent(d)' = Tail(Unsent(d))
    BY <1>1, <1>2 DEF Unsent
  <1>4. PICK w, u, b : w = wire[d] /\ u = Unsent(d) /\ b = batch[d]
    OBVIOUS
  <1>5. w \in Seq(Job) /\ u \in Seq(Job) /\ b \in Seq(Job) /\ u # <<>>
    BY <1>1, <1>3, <1>4, LineType
  <1>6. Append(w, Head(u)) \o (Tail(u) \o b) = w \o (u \o b)
    BY <1>5, MoveOver
  <1> QED
    BY <1>1, <1>3, <1>4, <1>6 DEF Line

LEMMA LineAccept ==
    ASSUME TypeOK, NEW d \in Conn, GatewayAccept(d)
    PROVE  /\ Line(d) # <<>> /\ Line(d)' = Tail(Line(d)) /\ Head(wire[d]) = Head(Line(d))
           /\ accepted' = accepted \cup {Head(wire[d])} /\ cache' = cache
           /\ lastDone' = [lastDone EXCEPT ![d] = Head(wire[d])]
  <1>1. /\ wire[d] # <<>> /\ wire'[d] = Tail(wire[d]) /\ UNCHANGED <<batch, writes, cache>>
        /\ accepted' = accepted \cup {Head(wire[d])}
        /\ lastDone' = [lastDone EXCEPT ![d] = Head(wire[d])]
    BY DEF GatewayAccept, connVars, TypeOK, GateTypeOK
  <1>2. PICK w, t : w = wire[d] /\ t = Unsent(d) \o batch[d]
    OBVIOUS
  <1>3. w \in Seq(Job) /\ t \in Seq(Job) /\ w # <<>>
    BY <1>1, <1>2, LineType
  <1>4. w \o t # <<>> /\ Head(w \o t) = Head(w) /\ Tail(w \o t) = Tail(w) \o t
    BY <1>3, HeadTailConcat
  <1>5. Unsent(d)' = Unsent(d)
    BY <1>1 DEF Unsent
  <1> QED
    BY <1>1, <1>2, <1>4, <1>5 DEF Line

LEMMA LineTake ==
    ASSUME TypeOK, NEW d \in Conn, NEW j \in Job, TakeJob(d, j)
    PROVE  /\ Line(d)' = Append(Line(d), j) /\ cache'[d] = Append(cache[d], j)
           /\ UNCHANGED <<accepted, lastDone, posted>>
           /\ j \in ToSet(jobs) /\ ToSet(jobs') \subseteq ToSet(jobs)
  <1>1. /\ batch'[d] = Append(batch[d], j) /\ cache'[d] = Append(cache[d], j)
        /\ UNCHANGED <<wire, writes, accepted, lastDone, posted>>
        /\ jobs # <<>> /\ j = Head(jobs) /\ jobs' = Tail(jobs)
    BY DEF TakeJob, GetNextJob, Remember, gateVars, TypeOK, ConnTypeOK
  <1>2. PICK w, u, b : w = wire[d] /\ u = Unsent(d) /\ b = batch[d]
    OBVIOUS
  <1>3. w \in Seq(Job) /\ u \in Seq(Job) /\ b \in Seq(Job)
    BY <1>2, LineType
  <1>4. w \o (u \o Append(b, j)) = Append(w \o (u \o b), j)
    BY <1>3, AppendOver
  <1>5. Unsent(d)' = Unsent(d)
    BY <1>1 DEF Unsent
  <1>6. ToSet(jobs) = {Head(jobs)} \cup ToSet(Tail(jobs))
    BY <1>1, ToSetHeadTail DEF TypeOK, PoolTypeOK
  <1> QED
    BY <1>1, <1>2, <1>4, <1>5, <1>6 DEF Line

\* All other steps leave it as it is.
LEMMA LineKeeps ==
    ASSUME TypeOK, Lifecycle, OwnWaiters, [Next]_vars, faults' = faults,
           \A c \in Conn : Chained(c),
           NEW d \in Conn, Handler(d) \/ Gateway(d), ~GatewayAccept(d), \A j \in Job : ~TakeJob(d, j)
    PROVE  Line(d)' = Line(d) /\ UNCHANGED <<accepted, lastDone, jobs, posted>>
  <1>0. /\ Chained(d) /\ Stage(d)
        /\ ~HandleReadErr(d) /\ ~GatewayReject(d) /\ ~GatewayShutdown(d) /\ ~GatewayDrop(d)
        /\ ~Broken(d, "connect") /\ ~Broken(d, "handshake")
    BY CalmStep DEF Lifecycle
  <1>1. UNCHANGED <<accepted, lastDone, jobs, posted>>
    BY <1>0 DEF Handler, Gateway, Start, RestartTimer, HandleConnect, HandleHandshake, OnCheckCache,
                HandleJobAvailable, SendBatch, WaitForJob, SwapHandle, HandleWrite, Transmit,
                gateVars, poolVars
  <1>2. ASSUME UNCHANGED <<wire, batch>>, writes'[d] = writes[d]
        PROVE  Line(d)' = Line(d)
    BY <1>2 DEF Line, Unsent
  <1>3. CASE Start(d) \/ RestartTimer(d)
    <2>1. sock[d] # "open" /\ sock'[d] # "open" /\ UNCHANGED <<wire, batch>>
      BY <1>0, <1>3 DEF Start, RestartTimer, StartConnect, gateVars, TypeOK, ConnTypeOK,
                        Stage, Starting, Handshaking, Open, Hung, Restarting
    <2>2. writes[d] = <<>>
      BY <1>0, <2>1 DEF Chained
    <2>3. Chained(d)'
      BY ChainedStep
    <2>4. writes'[d] = <<>>
      BY <2>1, <2>3 DEF Chained
    <2> QED
      BY <1>1, <1>2, <2>1, <2>2, <2>4
  <1>4. CASE \/ HandleConnect(d) \/ HandleHandshake(d) \/ HandleJobAvailable(d)
             \/ WaitForJob(d) \/ SwapHandle(d) \/ (SendBatch(d) /\ NothingToSend(d))
             \/ \E k \in 0..Len(cache[d]) : OnCheckCache(d, k)
    <2>1. UNCHANGED <<wire, batch, writes>>
      BY <1>0, <1>4 DEF HandleConnect, Connected, HandleHandshake, Established, HandleJobAvailable,
                        WaitForJob, SwapHandle, NothingToSend, OnCheckCache, gateVars
    <2> QED
      BY <1>1, <1>2, <2>1
  <1>5. CASE SendBatch(d) /\ Send(d)
    BY <1>0, <1>1, <1>5, LineSend DEF SendBatch
  <1>6. ASSUME NEW i \in DOMAIN writes[d], HandleWrite(d, i)
        PROVE  Line(d)' = Line(d)
    BY <1>0, <1>6, WriteOver DEF Line, Unsent
  <1>7. ASSUME NEW i \in DOMAIN writes[d], Transmit(d, i)
        PROVE  Line(d)' = Line(d)
    BY <1>0, <1>7, LineTransmit
  <1> QED
    BY <1>0, <1>1, <1>3, <1>4, <1>5, <1>6, <1>7 DEF Handler, Gateway, SendBatch

Ordered(c) == InOrder(cache[c], Line(c), accepted)

\* As long as nothing has gone wrong, what a connection has in its cache is
\* accepted in its order.
InTurn ==
    /\ accepted \subseteq posted \ ToSet(jobs)
    /\ \A c \in Conn : Chained(c)
    /\ \A c \in Conn : Ordered(c)
    /\ \A c \in Conn : lastDone[c] \in accepted \cup {None}

LEMMA OrderedKeeps ==
    ASSUME TypeOK, NEW d \in Conn, Ordered(d), Line(d)' = Line(d), accepted' = accepted,
           \/ cache'[d] = cache[d]
           \/ \E k \in 0..Len(cache[d]) : cache'[d] = SubSeq(cache[d], k + 1, Len(cache[d]))
    PROVE  Ordered(d)'
  <1>1. PICK s, l : s = cache[d] /\ l = Line(d)
    OBVIOUS
  <1>2. s \in Seq(Job) /\ l \in Seq(Job) /\ InOrder(s, l, accepted)
    BY <1>1, LineType DEF Ordered, TypeOK, ConnTypeOK
  <1>3. \A k \in 0..Len(s) : InOrder(SubSeq(s, k + 1, Len(s)), l, accepted)
    BY <1>2, OrderCut
  <1>4. PICK t : t = cache'[d]
    OBVIOUS
  <1>5. InOrder(t, l, accepted)
    BY <1>1, <1>2, <1>3, <1>4
  <1> QED
    BY <1>1, <1>4, <1>5 DEF Ordered

\* The cache of a connection that is not read from only loses its oldest jobs.
LEMMA CacheKeeps ==
    ASSUME TypeOK, NEW d \in Conn, Handler(d) \/ Gateway(d), ~HandleReadErr(d),
           \A j \in Job : ~TakeJob(d, j)
    PROVE  \/ cache'[d] = cache[d]
           \/ \E k \in 0..Len(cache[d]) : cache'[d] = SubSeq(cache[d], k + 1, Len(cache[d]))
  <1>1. ASSUME NEW k \in 0..Len(cache[d]), OnCheckCache(d, k)
        PROVE  cache'[d] = SubSeq(cache[d], k + 1, Len(cache[d]))
    BY <1>1 DEF OnCheckCache, TypeOK, ConnTypeOK
  <1>2. \/ \E k \in 0..Len(cache[d]) : OnCheckCache(d, k)
        \/ cache' = cache
    BY DEF Handler, Gateway, Start, RestartTimer, HandleConnect, HandleHandshake,
           HandleJobAvailable, SendBatch, WaitForJob, SwapHandle, HandleWrite, Transmit,
           GatewayAccept, GatewayReject, GatewayShutdown, GatewayDrop, Hangup, connVars
  <1> QED
    BY <1>1, <1>2

LEMMA OwnOrdered ==
    ASSUME TypeOK, Lifecycle, OwnWaiters, Answers, JobConserved, [Next]_vars, faults' = faults, InTurn,
           NEW d \in Conn, Handler(d) \/ Gateway(d)
    PROVE  Ordered(d)'
  <1>0. /\ ~HandleReadErr(d) /\ Chained(d) /\ Ordered(d) /\ SentIsKnown(d)
    BY CalmStep DEF InTurn, Answers, Sound
  <1>1. PICK s, l : s = cache[d] /\ l = Line(d)
    OBVIOUS
  <1>2. /\ s \in Seq(Job) /\ l \in Seq(Job) /\ InOrder(s, l, accepted) /\ IsInjective(s)
        /\ ToSet(l) \subseteq ToSet(s) \cup okd
    BY <1>0, <1>1, LineType, LineKnown DEF Ordered, TypeOK, ConnTypeOK, JobConserved, Known
  <1>3. CASE GatewayAccept(d)
    <2>1. /\ l # <<>> /\ Line(d)' = Tail(l) /\ cache'[d] = s
          /\ accepted' = accepted \cup {Head(l)}
      BY <1>1, <1>3, LineAccept
    <2>2. InOrder(s, Tail(l), accepted \cup {Head(l)})
      BY <1>2, <2>1, OrderAccept
    <2> QED
      BY <2>1, <2>2 DEF Ordered
  <1>4. ASSUME NEW j \in Job, TakeJob(d, j)
        PROVE  Ordered(d)'
    <2>1. /\ Line(d)' = Append(l, j) /\ cache'[d] = Append(s, j)
          /\ accepted' = accepted /\ j \in ToSet(jobs)
      BY <1>1, <1>4, LineTake
    <2>2. j \notin ToSet(s) /\ j \notin okd /\ j \notin accepted
      BY <1>1, <2>1 DEF JobConserved, settled, InTurn
    <2>3. InOrder(Append(s, j), Append(l, j), accepted)
      BY <1>2, <2>2, OrderTake
    <2> QED
      BY <2>1, <2>3 DEF Ordered
  <1>5. CASE ~GatewayAccept(d) /\ \A j \in Job : ~TakeJob(d, j)
    <2>1. Line(d)' = Line(d) /\ accepted' = accepted
      BY <1>5, LineKeeps DEF InTurn
    <2> QED
      BY <1>0, <1>5, <2>1, CacheKeeps, OrderedKeeps
  <1> QED
    BY <1>3, <1>4, <1>5

LEMMA OthersOrdered ==
    ASSUME TypeOK, Answers, JobConserved, NEW d \in Conn, Ordered(d),
           NEW c \in Conn, c # d, Handler(c) \/ Gateway(c)
    PROVE  Ordered(d)'
  <1>1. Line(d)' = Line(d) /\ cache'[d] = cache[d]
    BY OthersKeep DEF Line, Unsent
  <1>2. CASE GatewayAccept(c)
    <2>1. accepted' = accepted \cup {Head(wire[c])} /\ wire[c] # <<>>
      BY <1>2 DEF GatewayAccept
    <2>2. Head(wire[c]) \in Known(c)
      <3>1. ToSet(wire[c]) = {Head(wire[c])} \cup ToSet(Tail(wire[c]))
        BY <2>1, ToSetHeadTail DEF TypeOK, GateTypeOK
      <3>2. ToSet(wire[c]) \subseteq Known(c)
        BY DEF Answers, Sound, SentIsKnown, SentIn
      <3> QED
        BY <3>1, <3>2
    <2>3. Head(wire[c]) \notin ToSet(cache[d])
      BY <2>2 DEF Known, JobConserved, settled
    <2>4. PICK h : h = Head(wire[c])
      OBVIOUS
    <2>5. InOrder(cache[d], Line(d), accepted \cup {h})
      BY <2>3, <2>4, OrderElsewhere DEF Ordered
    <2> QED
      BY <1>1, <2>1, <2>4, <2>5 DEF Ordered
  <1>3. CASE ~GatewayAccept(c)
    <2>1. accepted' = accepted
      BY <1>3 DEF Handler, Gateway, Start, RestartTimer, HandleConnect, HandleHandshake,
              HandleReadErr, OnCheckCache, TakeJob,
              HandleJobAvailable, SendBatch, WaitForJob, SwapHandle, HandleWrite, Transmit,
              GatewayReject, GatewayShutdown, GatewayDrop, Hangup, gateVars
    <2> QED
      BY <1>1, <2>1 DEF Ordered
  <1> QED
    BY <1>2, <1>3

\* The gateway accepts nothing that has not been taken from the queue.
LEMMA TakenFirst ==
    ASSUME TypeOK, Lifecycle, OwnWaiters, Answers, JobConserved, [Next]_vars, faults' = faults, InTurn
    PROVE  /\ accepted' \subseteq posted' \ ToSet(jobs')
           /\ \A c \in Conn : lastDone'[c] \in accepted' \cup {None}
  <1>1. CASE Client \/ UNCHANGED vars
    <2>1. UNCHANGED <<accepted, lastDone>>
      BY <1>1 DEF Client, Notify, Post, vars, gateVars
    <2>2. ASSUME NEW j \in Job, Post(j)
          PROVE  accepted' \subseteq posted' \ ToSet(jobs')
      <3>1. j \notin posted /\ posted' = posted \cup {j} /\ jobs' = Append(jobs, j)
        BY <2>2 DEF Post, PostPush
      <3>2. ToSet(jobs') = ToSet(jobs) \cup {j}
        BY <3>1, ToSetAppend DEF TypeOK, PoolTypeOK
      <3> QED
        BY <2>1, <3>1, <3>2 DEF InTurn
    <2>3. CASE Notify \/ UNCHANGED vars
      <3>1. UNCHANGED <<jobs, posted>>
        BY <2>3 DEF Notify, PostNotify, vars, poolVars
      <3> QED
        BY <2>1, <3>1 DEF InTurn
    <2> QED
      BY <1>1, <2>1, <2>2, <2>3 DEF Client, InTurn
  <1>2. ASSUME NEW d \in Conn, Handler(d) \/ Gateway(d)
        PROVE  /\ accepted' \subseteq posted' \ ToSet(jobs')
               /\ \A c \in Conn : lastDone'[c] \in accepted' \cup {None}
    <2>1. CASE GatewayAccept(d)
      <3>1. /\ accepted' = accepted \cup {Head(wire[d])} /\ wire[d] # <<>>
            /\ lastDone' = [lastDone EXCEPT ![d] = Head(wire[d])]
            /\ UNCHANGED <<jobs, posted>>
        BY <2>1 DEF GatewayAccept, poolVars
      <3>2. Head(wire[d]) \in Known(d)
        <4>1. ToSet(wire[d]) = {Head(wire[d])} \cup ToSet(Tail(wire[d]))
          BY <3>1, ToSetHeadTail DEF TypeOK, GateTypeOK
        <4>2. ToSet(wire[d]) \subseteq Known(d)
          BY DEF Answers, Sound, SentIsKnown, SentIn
        <4> QED
          BY <4>1, <4>2
      <3>3. Head(wire[d]) \in posted \ ToSet(jobs)
        BY <3>2 DEF Known, JobConserved, settled
      <3>4. \A c \in Conn : lastDone'[c] \in {lastDone[c], Head(wire[d])}
        BY <3>1 DEF TypeOK, GateTypeOK
      <3> QED
        BY <3>1, <3>3, <3>4 DEF InTurn
    <2>2. ASSUME NEW j \in Job, TakeJob(d, j)
          PROVE  /\ accepted' \subseteq posted' \ ToSet(jobs')
                 /\ \A c \in Conn : lastDone'[c] \in accepted' \cup {None}
      BY <2>2, LineTake DEF InTurn
    <2>3. CASE ~GatewayAccept(d) /\ \A j \in Job : ~TakeJob(d, j)
      <3>1. UNCHANGED <<accepted, lastDone, jobs, posted>>
        BY <1>2, <2>3, LineKeeps DEF InTurn
      <3> QED
        BY <3>1 DEF InTurn
    <2> QED
      BY <2>1, <2>2, <2>3
  <1> QED
    BY <1>1, <1>2 DEF Next

LEMMA InTurnStep ==
    ASSUME TypeOK, Lifecycle, OwnWaiters, Answers, JobConserved, [Next]_vars, faults' = faults, InTurn
    PROVE  InTurn'
  <1>1. \A c \in Conn : Chained(c)'
    BY ChainedStep DEF InTurn
  <1>2. ASSUME NEW d \in Conn
        PROVE  Ordered(d)'
    <2>1. CASE Client \/ UNCHANGED vars
      <3>1. UNCHANGED <<accepted, wire, batch, writes, cache>>
        BY <2>1 DEF Client, Notify, Post, vars, gateVars, connVars
      <3>2. Line(d)' = Line(d)
        BY <3>1 DEF Line, Unsent
      <3> QED
        BY <3>1, <3>2 DEF InTurn, Ordered
    <2>2. ASSUME NEW c \in Conn, Handler(c) \/ Gateway(c)
          PROVE  Ordered(d)'
      BY <2>2, OwnOrdered, OthersOrdered DEF InTurn
    <2> QED
      BY <2>1, <2>2 DEF Next
  <1> QED
    BY <1>1, <1>2, TakenFirst DEF InTurn

\* Failures are used up one by one.
LEMMA FaultsFall ==
    ASSUME TypeOK, [Next]_vars
    PROVE  faults' = faults \/ faults' = faults - 1
  <1>1. CASE Client \/ UNCHANGED vars
    BY <1>1 DEF Client, Notify, Post, vars, gateVars
  <1>2. ASSUME NEW c \in Conn, Handler(c)
        PROVE  faults' = faults \/ faults' = faults - 1
    BY <1>2 DEF Handler, Start, RestartTimer, HandleConnect, HandleHandshake, Connected, Established,
                Broken, Fault, HandleReadErr, OnCheckCache, TakeJob,
                HandleJobAvailable, SendBatch, WaitForJob, SwapHandle, HandleWrite, gateVars
  <1>3. ASSUME NEW c \in Conn, Gateway(c)
        PROVE  faults' = faults \/ faults' = faults - 1
    BY <1>3 DEF Gateway, Transmit, GatewayAccept, GatewayReject, GatewayShutdown, GatewayDrop,
                Hangup, Fault, gateVars
  <1> QED
    BY <1>1, <1>2, <1>3 DEF Next

Orderly == faults <= MaxFaults /\ (Calm => InTurn)

LEMMA OrderlyInit == Init => Orderly
  <1> SUFFICES ASSUME Init
               PROVE  Orderly
    OBVIOUS
  <1>1. faults = MaxFaults /\ faults <= MaxFaults
    BY FaultAssumption DEF Init
  <1>2. ToSet(<<>>) = {} /\ DOMAIN <<>> = {}
    BY ToSetEmpty
  <1>3. ASSUME NEW c \in Conn
        PROVE  Chained(c) /\ Ordered(c) /\ lastDone[c] = None
    <2>1. /\ waiters = <<>> /\ wake[c] = 0 /\ resp[c].kind = "none" /\ pc[c] = "idle"
          /\ writes[c] = <<>> /\ cache[c] = <<>> /\ lastDone[c] = None
      BY DEF Init, PoolInit, CondInit, NoResp
    <2>2. Mine(c) = {}
      BY <1>2, <2>1 DEF Mine
    <2>3. Chained(c)
      BY <2>1, <2>2 DEF Chained, Asleep
    <2>4. Ordered(c)
      BY <1>2, <2>1 DEF Ordered, InOrder
    <2> QED
      BY <2>1, <2>3, <2>4
  <1>4. accepted = {}
    BY DEF Init
  <1> QED
    BY <1>1, <1>3, <1>4 DEF Orderly, InTurn

LEMMA OrderlyStep ==
    ASSUME TypeOK, Lifecycle, OwnWaiters, Answers, JobConserved, Orderly, [Next]_vars
    PROVE  Orderly'
  <1>1. faults \in Nat /\ MaxFaults \in Nat /\ faults <= MaxFaults
    BY FaultAssumption DEF TypeOK, GateTypeOK, Orderly
  <1>2. CASE faults' = faults
    BY <1>1, <1>2, InTurnStep DEF Orderly, Calm
  <1>3. CASE faults' = faults - 1
    BY <1>1, <1>3 DEF Orderly, Calm
  <1> QED
    BY <1>2, <1>3, FaultsFall

LEMMA OrderlyHolds == Spec => []Orderly
  <1>1. TypeOK /\ Lifecycle /\ OwnWaiters /\ Answers /\ JobConserved /\ [Next]_vars /\ Orderly => Orderly'
    BY OrderlyStep
  <1> QED
    BY <1>1, OrderlyInit, TypeCorrect, LifecycleHolds, OwnWaitersHold, AnswersHold, JobsConserved,
       PTL DEF Spec

-----------------------------------------------------------------------------
\* Around one failure.

\* All in the cache before the request the answer names has been accepted.
Preceded(c) ==
    OneFailure /\ resp[c].kind \in {"error", "shutdown"} =>
        \A i, k \in DOMAIN cache[c] :
            i < k /\ cache[c][k] = resp[c].id => cache[c][i] \in accepted

LEMMA AcceptedGrows ==
    ASSUME [Next]_vars
    PROVE  accepted \subseteq accepted'
  <1>1. CASE Client \/ UNCHANGED vars
    BY <1>1 DEF Client, Notify, Post, vars, gateVars
  <1>2. ASSUME NEW c \in Conn, Handler(c) \/ Gateway(c)
        PROVE  accepted \subseteq accepted'
    BY <1>2 DEF Handler, Gateway, Start, RestartTimer, HandleConnect, HandleHandshake,
                HandleReadErr, OnCheckCache, TakeJob,
                HandleJobAvailable, SendBatch, WaitForJob, SwapHandle, HandleWrite, Transmit,
                GatewayAccept, GatewayReject, GatewayShutdown, GatewayDrop, Hangup, gateVars
  <1> QED
    BY <1>1, <1>2 DEF Next

\* An answer that was there before stays right.
LEMMA PrecededStays ==
    ASSUME TypeOK, Orderly, Answers, JobConserved, [Next]_vars, NEW d \in Conn, Preceded(d),
           resp'[d] = resp[d],
           \/ cache'[d] = cache[d]
           \/ \E k \in 0..Len(cache[d]) : cache'[d] = SubSeq(cache[d], k + 1, Len(cache[d]))
           \/ \E j \in ToSet(jobs) : cache'[d] = Append(cache[d], j)
    PROVE  Preceded(d)'
  <1> SUFFICES ASSUME OneFailure', resp[d].kind \in {"error", "shutdown"},
                      NEW i \in DOMAIN cache'[d], NEW k \in DOMAIN cache'[d],
                      i < k, cache'[d][k] = resp[d].id
               PROVE  cache'[d][i] \in accepted'
    BY DEF Preceded
  <1>1. OneFailure
    BY FaultsFall, FaultAssumption DEF OneFailure, TypeOK, GateTypeOK
  <1>2. PICK s : s = cache[d]
    OBVIOUS
  <1>3. /\ s \in Seq(Job) /\ Len(s) \in Nat /\ DOMAIN s = 1..Len(s)
    BY <1>2, LenProperties DEF TypeOK, ConnTypeOK
  <1>4. \A a, b \in DOMAIN s : a < b /\ s[b] = resp[d].id => s[a] \in accepted
    BY <1>1, <1>2 DEF Preceded
  <1>5. accepted \subseteq accepted'
    BY AcceptedGrows
  <1>6. CASE cache'[d] = s
    BY <1>4, <1>5, <1>6
  <1>7. ASSUME NEW n \in 0..Len(s), cache'[d] = SubSeq(s, n + 1, Len(s))
        PROVE  cache'[d][i] \in accepted'
    <2>1. PICK t : t = cache'[d]
      OBVIOUS
    <2>2. /\ DOMAIN t = 1..(Len(s) - n)
          /\ \A a \in DOMAIN t : n + a \in DOMAIN s /\ t[a] = s[n + a]
      BY <1>3, <1>7, <2>1, SuffixAt
    <2>3. n + i \in DOMAIN s /\ n + k \in DOMAIN s /\ n + i < n + k
      BY <1>3, <2>1, <2>2
    <2> QED
      BY <1>4, <1>5, <2>1, <2>2, <2>3
  <1>8. ASSUME NEW j \in ToSet(jobs), cache'[d] = Append(s, j)
        PROVE  cache'[d][i] \in accepted'
    <2>1. j \in Job
      BY ToSetType DEF TypeOK, PoolTypeOK
    <2>2. j # resp[d].id
      <3>1. resp[d].id \in Known(d) \cup {None}
        BY DEF Answers, Sound, AnswerIsKnown
      <3> QED
        BY <2>1, <3>1, NoneAssumption DEF Known, JobConserved, settled
    <2>3. PICK t : t = Append(s, j)
      OBVIOUS
    <2>4. /\ DOMAIN t = 1..(Len(s) + 1)
          /\ \A a \in 1..Len(s) : t[a] = s[a]
          /\ t[Len(s) + 1] = j
      <3>1. /\ t \in Seq(Job) /\ Len(t) = Len(s) + 1
            /\ \A a \in 1..Len(s) : t[a] = s[a]
            /\ t[Len(s) + 1] = j
        BY <1>3, <2>1, <2>3, AppendProperties
      <3> QED
        BY <3>1, LenProperties
    <2>5. k # Len(s) + 1 /\ k \in 1..(Len(s) + 1) /\ i \in 1..(Len(s) + 1)
      BY <1>8, <2>2, <2>3, <2>4
    <2>6. k \in DOMAIN s /\ i \in DOMAIN s
      BY <1>3, <2>5
    <2> QED
      BY <1>3, <1>4, <1>5, <1>8, <2>3, <2>4, <2>6
  <1> QED
    BY <1>2, <1>6, <1>7, <1>8

\* The answer to the only failure names a request the gateway got in turn.
LEMMA HangupPreceded ==
    ASSUME TypeOK, Orderly, JobConserved, NEW d \in Conn,
           GatewayReject(d) \/ GatewayShutdown(d) \/ GatewayDrop(d)
    PROVE  Preceded(d)'
  <1> SUFFICES ASSUME OneFailure', resp'[d].kind \in {"error", "shutdown"},
                      NEW i \in DOMAIN cache'[d], NEW k \in DOMAIN cache'[d],
                      i < k, cache'[d][k] = resp'[d].id
               PROVE  cache'[d][i] \in accepted'
    BY DEF Preceded
  <1>1. UNCHANGED <<cache, accepted>>
    BY DEF GatewayReject, GatewayShutdown, GatewayDrop, Hangup
  <1>2. Ordered(d) /\ lastDone[d] \in accepted \cup {None}
    <2>1. faults' = faults - 1 /\ faults \in Nat /\ MaxFaults \in Nat
      BY FaultAssumption DEF GatewayReject, GatewayShutdown, GatewayDrop, Hangup, Fault, TypeOK, GateTypeOK
    <2>2. MaxFaults <= faults' + 1 /\ faults <= MaxFaults
      BY DEF OneFailure, Orderly
    <2>3. Calm
      BY <2>1, <2>2 DEF Calm
    <2> QED
      BY <2>3 DEF Orderly, InTurn
  <1>3. PICK s, l : s = cache[d] /\ l = Line(d)
    OBVIOUS
  <1>4. /\ s \in Seq(Job) /\ l \in Seq(Job) /\ InOrder(s, l, accepted) /\ IsInjective(s)
        /\ i \in DOMAIN s /\ k \in DOMAIN s
    BY <1>1, <1>2, <1>3, LineType DEF Ordered, TypeOK, ConnTypeOK, JobConserved
  <1>5. CASE GatewayReject(d)
    <2>1. wire[d] # <<>> /\ resp'[d].id = Head(wire[d])
      BY <1>5 DEF GatewayReject, Hangup, TypeOK, GateTypeOK
    <2>2. PICK w, t : w = wire[d] /\ t = Unsent(d) \o batch[d]
      OBVIOUS
    <2>3. l # <<>> /\ Head(l) = Head(w)
      <3>1. w \in Seq(Job) /\ t \in Seq(Job) /\ w # <<>> /\ l = w \o t
        BY <1>3, <2>1, <2>2, LineType DEF Line
      <3> QED
        BY <3>1, HeadTailConcat
    <2>4. s[k] = Head(l)
      BY <1>1, <1>3, <2>1, <2>2, <2>3
    <2>5. s[i] \in accepted
      BY <1>4, <2>3, <2>4, OrderLead
    <2> QED
      BY <1>1, <1>3, <2>5
  <1>6. CASE GatewayShutdown(d)
    <2>1. resp'[d].id = lastDone[d]
      BY <1>6 DEF GatewayShutdown, Hangup, TypeOK, GateTypeOK
    <2>2. s[k] = lastDone[d]
      BY <1>1, <1>3, <2>1
    <2>3. s[k] # None
      <3>1. s[k] \in Job
        BY <1>4, ElementOfSeq, LenProperties
      <3> QED
        BY <3>1, NoneAssumption
    <2>4. s[k] \in accepted
      BY <1>2, <2>2, <2>3
    <2>5. s[i] \in accepted
      BY <1>4, <2>4 DEF InOrder
    <2> QED
      BY <1>1, <1>3, <2>5
  <1>7. CASE GatewayDrop(d)
    <2>1. resp'[d].kind \in {"eof", "reset"}
      BY <1>7 DEF GatewayDrop, Hangup, TypeOK, GateTypeOK
    <2> QED
      BY <2>1
  <1> QED
    BY <1>5, <1>6, <1>7

LEMMA PrecededStep ==
    ASSUME TypeOK, Orderly, Answers, JobConserved, [Next]_vars, NEW d \in Conn, Preceded(d)
    PROVE  Preceded(d)'
  <1>1. CASE Client \/ UNCHANGED vars
    <2>1. resp'[d] = resp[d] /\ cache'[d] = cache[d]
      BY <1>1 DEF Client, Notify, Post, vars, gateVars, connVars
    <2> QED
      BY <2>1, PrecededStays
  <1>2. ASSUME NEW c \in Conn, Handler(c) \/ Gateway(c), c # d
        PROVE  Preceded(d)'
    <2>1. resp'[d] = resp[d] /\ cache'[d] = cache[d]
      BY <1>2, OthersKeep, OthersStage
    <2> QED
      BY <2>1, PrecededStays
  <1>3. CASE HandleReadErr(d)
    <2>1. resp'[d].kind = "none"
      BY <1>3 DEF HandleReadErr, NoResp, TypeOK, GateTypeOK
    <2> QED
      BY <2>1 DEF Preceded
  <1>4. CASE GatewayReject(d) \/ GatewayShutdown(d) \/ GatewayDrop(d)
    BY <1>4, HangupPreceded
  <1>5. ASSUME NEW j \in Job, TakeJob(d, j)
        PROVE  Preceded(d)'
    <2>1. resp' = resp
      BY <1>5 DEF TakeJob, gateVars
    <2>2. cache'[d] = Append(cache[d], j) /\ j \in ToSet(jobs)
      BY <1>5, LineTake
    <2> QED
      BY <2>1, <2>2, PrecededStays
  <1>6. CASE /\ Handler(d) \/ Gateway(d)
             /\ ~HandleReadErr(d) /\ ~GatewayReject(d) /\ ~GatewayShutdown(d) /\ ~GatewayDrop(d)
             /\ \A j \in Job : ~TakeJob(d, j)
    <2>1. resp' = resp
      BY <1>6 DEF Handler, Gateway, Start, RestartTimer, HandleConnect, HandleHandshake,
                  OnCheckCache, HandleJobAvailable, SendBatch, WaitForJob, SwapHandle, HandleWrite,
                  Transmit, GatewayAccept, gateVars
    <2> QED
      BY <1>6, <2>1, CacheKeeps, PrecededStays
  <1> QED
    BY <1>1, <1>2, <1>3, <1>4, <1>5, <1>6 DEF Next

LEMMA PrecededHolds == Spec => [](\A c \in Conn : Preceded(c))
  <1>1. Init => \A c \in Conn : Preceded(c)
    BY DEF Init, Preceded, NoResp
  <1>2. TypeOK /\ Orderly /\ Answers /\ JobConserved /\ [Next]_vars /\ (\A c \in Conn : Preceded(c))
          => (\A c \in Conn : Preceded(c))'
    BY PrecededStep
  <1> QED
    BY <1>1, <1>2, TypeCorrect, OrderlyHolds, AnswersHold, JobsConserved, PTL DEF Spec

\* Around one failure, whatever the batches, the writes and the other
\* connections do, everything before the request an answer names has been
\* accepted: to report it as sent is right.
THEOREM BeforeAnsweredAlwaysSent == Spec => []BeforeAnsweredWasSent
  <1>1. ASSUME TypeOK, \A c \in Conn : Preceded(c)
        PROVE  BeforeAnsweredWasSent
    <2> SUFFICES ASSUME NEW c \in Conn, OneFailure, resp[c].kind \in {"error", "shutdown"},
                        InCache(c, resp[c].id)
                 PROVE  ToSet(Before(c, resp[c].id)) \subseteq accepted
      BY DEF BeforeAnsweredWasSent
    <2>1. PICK s, p : s = cache[c] /\ p = Position(c, resp[c].id)
      OBVIOUS
    <2>2. s \in Seq(Job) /\ Len(s) \in Nat /\ DOMAIN s = 1..Len(s)
      BY <1>1, <2>1, LenProperties DEF TypeOK, ConnTypeOK
    <2>3. p \in DOMAIN s /\ s[p] = resp[c].id
      <3>1. \E i \in DOMAIN cache[c] : cache[c][i] = resp[c].id
        BY DEF InCache, ToSet
      <3> QED
        BY <2>1, <3>1 DEF Position
    <2>4. ToSet(SubSeq(s, 1, p - 1)) = {s[i] : i \in 1..(p - 1)}
      BY <2>2, <2>3, Segment
    <2>5. \A i \in 1..(p - 1) : i \in DOMAIN s /\ i < p
      BY <2>2, <2>3
    <2>6. \A i \in 1..(p - 1) : s[i] \in accepted
      BY <1>1, <2>1, <2>3, <2>5 DEF Preceded
    <2> QED
      BY <2>1, <2>4, <2>6 DEF Before
  <1> QED
    BY <1>1, TypeCorrect, PrecededHolds, PTL

-----------------------------------------------------------------------------
\* Where a job is between the queue and the gateway: no two places have it.

\* A family of sequences without a repetition in one of them or between two.
Apart(P) ==
    /\ \A x \in DOMAIN P : IsInjective(P[x])
    /\ \A x, y \in DOMAIN P : x # y => ToSet(P[x]) \cap ToSet(P[y]) = {}

Elements(P) == UNION {ToSet(P[x]) : x \in DOMAIN P}

LEMMA FamilyShrinks ==
    ASSUME NEW P, NEW Q, Apart(P), NEW f,
           \A x \in DOMAIN Q : IsInjective(Q[x]),
           \A x \in DOMAIN Q : ToSet(Q[x]) = {} \/ (f[x] \in DOMAIN P /\ ToSet(Q[x]) \subseteq ToSet(P[f[x]])),
           \A x, y \in DOMAIN Q : x # y => f[x] # f[y] \/ ToSet(Q[x]) = {} \/ ToSet(Q[y]) = {}
    PROVE  Apart(Q) /\ Elements(Q) \subseteq Elements(P)
  <1>1. ASSUME NEW x \in DOMAIN Q, NEW y \in DOMAIN Q, x # y
        PROVE  ToSet(Q[x]) \cap ToSet(Q[y]) = {}
    <2>1. CASE ToSet(Q[x]) = {} \/ ToSet(Q[y]) = {}
      BY <2>1
    <2>2. CASE ToSet(Q[x]) # {} /\ ToSet(Q[y]) # {}
      <3>1. /\ f[x] # f[y] /\ f[x] \in DOMAIN P /\ f[y] \in DOMAIN P
            /\ ToSet(Q[x]) \subseteq ToSet(P[f[x]]) /\ ToSet(Q[y]) \subseteq ToSet(P[f[y]])
        BY <1>1, <2>2
      <3>2. ToSet(P[f[x]]) \cap ToSet(P[f[y]]) = {}
        BY <3>1 DEF Apart
      <3> QED
        BY <3>1, <3>2
    <2> QED
      BY <2>1, <2>2
  <1> QED
    BY <1>1 DEF Apart, Elements

\* The head of P[b] moves to the end of P[a].
HeadMoves(P, Q, a, b) ==
    /\ DOMAIN Q = DOMAIN P
    /\ \A x \in DOMAIN P : P[x] \in Seq(Job)
    /\ a \in DOMAIN P /\ b \in DOMAIN P /\ a # b
    /\ P[b] # <<>>
    /\ Q[a] = Append(P[a], Head(P[b]))
    /\ Q[b] = Tail(P[b])
    /\ \A x \in DOMAIN P : x # a /\ x # b => Q[x] = P[x]

LEMMA FamilyMoves ==
    ASSUME NEW P, NEW Q, NEW a, NEW b, Apart(P), HeadMoves(P, Q, a, b)
    PROVE  Apart(Q) /\ Elements(Q) \subseteq Elements(P)
  <1> USE DEF HeadMoves
  <1>1. PICK s, t, h : s = P[a] /\ t = P[b] /\ h = Head(t)
    OBVIOUS
  <1>2. /\ s \in Seq(Job) /\ t \in Seq(Job) /\ t # <<>> /\ IsInjective(s) /\ IsInjective(t)
        /\ ToSet(s) \cap ToSet(t) = {}
    BY <1>1 DEF Apart
  <1>3. /\ h \in Job /\ ToSet(t) = {h} \cup ToSet(Tail(t))
        /\ IsInjective(Tail(t)) /\ h \notin ToSet(Tail(t))
    BY <1>1, <1>2, HeadTailProperties, ToSetHeadTail, InjectiveTail
  <1>4. h \notin ToSet(s)
    BY <1>2, <1>3
  <1>5. /\ ToSet(Append(s, h)) = ToSet(s) \cup {h}
        /\ IsInjective(Append(s, h))
    BY <1>2, <1>3, <1>4, ToSetAppend, InjectiveAppend
  <1>6. PICK u, v : u = Append(s, h) /\ v = Tail(t)
    OBVIOUS
  <1>7. /\ Q[a] = u /\ Q[b] = v
        /\ ToSet(u) = ToSet(s) \cup {h} /\ ToSet(t) = {h} \cup ToSet(v) /\ h \notin ToSet(v)
        /\ IsInjective(u) /\ IsInjective(v)
    BY <1>1, <1>3, <1>5, <1>6
  <1>8. \A x \in DOMAIN Q : IsInjective(Q[x])
    BY <1>7 DEF Apart
  <1>9. ASSUME NEW x \in DOMAIN Q, NEW y \in DOMAIN Q, x # y
        PROVE  ToSet(Q[x]) \cap ToSet(Q[y]) = {}
    <2>1. \A z \in DOMAIN P : z # a /\ z # b =>
             ToSet(P[z]) \cap ToSet(s) = {} /\ ToSet(P[z]) \cap ToSet(t) = {}
      BY <1>1 DEF Apart
    <2>2. ToSet(u) \cap ToSet(v) = {}
      BY <1>2, <1>7
    <2>3. \A z \in DOMAIN P : z # a /\ z # b =>
             ToSet(Q[z]) \cap ToSet(u) = {} /\ ToSet(Q[z]) \cap ToSet(v) = {}
      BY <1>7, <2>1
    <2>4. CASE x \in {a, b} \/ y \in {a, b}
      BY <1>7, <1>9, <2>2, <2>3, <2>4
    <2>5. CASE x \notin {a, b} /\ y \notin {a, b}
      BY <1>9, <2>5 DEF Apart
    <2> QED
      BY <2>4, <2>5
  <1>10. ASSUME NEW x \in DOMAIN Q
         PROVE  ToSet(Q[x]) \subseteq Elements(P)
    <2>1. ToSet(u) \subseteq Elements(P) /\ ToSet(v) \subseteq Elements(P)
      BY <1>1, <1>7 DEF Elements
    <2>2. CASE x \in {a, b}
      BY <1>7, <2>1, <2>2
    <2>3. CASE x \notin {a, b}
      BY <2>3 DEF Elements
    <2> QED
      BY <2>2, <2>3
  <1> QED
    BY <1>8, <1>9, <1>10 DEF Apart, Elements

\* What a write will still bring to the gateway.
Load(w) == IF w.fate = "live" THEN w.jobs ELSE <<>>

Family(w, b, ws) ==
    [x \in {-1, 0} \cup DOMAIN ws |-> IF x = -1 THEN w ELSE IF x = 0 THEN b ELSE Load(ws[x])]

LEMMA FamilyDomain ==
    ASSUME NEW w, NEW b, NEW ws
    PROVE  DOMAIN Family(w, b, ws) = {-1, 0} \cup DOMAIN ws
  BY DEF Family

LEMMA FamilyWrites ==
    ASSUME NEW ws \in Seq(Write)
    PROVE  /\ Len(ws) \in Nat /\ DOMAIN ws = 1..Len(ws)
           /\ \A x \in DOMAIN ws : x \notin {-1, 0} /\ ws[x] \in Write /\ Load(ws[x]) \in Seq(Job)
  <1>1. Len(ws) \in Nat /\ DOMAIN ws = 1..Len(ws) /\ \A x \in DOMAIN ws : ws[x] \in Write
    BY LenProperties, ElementOfSeq
  <1>2. \A x \in DOMAIN ws : Load(ws[x]) \in Seq(Job)
    <2>1. ASSUME NEW x \in DOMAIN ws
          PROVE  Load(ws[x]) \in Seq(Job)
      <3>1. ws[x].jobs \in Seq(Job) /\ <<>> \in Seq(Job)
        BY <1>1 DEF Write
      <3> QED
        BY <3>1 DEF Load
    <2> QED
      BY <2>1
  <1> QED
    BY <1>1, <1>2

LEMMA FamilyAt ==
    ASSUME NEW w \in Seq(Job), NEW b \in Seq(Job), NEW ws \in Seq(Write)
    PROVE  /\ Family(w, b, ws)[-1] = w
           /\ Family(w, b, ws)[0] = b
           /\ \A x \in DOMAIN ws : Family(w, b, ws)[x] = Load(ws[x])
  BY FamilyWrites DEF Family

LEMMA FamilyType ==
    ASSUME NEW w \in Seq(Job), NEW b \in Seq(Job), NEW ws \in Seq(Write)
    PROVE  \A x \in DOMAIN Family(w, b, ws) : Family(w, b, ws)[x] \in Seq(Job)
  <1>1. PICK P : P = Family(w, b, ws)
    OBVIOUS
  <1>2. DOMAIN P = {-1, 0} \cup DOMAIN ws
    BY <1>1, FamilyDomain
  <1>3. P[-1] = w /\ P[0] = b /\ \A x \in DOMAIN ws : P[x] = Load(ws[x])
    BY <1>1, FamilyAt
  <1> QED
    BY <1>1, <1>2, <1>3, FamilyWrites

\* Every write of vs that brings something is one of ws, of its own.
Among(f, vs, ws) ==
    /\ \A x \in DOMAIN vs : vs[x].fate = "live" => f[x] \in DOMAIN ws /\ vs[x] = ws[f[x]]
    /\ \A x, y \in DOMAIN vs : x # y => f[x] # f[y]

LEMMA FamilyDrops ==
    ASSUME NEW w \in Seq(Job), NEW b \in Seq(Job), NEW ws \in Seq(Write), NEW vs \in Seq(Write),
           NEW v \in Seq(Job), IsInjective(v), ToSet(v) \subseteq ToSet(w),
           Apart(Family(w, b, ws)),
           NEW f, Among(f, vs, ws)
    PROVE  /\ Apart(Family(v, b, vs))
           /\ Elements(Family(v, b, vs)) \subseteq Elements(Family(w, b, ws))
  <1>1. PICK P, Q : P = Family(w, b, ws) /\ Q = Family(v, b, vs)
    OBVIOUS
  <1>d. DOMAIN P = {-1, 0} \cup DOMAIN ws /\ DOMAIN Q = {-1, 0} \cup DOMAIN vs
    BY <1>1, FamilyDomain
  <1>p. P[-1] = w /\ P[0] = b /\ \A x \in DOMAIN ws : P[x] = Load(ws[x])
    BY <1>1, FamilyAt
  <1>q. Q[-1] = v /\ Q[0] = b /\ \A x \in DOMAIN vs : Q[x] = Load(vs[x])
    BY <1>1, FamilyAt
  <1>2. /\ DOMAIN P = {-1, 0} \cup DOMAIN ws /\ DOMAIN ws = 1..Len(ws) /\ Len(ws) \in Nat
        /\ P[-1] = w /\ P[0] = b
        /\ \A x \in DOMAIN ws : P[x] = Load(ws[x])
    BY <1>d, <1>p, FamilyWrites
  <1>3. /\ DOMAIN Q = {-1, 0} \cup DOMAIN vs /\ DOMAIN vs = 1..Len(vs) /\ Len(vs) \in Nat
        /\ Q[-1] = v /\ Q[0] = b
        /\ \A x \in DOMAIN vs : Q[x] = Load(vs[x])
    BY <1>d, <1>q, FamilyWrites
  <1>4. PICK g : g = [x \in DOMAIN Q |-> IF x \in {-1, 0} THEN x ELSE IF vs[x].fate = "live" THEN f[x] ELSE -2]
    OBVIOUS
  <1>5. /\ \A x \in {-1, 0} : g[x] = x
        /\ \A x \in DOMAIN vs : vs[x].fate = "live" => g[x] = f[x]
    <2>1. \A x \in DOMAIN vs : x \notin {-1, 0}
      BY <1>3
    <2> QED
      BY <1>3, <1>4, <2>1
  <1>6. \A x \in DOMAIN vs : vs[x].fate = "live" \/ ToSet(Q[x]) = {}
    BY <1>3, ToSetEmpty DEF Load
  <1>7. \A x \in DOMAIN vs : vs[x].fate = "live" => g[x] \in DOMAIN ws /\ Q[x] = P[g[x]]
    BY <1>2, <1>3, <1>5 DEF Among
  <1>8. IsInjective(<<>>)
    BY DEF IsInjective
  <1>9. Apart(P)
    BY <1>1
  <1>10. ASSUME NEW x \in DOMAIN Q
         PROVE  /\ IsInjective(Q[x])
                /\ ToSet(Q[x]) = {} \/ (g[x] \in DOMAIN P /\ ToSet(Q[x]) \subseteq ToSet(P[g[x]]))
    <2>1. CASE x = -1
      BY <1>2, <1>3, <1>5, <2>1
    <2>2. CASE x = 0
      BY <1>2, <1>3, <1>5, <1>9, <2>2 DEF Apart
    <2>3. CASE x \in DOMAIN vs /\ vs[x].fate = "live"
      BY <1>2, <1>7, <1>9, <2>3 DEF Apart
    <2>4. CASE x \in DOMAIN vs /\ vs[x].fate # "live"
      BY <1>3, <1>6, <1>8, <2>4 DEF Load
    <2> QED
      BY <1>3, <2>1, <2>2, <2>3, <2>4
  <1>11. ASSUME NEW x \in DOMAIN Q, NEW y \in DOMAIN Q, x # y
         PROVE  g[x] # g[y] \/ ToSet(Q[x]) = {} \/ ToSet(Q[y]) = {}
    <2>0. \A z \in DOMAIN ws : z \notin {-1, 0}
      BY <1>2
    <2>1. CASE x \in {-1, 0} /\ y \in {-1, 0}
      BY <1>5, <1>11, <2>1
    <2>2. CASE x \in {-1, 0} /\ y \in DOMAIN vs
      BY <1>5, <1>6, <1>7, <2>0, <2>2
    <2>3. CASE x \in DOMAIN vs /\ y \in {-1, 0}
      BY <1>5, <1>6, <1>7, <2>0, <2>3
    <2>4. CASE x \in DOMAIN vs /\ y \in DOMAIN vs
      BY <1>5, <1>6, <1>11, <2>4 DEF Among
    <2> QED
      BY <1>3, <2>1, <2>2, <2>3, <2>4
  <1>12. Apart(Q) /\ Elements(Q) \subseteq Elements(P)
    BY <1>9, <1>10, <1>11, FamilyShrinks
  <1> QED
    BY <1>1, <1>12

LEMMA FamilyAbandon ==
    ASSUME NEW w \in Seq(Job), NEW b \in Seq(Job), NEW ws \in Seq(Write),
           NEW v \in Seq(Job), IsInjective(v), ToSet(v) \subseteq ToSet(w),
           Apart(Family(w, b, ws)), NEW vs \in {ws, Abandon(ws)}
    PROVE  /\ Apart(Family(v, b, vs))
           /\ Elements(Family(v, b, vs)) \subseteq Elements(Family(w, b, ws))
  <1>1. vs \in Seq(Write) /\ DOMAIN vs = DOMAIN ws
    BY AbandonType DEF Abandon
  <1>2. \A x \in DOMAIN vs : vs[x].fate = "live" => vs[x] = ws[x]
    <2>1. CASE vs = ws
      BY <2>1
    <2>2. CASE vs = Abandon(ws)
      BY <1>1, <2>2, AbandonedIsDead DEF ToSet
    <2> QED
      BY <2>1, <2>2
  <1>3. PICK f : f = [x \in DOMAIN vs |-> x]
    OBVIOUS
  <1>4. Among(f, vs, ws)
    BY <1>1, <1>2, <1>3 DEF Among
  <1> QED
    BY <1>1, <1>4, FamilyDrops

LEMMA SkipsOne ==
    ASSUME NEW i \in Int, NEW x \in Int, NEW y \in Int,
           (IF x < i THEN x ELSE x + 1) = (IF y < i THEN y ELSE y + 1)
    PROVE  x = y
  <1>1. CASE x < i /\ y < i
    BY <1>1
  <1>2. CASE x < i /\ ~(y < i)
    <2>1. x = y + 1
      BY <1>2
    <2> QED
      BY <1>2, <2>1
  <1>3. CASE ~(x < i) /\ y < i
    <2>1. x + 1 = y
      BY <1>3
    <2> QED
      BY <1>3, <2>1
  <1>4. CASE ~(x < i) /\ ~(y < i)
    <2>1. x + 1 = y + 1
      BY <1>4
    <2> QED
      BY <2>1
  <1> QED
    BY <1>1, <1>2, <1>3, <1>4

LEMMA FamilyFirst ==
    ASSUME NEW w \in Seq(Job), NEW b \in Seq(Job), NEW ws \in Seq(Write), Apart(Family(w, b, ws))
    PROVE  IsInjective(w)
  <1>1. PICK P : P = Family(w, b, ws)
    OBVIOUS
  <1>2. P[-1] = w
    BY <1>1, FamilyAt
  <1>3. -1 \in DOMAIN P
    BY <1>1, FamilyDomain
  <1> QED
    BY <1>1, <1>2, <1>3 DEF Apart

LEMMA FamilyRemove ==
    ASSUME NEW w \in Seq(Job), NEW b \in Seq(Job), NEW ws \in Seq(Write), NEW i \in DOMAIN ws,
           Apart(Family(w, b, ws))
    PROVE  /\ Apart(Family(w, b, RemoveAt(ws, i)))
           /\ Elements(Family(w, b, RemoveAt(ws, i))) \subseteq Elements(Family(w, b, ws))
  <1>1. PICK vs : vs = RemoveAt(ws, i)
    OBVIOUS
  <1>2. PICK f : f = [x \in DOMAIN vs |-> IF x < i THEN x ELSE x + 1]
    OBVIOUS
  <1>3. /\ vs \in Seq(Write) /\ DOMAIN vs \subseteq Int
        /\ \A x \in DOMAIN vs : f[x] \in DOMAIN ws /\ vs[x] = ws[f[x]]
    BY <1>1, <1>2, RemoveAtMoves
  <1>4. i \in Int
    BY LenProperties
  <1>5. ASSUME NEW x \in DOMAIN vs, NEW y \in DOMAIN vs, f[x] = f[y]
        PROVE  x = y
    <2>1. /\ f[x] = IF x < i THEN x ELSE x + 1
          /\ f[y] = IF y < i THEN y ELSE y + 1
          /\ x \in Int /\ y \in Int
      BY <1>2, <1>3
    <2>2. (IF x < i THEN x ELSE x + 1) = (IF y < i THEN y ELSE y + 1)
      BY <1>5, <2>1
    <2> QED
      BY <1>4, <2>1, <2>2, SkipsOne
  <1>6. IsInjective(w)
    BY FamilyFirst
  <1> QED
    <2>1. Among(f, vs, ws)
      BY <1>3, <1>5 DEF Among
    <2> QED
      BY <1>1, <1>3, <1>6, <2>1, FamilyDrops

\* The first job of the i-th write goes out.
OneSent(ws, vs, i) ==
    /\ i \in DOMAIN ws /\ DOMAIN vs = DOMAIN ws
    /\ ws[i].fate = "live" /\ ws[i].jobs # <<>>
    /\ vs[i].fate = "live" /\ vs[i].jobs = Tail(ws[i].jobs)
    /\ \A x \in DOMAIN ws : x # i => vs[x] = ws[x]

LEMMA FamilyTransmit ==
    ASSUME NEW w \in Seq(Job), NEW b \in Seq(Job), NEW ws \in Seq(Write), NEW vs \in Seq(Write),
           Apart(Family(w, b, ws)), NEW i, OneSent(ws, vs, i)
    PROVE  /\ Apart(Family(Append(w, Head(ws[i].jobs)), b, vs))
           /\ Elements(Family(Append(w, Head(ws[i].jobs)), b, vs)) \subseteq Elements(Family(w, b, ws))
  <1> USE DEF OneSent
  <1>1. PICK t : t = ws[i].jobs
    OBVIOUS
  <1>2. t \in Seq(Job) /\ t # <<>>
    BY <1>1, FamilyWrites DEF Write
  <1>3. PICK u : u = Append(w, Head(t))
    OBVIOUS
  <1>4. u \in Seq(Job)
    BY <1>2, <1>3, HeadTailProperties, AppendProperties
  <1>5. PICK P, Q : P = Family(w, b, ws) /\ Q = Family(u, b, vs)
    OBVIOUS
  <1>6. DOMAIN P = {-1, 0} \cup DOMAIN ws /\ DOMAIN Q = {-1, 0} \cup DOMAIN vs
    BY <1>5, FamilyDomain
  <1>7. P[-1] = w /\ P[0] = b /\ \A x \in DOMAIN ws : P[x] = Load(ws[x])
    BY <1>5, FamilyAt
  <1>8. Q[-1] = u /\ Q[0] = b /\ \A x \in DOMAIN vs : Q[x] = Load(vs[x])
    BY <1>4, <1>5, FamilyAt
  <1>9. \A x \in DOMAIN P : P[x] \in Seq(Job)
    BY <1>5, FamilyType
  <1>10. P[i] = t /\ Q[i] = Tail(t)
    BY <1>1, <1>7, <1>8 DEF Load
  <1>11. -1 # i /\ -1 \in DOMAIN P /\ i \in DOMAIN P /\ DOMAIN Q = DOMAIN P
    BY <1>6, FamilyWrites
  <1>12. \A x \in DOMAIN P : x # -1 /\ x # i => Q[x] = P[x]
    BY <1>6, <1>7, <1>8
  <1>13. Apart(Q) /\ Elements(Q) \subseteq Elements(P)
    <2>1. PICK a : a = -1
      OBVIOUS
    <2>2. /\ a \in DOMAIN P /\ a # i /\ Q[a] = Append(P[a], Head(P[i])) /\ Q[i] = Tail(P[i]) /\ P[i] # <<>>
          /\ \A x \in DOMAIN P : x # a /\ x # i => Q[x] = P[x]
      BY <1>2, <1>3, <1>7, <1>8, <1>10, <1>11, <1>12, <2>1
    <2>3. HeadMoves(P, Q, a, i)
      BY <1>9, <1>11, <2>2 DEF HeadMoves
    <2> QED
      BY <1>5, <2>3, FamilyMoves
  <1> QED
    BY <1>1, <1>3, <1>5, <1>13

\* The batch becomes a write.
LEMMA FamilyHandsOver ==
    ASSUME NEW w \in Seq(Job), NEW b \in Seq(Job), NEW ws \in Seq(Write),
           Apart(Family(w, b, ws)), NEW new \in Write, new.jobs = b
    PROVE  /\ Apart(Family(w, <<>>, Append(ws, new)))
           /\ Elements(Family(w, <<>>, Append(ws, new))) \subseteq Elements(Family(w, b, ws))
  <1>0. <<>> \in Seq(Job) /\ ToSet(<<>>) = {} /\ IsInjective(<<>>)
    BY ToSetEmpty DEF IsInjective
  <1>1. PICK vs : vs = Append(ws, new)
    OBVIOUS
  <1>2. /\ vs \in Seq(Write) /\ Len(vs) = Len(ws) + 1 /\ Len(ws) \in Nat
        /\ DOMAIN vs = 1..(Len(ws) + 1) /\ DOMAIN ws = 1..Len(ws)
        /\ \A x \in 1..Len(ws) : vs[x] = ws[x]
        /\ vs[Len(ws) + 1] = new
    <2>1. /\ vs \in Seq(Write) /\ Len(vs) = Len(ws) + 1
          /\ \A x \in 1..Len(ws) : vs[x] = ws[x]
          /\ vs[Len(ws) + 1] = new
      BY <1>1, AppendProperties
    <2> QED
      BY <2>1, FamilyWrites, LenProperties
  <1>3. PICK n \in Nat : n = Len(ws)
    BY <1>2
  <1>4. PICK P, Q : P = Family(w, b, ws) /\ Q = Family(w, <<>>, vs)
    OBVIOUS
  <1>5. DOMAIN P = {-1, 0} \cup DOMAIN ws /\ DOMAIN Q = {-1, 0} \cup DOMAIN vs
    BY <1>4, FamilyDomain
  <1>6. P[-1] = w /\ P[0] = b /\ \A x \in DOMAIN ws : P[x] = Load(ws[x])
    BY <1>4, FamilyAt
  <1>7. Q[-1] = w /\ Q[0] = <<>> /\ \A x \in DOMAIN vs : Q[x] = Load(vs[x])
    <2>1. PICK e : e = <<>>
      OBVIOUS
    <2>2. e \in Seq(Job) /\ Q = Family(w, e, vs)
      BY <1>0, <1>4, <2>1
    <2>3. Q[-1] = w /\ Q[0] = e /\ \A x \in DOMAIN vs : Q[x] = Load(vs[x])
      BY <1>2, <2>2, FamilyAt
    <2> QED
      BY <2>1, <2>3
  <1>8. \A x \in DOMAIN Q : x = n + 1 \/ x = 0 \/ (x # n + 1 /\ x # 0 /\ x \in DOMAIN P /\ Q[x] = P[x])
    BY <1>2, <1>3, <1>5, <1>6, <1>7
  <1>9. Q[n + 1] = b \/ Q[n + 1] = <<>>
    BY <1>2, <1>3, <1>7 DEF Load
  <1>10. Apart(P) /\ 0 \in DOMAIN P /\ n + 1 # 0
    BY <1>4, <1>5
  <1>11. PICK f : f = [x \in DOMAIN Q |-> IF x = n + 1 THEN 0 ELSE x]
    OBVIOUS
  <1>12. ASSUME NEW x \in DOMAIN Q
         PROVE  /\ IsInjective(Q[x])
                /\ ToSet(Q[x]) = {} \/ (f[x] \in DOMAIN P /\ ToSet(Q[x]) \subseteq ToSet(P[f[x]]))
    <2>1. CASE x = n + 1
      BY <1>0, <1>6, <1>9, <1>10, <1>11, <2>1 DEF Apart
    <2>2. CASE x = 0
      BY <1>0, <1>7, <2>2
    <2>3. CASE x # n + 1 /\ x # 0 /\ x \in DOMAIN P /\ Q[x] = P[x]
      BY <1>10, <1>11, <2>3 DEF Apart
    <2> QED
      BY <1>8, <2>1, <2>2, <2>3
  <1>13. ASSUME NEW x \in DOMAIN Q, NEW y \in DOMAIN Q, x # y
         PROVE  f[x] # f[y] \/ ToSet(Q[x]) = {} \/ ToSet(Q[y]) = {}
    <2>1. CASE x = 0 \/ y = 0
      BY <1>0, <1>7, <2>1
    <2>2. CASE x # 0 /\ y # 0
      BY <1>11, <1>13, <2>2
    <2> QED
      BY <2>1, <2>2
  <1>14. Apart(Q) /\ Elements(Q) \subseteq Elements(P)
    BY <1>10, <1>12, <1>13, FamilyShrinks
  <1> QED
    BY <1>1, <1>4, <1>14

\* The first job of the batch goes out at once.
LEMMA FamilySends ==
    ASSUME NEW w \in Seq(Job), NEW b \in Seq(Job), NEW ws \in Seq(Write),
           Apart(Family(w, b, ws)), b # <<>>
    PROVE  /\ Apart(Family(Append(w, Head(b)), Tail(b), ws))
           /\ Elements(Family(Append(w, Head(b)), Tail(b), ws)) \subseteq Elements(Family(w, b, ws))
  <1>1. PICK u, t : u = Append(w, Head(b)) /\ t = Tail(b)
    OBVIOUS
  <1>2. u \in Seq(Job) /\ t \in Seq(Job)
    BY <1>1, HeadTailProperties, AppendProperties
  <1>3. PICK P, Q : P = Family(w, b, ws) /\ Q = Family(u, t, ws)
    OBVIOUS
  <1>4. DOMAIN P = {-1, 0} \cup DOMAIN ws /\ DOMAIN Q = {-1, 0} \cup DOMAIN ws
    BY <1>3, FamilyDomain
  <1>5. P[-1] = w /\ P[0] = b /\ \A x \in DOMAIN ws : P[x] = Load(ws[x])
    BY <1>3, FamilyAt
  <1>6. Q[-1] = u /\ Q[0] = t /\ \A x \in DOMAIN ws : Q[x] = Load(ws[x])
    BY <1>2, <1>3, FamilyAt
  <1>7. \A x \in DOMAIN P : P[x] \in Seq(Job)
    BY <1>3, FamilyType
  <1>8. PICK a : a = -1
    OBVIOUS
  <1>9. /\ a \in DOMAIN P /\ 0 \in DOMAIN P /\ a # 0 /\ DOMAIN Q = DOMAIN P /\ P[0] # <<>>
        /\ Q[a] = Append(P[a], Head(P[0])) /\ Q[0] = Tail(P[0])
        /\ \A x \in DOMAIN P : x # a /\ x # 0 => Q[x] = P[x]
    BY <1>1, <1>4, <1>5, <1>6, <1>8
  <1>10. HeadMoves(P, Q, a, 0)
    BY <1>7, <1>9 DEF HeadMoves
  <1>11. Apart(Q) /\ Elements(Q) \subseteq Elements(P)
    BY <1>3, <1>10, FamilyMoves
  <1> QED
    BY <1>1, <1>3, <1>11

LEMMA FamilyAccepts ==
    ASSUME NEW w \in Seq(Job), NEW b \in Seq(Job), NEW ws \in Seq(Write),
           Apart(Family(w, b, ws)), w # <<>>
    PROVE  /\ Apart(Family(Tail(w), b, ws))
           /\ Elements(Family(Tail(w), b, ws)) \subseteq Elements(Family(w, b, ws)) \ {Head(w)}
  <1>1. PICK P, h, t : P = Family(w, b, ws) /\ h = Head(w) /\ t = Tail(w)
    OBVIOUS
  <1>2. DOMAIN P = {-1, 0} \cup DOMAIN ws /\ Apart(P)
    BY <1>1, FamilyDomain
  <1>3. P[-1] = w /\ P[0] = b /\ \A x \in DOMAIN ws : P[x] = Load(ws[x])
    BY <1>1, FamilyAt
  <1>4. IsInjective(w)
    BY <1>2, <1>3 DEF Apart
  <1>5. /\ t \in Seq(Job) /\ IsInjective(t) /\ h \notin ToSet(t) /\ ToSet(w) = {h} \cup ToSet(t)
    BY <1>1, <1>4, HeadTailProperties, ToSetHeadTail, InjectiveTail
  <1>6. PICK Q : Q = Family(t, b, ws)
    OBVIOUS
  <1>7. ws \in {ws, Abandon(ws)} /\ ToSet(t) \subseteq ToSet(w)
    BY <1>5
  <1>8. Apart(Q) /\ Elements(Q) \subseteq Elements(P)
    BY <1>1, <1>5, <1>6, <1>7, FamilyAbandon
  <1>9. DOMAIN Q = {-1, 0} \cup DOMAIN ws
    BY <1>6, FamilyDomain
  <1>10. Q[-1] = t /\ Q[0] = b /\ \A x \in DOMAIN ws : Q[x] = Load(ws[x])
    BY <1>5, <1>6, FamilyAt
  <1>11. ASSUME NEW x \in DOMAIN Q
         PROVE  h \notin ToSet(Q[x])
    <2>1. CASE x = -1
      BY <1>5, <1>10, <2>1
    <2>2. CASE x # -1
      <3>1. Q[x] = P[x] /\ x \in DOMAIN P /\ -1 \in DOMAIN P
        BY <1>2, <1>3, <1>9, <1>10, <2>2
      <3>2. ToSet(P[x]) \cap ToSet(P[-1]) = {}
        BY <1>2, <2>2, <3>1 DEF Apart
      <3> QED
        BY <1>3, <1>5, <3>1, <3>2
    <2> QED
      BY <2>1, <2>2
  <1> QED
    BY <1>1, <1>6, <1>8, <1>11 DEF Elements

LEMMA FamilyTakes ==
    ASSUME NEW w \in Seq(Job), NEW b \in Seq(Job), NEW ws \in Seq(Write),
           Apart(Family(w, b, ws)), NEW j \in Job, j \notin Elements(Family(w, b, ws))
    PROVE  /\ Apart(Family(w, Append(b, j), ws))
           /\ Elements(Family(w, Append(b, j), ws)) \subseteq Elements(Family(w, b, ws)) \cup {j}
  <1>1. PICK P, a : P = Family(w, b, ws) /\ a = Append(b, j)
    OBVIOUS
  <1>2. DOMAIN P = {-1, 0} \cup DOMAIN ws /\ Apart(P) /\ j \notin Elements(P)
    BY <1>1, FamilyDomain
  <1>3. P[-1] = w /\ P[0] = b /\ \A x \in DOMAIN ws : P[x] = Load(ws[x])
    BY <1>1, FamilyAt
  <1>4. IsInjective(b) /\ j \notin ToSet(b)
    BY <1>2, <1>3 DEF Apart, Elements
  <1>5. a \in Seq(Job) /\ IsInjective(a) /\ ToSet(a) = ToSet(b) \cup {j}
    BY <1>1, <1>4, AppendProperties, InjectiveAppend, ToSetAppend
  <1>6. PICK Q : Q = Family(w, a, ws)
    OBVIOUS
  <1>7. DOMAIN Q = DOMAIN P
    BY <1>2, <1>6, FamilyDomain
  <1>8. Q[-1] = w /\ Q[0] = a /\ \A x \in DOMAIN ws : Q[x] = Load(ws[x])
    BY <1>5, <1>6, FamilyAt
  <1>9. \A x \in DOMAIN Q : x = 0 \/ Q[x] = P[x]
    BY <1>2, <1>3, <1>7, <1>8
  <1>10. \A x \in DOMAIN P : j \notin ToSet(P[x])
    BY <1>2 DEF Elements
  <1>11. \A x \in DOMAIN Q : IsInjective(Q[x])
    BY <1>2, <1>5, <1>7, <1>8, <1>9 DEF Apart
  <1>12. ASSUME NEW x \in DOMAIN Q, NEW y \in DOMAIN Q, x # y
         PROVE  ToSet(Q[x]) \cap ToSet(Q[y]) = {}
    <2>1. \A z \in DOMAIN P : z # 0 => ToSet(P[z]) \cap ToSet(a) = {}
      <3>1. \A z \in DOMAIN P : z # 0 => ToSet(P[z]) \cap ToSet(b) = {}
        BY <1>2, <1>3 DEF Apart
      <3> QED
        BY <1>5, <1>10, <3>1
    <2>2. CASE x = 0
      BY <1>7, <1>8, <1>9, <1>12, <2>1, <2>2
    <2>3. CASE y = 0
      BY <1>7, <1>8, <1>9, <1>12, <2>1, <2>3
    <2>4. CASE x # 0 /\ y # 0
      BY <1>2, <1>7, <1>9, <1>12, <2>4 DEF Apart
    <2> QED
      BY <2>2, <2>3, <2>4
  <1>13. ASSUME NEW x \in DOMAIN Q
         PROVE  ToSet(Q[x]) \subseteq Elements(P) \cup {j}
    <2>1. CASE x = 0
      <3>1. 0 \in DOMAIN P /\ ToSet(b) \subseteq Elements(P)
        BY <1>2, <1>3 DEF Elements
      <3> QED
        BY <1>5, <1>8, <2>1, <3>1
    <2>2. CASE x # 0
      BY <1>7, <1>9, <2>2 DEF Elements
    <2> QED
      BY <2>1, <2>2
  <1>14. Apart(Q) /\ Elements(Q) \subseteq Elements(P) \cup {j}
    BY <1>11, <1>12, <1>13 DEF Apart, Elements
  <1> QED
    BY <1>1, <1>6, <1>14

Fam(c)   == Family(wire[c], batch[c], writes[c])
OnWay(c) == Elements(Fam(c))

\* No job is on its way twice.
Once == \A c, d \in Conn : Apart(Fam(c)) /\ (c # d => OnWay(c) \cap OnWay(d) = {})

LEMMA FamParts ==
    ASSUME TypeOK, NEW c \in Conn
    PROVE  wire[c] \in Seq(Job) /\ batch[c] \in Seq(Job) /\ writes[c] \in Seq(Write)
  BY DEF TypeOK, ConnTypeOK, GateTypeOK

LEMMA SentOnWay ==
    ASSUME TypeOK, NEW c \in Conn, NEW K, SentIn(c, K)
    PROVE  OnWay(c) \subseteq K
  <1>1. PICK P : P = Fam(c)
    OBVIOUS
  <1>2. DOMAIN P = {-1, 0} \cup DOMAIN writes[c]
    BY <1>1, FamilyDomain DEF Fam
  <1>3. P[-1] = wire[c] /\ P[0] = batch[c] /\ \A x \in DOMAIN writes[c] : P[x] = Load(writes[c][x])
    BY <1>1, FamParts, FamilyAt DEF Fam
  <1>4. ASSUME NEW x \in DOMAIN P
        PROVE  ToSet(P[x]) \subseteq K
    <2>1. CASE x \in {-1, 0}
      BY <1>3, <2>1 DEF SentIn
    <2>2. CASE x \in DOMAIN writes[c]
      <3>1. writes[c][x] \in ToSet(writes[c])
        BY <2>2 DEF ToSet
      <3> QED
        BY <1>3, <2>2, <3>1, ToSetEmpty DEF SentIn, Load
    <2> QED
      BY <1>2, <2>1, <2>2
  <1> QED
    BY <1>1, <1>4 DEF OnWay, Elements

LEMMA WireOnWay ==
    ASSUME TypeOK, NEW c \in Conn
    PROVE  /\ ToSet(wire[c]) \subseteq OnWay(c)
           /\ ToSet(batch[c]) \subseteq OnWay(c)
           /\ \A x \in DOMAIN writes[c] : ToSet(Load(writes[c][x])) \subseteq OnWay(c)
  <1>1. PICK P : P = Fam(c)
    OBVIOUS
  <1>2. DOMAIN P = {-1, 0} \cup DOMAIN writes[c]
    BY <1>1, FamilyDomain DEF Fam
  <1>3. P[-1] = wire[c] /\ P[0] = batch[c] /\ \A x \in DOMAIN writes[c] : P[x] = Load(writes[c][x])
    BY <1>1, FamParts, FamilyAt DEF Fam
  <1>4. \A x \in DOMAIN P : ToSet(P[x]) \subseteq OnWay(c)
    BY <1>1 DEF OnWay, Elements
  <1> QED
    BY <1>2, <1>3, <1>4

LEMMA OthersOnWay ==
    ASSUME TypeOK, NEW c \in Conn, Handler(c) \/ Gateway(c), NEW d \in Conn, d # c
    PROVE  Fam(d)' = Fam(d) /\ OnWay(d)' = OnWay(d)
  <1>1. wire'[d] = wire[d] /\ batch'[d] = batch[d] /\ writes'[d] = writes[d]
    BY OthersKeep
  <1> QED
    BY <1>1 DEF Fam, OnWay

\* Sending brings the first of the batch to the gateway, and the rest to a write.
LEMMA SendOnWay ==
    ASSUME TypeOK, NEW d \in Conn, Apart(Fam(d)), Send(d)
    PROVE  Apart(Fam(d))' /\ OnWay(d)' \subseteq OnWay(d)
  <1>1. PICK w, b, ws : w = wire[d] /\ b = batch[d] /\ ws = writes[d]
    OBVIOUS
  <1>2. w \in Seq(Job) /\ b \in Seq(Job) /\ ws \in Seq(Write) /\ b # <<>> /\ Apart(Family(w, b, ws))
    BY <1>1, FamParts DEF Fam, Send
  <1>3. batch'[d] = <<>>
    BY DEF Send, TypeOK, ConnTypeOK
  <1>4. Tail(b) \in Seq(Job) /\ Append(w, Head(b)) \in Seq(Job)
    BY <1>2, HeadTailProperties, AppendProperties
  <1>5. PICK f \in FateOn(sock[d]) :
           writes'[d] = Append(ws, [jobs |-> IF sock[d] = "open" THEN Tail(b) ELSE b, fate |-> f])
    BY <1>1 DEF Send, StartWrite, WriteOn, TypeOK, ConnTypeOK
  <1>6. f \in Fate
    BY DEF FateOn, Fate, TypeOK, ConnTypeOK, SockState
  <1>7. CASE sock[d] = "open"
    <2>1. PICK u, t, new : u = Append(w, Head(b)) /\ t = Tail(b) /\ new = [jobs |-> Tail(b), fate |-> f]
      OBVIOUS
    <2>2. wire'[d] = u /\ writes'[d] = Append(ws, new)
      BY <1>1, <1>5, <1>7, <2>1 DEF Send, StartWrite, WriteOn, TypeOK, GateTypeOK
    <2>3. new \in Write /\ new.jobs = t /\ u \in Seq(Job) /\ t \in Seq(Job)
      BY <1>4, <1>6, <2>1 DEF Write
    <2>4. /\ Apart(Family(u, t, ws))
          /\ Elements(Family(u, t, ws)) \subseteq Elements(Family(w, b, ws))
      BY <1>2, <2>1, FamilySends
    <2>5. /\ Apart(Family(u, <<>>, Append(ws, new)))
          /\ Elements(Family(u, <<>>, Append(ws, new))) \subseteq Elements(Family(u, t, ws))
      BY <1>2, <2>3, <2>4, FamilyHandsOver
    <2> QED
      BY <1>1, <1>3, <2>2, <2>4, <2>5 DEF Fam, OnWay
  <1>8. CASE sock[d] # "open"
    <2>1. PICK new : new = [jobs |-> b, fate |-> f]
      OBVIOUS
    <2>2. wire'[d] = w /\ writes'[d] = Append(ws, new)
      BY <1>1, <1>5, <1>8, <2>1 DEF Send, StartWrite, WriteOn, TypeOK, GateTypeOK
    <2>3. new \in Write /\ new.jobs = b
      BY <1>2, <1>6, <2>1 DEF Write
    <2>4. /\ Apart(Family(w, <<>>, Append(ws, new)))
          /\ Elements(Family(w, <<>>, Append(ws, new))) \subseteq Elements(Family(w, b, ws))
      BY <1>2, <2>3, FamilyHandsOver
    <2> QED
      BY <1>1, <1>3, <2>2, <2>4 DEF Fam, OnWay
  <1> QED
    BY <1>7, <1>8

LEMMA TransmitOnWay ==
    ASSUME TypeOK, [Next]_vars, NEW d \in Conn, Apart(Fam(d)), NEW i \in DOMAIN writes[d], Transmit(d, i)
    PROVE  Apart(Fam(d))' /\ OnWay(d)' \subseteq OnWay(d)
  <1>1. PICK w, b, ws, vs : w = wire[d] /\ b = batch[d] /\ ws = writes[d] /\ vs = writes'[d]
    OBVIOUS
  <1>2. w \in Seq(Job) /\ b \in Seq(Job) /\ ws \in Seq(Write) /\ Apart(Family(w, b, ws)) /\ i \in DOMAIN ws
    BY <1>1, FamParts DEF Fam
  <1>3. vs \in Seq(Write)
    BY <1>1, TypeStep DEF TypeOK, ConnTypeOK
  <1>4. /\ ws[i].fate = "live" /\ ws[i].jobs # <<>>
        /\ vs = [ws EXCEPT ![i].jobs = Tail(@)]
        /\ wire'[d] = Append(w, Head(ws[i].jobs)) /\ batch'[d] = b
    BY <1>1 DEF Transmit, TypeOK, ConnTypeOK, GateTypeOK
  <1>5. ws[i] \in Write
    BY <1>2, FamilyWrites
  <1>6. /\ DOMAIN vs = DOMAIN ws /\ \A x \in DOMAIN ws : x # i => vs[x] = ws[x]
        /\ vs[i].fate = "live" /\ vs[i].jobs = Tail(ws[i].jobs)
    BY <1>2, <1>4, <1>5 DEF Write
  <1>7. PICK u : u = Append(w, Head(ws[i].jobs))
    OBVIOUS
  <1>8. OneSent(ws, vs, i)
    BY <1>2, <1>4, <1>6 DEF OneSent
  <1>9. Apart(Family(u, b, vs)) /\ Elements(Family(u, b, vs)) \subseteq Elements(Family(w, b, ws))
    BY <1>2, <1>3, <1>7, <1>8, FamilyTransmit
  <1> QED
    BY <1>1, <1>4, <1>7, <1>9 DEF Fam, OnWay

\* What the gateway accepts is not on its way any more.
LEMMA AcceptOnWay ==
    ASSUME TypeOK, NEW d \in Conn, Apart(Fam(d)), GatewayAccept(d)
    PROVE  /\ Apart(Fam(d))' /\ OnWay(d)' \subseteq OnWay(d) \ {Head(wire[d])}
           /\ Head(wire[d]) \in OnWay(d)
  <1>1. PICK w, b, ws : w = wire[d] /\ b = batch[d] /\ ws = writes[d]
    OBVIOUS
  <1>2. w \in Seq(Job) /\ b \in Seq(Job) /\ ws \in Seq(Write) /\ Apart(Family(w, b, ws)) /\ w # <<>>
    BY <1>1, FamParts DEF Fam, GatewayAccept
  <1>3. wire'[d] = Tail(w) /\ batch'[d] = b /\ writes'[d] = ws
    BY <1>1 DEF GatewayAccept, connVars, TypeOK, GateTypeOK
  <1>4. /\ Apart(Family(Tail(w), b, ws))
        /\ Elements(Family(Tail(w), b, ws)) \subseteq Elements(Family(w, b, ws)) \ {Head(w)}
    BY <1>2, FamilyAccepts
  <1>5. Head(w) \in OnWay(d)
    <2>1. ToSet(w) = {Head(w)} \cup ToSet(Tail(w))
      BY <1>2, ToSetHeadTail
    <2> QED
      BY <1>1, <2>1, WireOnWay
  <1> QED
    BY <1>1, <1>3, <1>4, <1>5 DEF Fam, OnWay

LEMMA TakeOnWay ==
    ASSUME TypeOK, NEW d \in Conn, Apart(Fam(d)), NEW j \in Job, TakeJob(d, j), j \notin OnWay(d)
    PROVE  Apart(Fam(d))' /\ OnWay(d)' \subseteq OnWay(d) \cup {j}
  <1>1. PICK w, b, ws : w = wire[d] /\ b = batch[d] /\ ws = writes[d]
    OBVIOUS
  <1>2. /\ w \in Seq(Job) /\ b \in Seq(Job) /\ ws \in Seq(Write)
        /\ Apart(Family(w, b, ws)) /\ j \notin Elements(Family(w, b, ws))
    BY <1>1, FamParts DEF Fam, OnWay
  <1>3. wire'[d] = w /\ batch'[d] = Append(b, j) /\ writes'[d] = ws
    BY <1>1 DEF TakeJob, gateVars, TypeOK, ConnTypeOK
  <1>4. /\ Apart(Family(w, Append(b, j), ws))
        /\ Elements(Family(w, Append(b, j), ws)) \subseteq Elements(Family(w, b, ws)) \cup {j}
    BY <1>2, FamilyTakes
  <1> QED
    BY <1>1, <1>3, <1>4 DEF Fam, OnWay

LEMMA AbandonOnWay ==
    ASSUME TypeOK, NEW d \in Conn, Apart(Fam(d)),
           wire'[d] \in {wire[d], <<>>}, batch'[d] = batch[d],
           writes'[d] \in {writes[d], Abandon(writes[d])}
    PROVE  Apart(Fam(d))' /\ OnWay(d)' \subseteq OnWay(d)
  <1>1. PICK w, b, ws, v, vs :
           w = wire[d] /\ b = batch[d] /\ ws = writes[d] /\ v = wire'[d] /\ vs = writes'[d]
    OBVIOUS
  <1>2. w \in Seq(Job) /\ b \in Seq(Job) /\ ws \in Seq(Write) /\ Apart(Family(w, b, ws))
    BY <1>1, FamParts DEF Fam
  <1>3. IsInjective(w)
    BY <1>2, FamilyFirst
  <1>4. IsInjective(<<>>) /\ ToSet(<<>>) = {} /\ <<>> \in Seq(Job)
    BY ToSetEmpty DEF IsInjective
  <1>5. v \in Seq(Job) /\ IsInjective(v) /\ ToSet(v) \subseteq ToSet(w) /\ vs \in {ws, Abandon(ws)}
    BY <1>1, <1>2, <1>3, <1>4
  <1>6. Apart(Family(v, b, vs)) /\ Elements(Family(v, b, vs)) \subseteq Elements(Family(w, b, ws))
    BY <1>2, <1>5, FamilyAbandon
  <1> QED
    BY <1>1, <1>6 DEF Fam, OnWay

LEMMA OwnOnWay ==
    ASSUME TypeOK, [Next]_vars, NEW d \in Conn, Apart(Fam(d)), Handler(d) \/ Gateway(d),
           \A j \in Job : ~TakeJob(d, j)
    PROVE  Apart(Fam(d))' /\ OnWay(d)' \subseteq OnWay(d)
  <1>1. CASE \/ Start(d) \/ RestartTimer(d) \/ HandleConnect(d) \/ HandleHandshake(d)
             \/ HandleReadErr(d)
    <2>1. /\ UNCHANGED <<batch, wire>>
          /\ writes'[d] \in {writes[d], Abandon(writes[d])}
      BY <1>1, LifecycleWrites
    <2> QED
      BY <2>1, AbandonOnWay
  <1>2. CASE \/ HandleJobAvailable(d) \/ WaitForJob(d) \/ SwapHandle(d)
             \/ (SendBatch(d) /\ NothingToSend(d))
             \/ \E k \in 0..Len(cache[d]) : OnCheckCache(d, k)
    <2>1. UNCHANGED <<wire, batch, writes>>
      BY <1>2 DEF HandleJobAvailable, WaitForJob, SwapHandle, NothingToSend, OnCheckCache, gateVars
    <2> QED
      BY <2>1, AbandonOnWay
  <1>3. CASE GatewayReject(d) \/ GatewayShutdown(d) \/ GatewayDrop(d)
    <2>1. /\ wire'[d] = <<>> /\ writes'[d] = Abandon(writes[d]) /\ batch' = batch
      BY <1>3 DEF GatewayReject, GatewayShutdown, GatewayDrop, Hangup, TypeOK, ConnTypeOK, GateTypeOK
    <2> QED
      BY <2>1, AbandonOnWay
  <1>4. CASE SendBatch(d) /\ Send(d)
    BY <1>4, SendOnWay
  <1>5. CASE GatewayAccept(d)
    BY <1>5, AcceptOnWay
  <1>6. ASSUME NEW i \in DOMAIN writes[d], Transmit(d, i)
        PROVE  Apart(Fam(d))' /\ OnWay(d)' \subseteq OnWay(d)
    BY <1>6, TransmitOnWay
  <1>7. ASSUME NEW i \in DOMAIN writes[d], HandleWrite(d, i)
        PROVE  Apart(Fam(d))' /\ OnWay(d)' \subseteq OnWay(d)
    <2>1. UNCHANGED <<wire, batch>> /\ writes'[d] = RemoveAt(writes[d], i)
      BY <1>7 DEF HandleWrite, gateVars, TypeOK, ConnTypeOK
    <2>2. PICK w, b, ws : w = wire[d] /\ b = batch[d] /\ ws = writes[d]
      OBVIOUS
    <2>3. w \in Seq(Job) /\ b \in Seq(Job) /\ ws \in Seq(Write) /\ Apart(Family(w, b, ws)) /\ i \in DOMAIN ws
      BY <2>2, FamParts DEF Fam
    <2>4. /\ Apart(Family(w, b, RemoveAt(ws, i)))
          /\ Elements(Family(w, b, RemoveAt(ws, i))) \subseteq Elements(Family(w, b, ws))
      BY <2>3, FamilyRemove
    <2> QED
      BY <2>1, <2>2, <2>4 DEF Fam, OnWay
  <1> QED
    BY <1>1, <1>2, <1>3, <1>4, <1>5, <1>6, <1>7 DEF Handler, Gateway, SendBatch

LEMMA OnWayKnown ==
    ASSUME TypeOK, Answers, NEW c \in Conn
    PROVE  OnWay(c) \subseteq Known(c)
  BY SentOnWay DEF Answers, Sound, SentIsKnown

\* What is in the queue is on no connection's way, and what is in its cache on
\* no other's.
LEMMA QueuedNotOnWay ==
    ASSUME TypeOK, Answers, JobConserved, NEW c \in Conn
    PROVE  /\ OnWay(c) \cap ToSet(jobs) = {}
           /\ OnWay(c) \subseteq posted
           /\ \A d \in Conn : d # c => OnWay(c) \cap ToSet(cache[d]) = {}
  BY OnWayKnown DEF JobConserved, Known, settled

LEMMA OnWayMoves ==
    ASSUME TypeOK, Answers, JobConserved, Once, [Next]_vars, NEW d \in Conn
    PROVE  /\ Apart(Fam(d))'
           /\ \/ OnWay(d)' \subseteq OnWay(d)
              \/ \E j \in ToSet(jobs) : /\ TakeJob(d, j)
                                        /\ OnWay(d)' \subseteq OnWay(d) \cup {j}
  <1>1. Apart(Fam(d))
    BY DEF Once
  <1>2. CASE Client \/ UNCHANGED vars
    <2>1. UNCHANGED <<wire, batch, writes>>
      BY <1>2 DEF Client, Notify, Post, vars, gateVars, connVars
    <2> QED
      BY <1>1, <2>1 DEF Fam, OnWay
  <1>3. ASSUME NEW c \in Conn, c # d, Handler(c) \/ Gateway(c)
        PROVE  Apart(Fam(d))' /\ OnWay(d)' \subseteq OnWay(d)
    <2>1. Fam(d)' = Fam(d) /\ OnWay(d)' = OnWay(d)
      BY <1>3, OthersOnWay
    <2> QED
      BY <1>1, <2>1
  <1>4. ASSUME NEW j \in Job, TakeJob(d, j)
        PROVE  Apart(Fam(d))' /\ j \in ToSet(jobs) /\ OnWay(d)' \subseteq OnWay(d) \cup {j}
    <2>1. j \in ToSet(jobs)
      BY <1>4, LineTake
    <2>2. j \notin OnWay(d)
      BY <2>1, QueuedNotOnWay
    <2> QED
      BY <1>1, <1>4, <2>1, <2>2, TakeOnWay
  <1>5. CASE (Handler(d) \/ Gateway(d)) /\ \A j \in Job : ~TakeJob(d, j)
    BY <1>1, <1>5, OwnOnWay
  <1> QED
    BY <1>2, <1>3, <1>4, <1>5 DEF Next

LEMMA OnceStep ==
    ASSUME TypeOK, Answers, JobConserved, Once, [Next]_vars
    PROVE  Once'
  <1>1. \A d \in Conn : Apart(Fam(d))'
    BY OnWayMoves
  <1>2. ASSUME NEW c \in Conn, NEW d \in Conn, c # d, NEW j \in ToSet(jobs), TakeJob(c, j)
        PROVE  OnWay(c)' \cap OnWay(d)' = {}
    <2>1. Handler(c)
      <3>1. j \in Job
        BY <1>2, ToSetType DEF TypeOK, PoolTypeOK
      <3> QED
        BY <1>2, <3>1 DEF Handler
    <2>2. OnWay(d)' = OnWay(d)
      BY <1>2, <2>1, OthersOnWay
    <2>3. OnWay(c)' \subseteq OnWay(c) \cup {j}
      <3>1. j \in Job /\ j \notin OnWay(c) /\ Apart(Fam(c))
        BY <1>2, ToSetType, QueuedNotOnWay DEF TypeOK, PoolTypeOK, Once
      <3> QED
        BY <1>2, <3>1, TakeOnWay
    <2>4. j \notin OnWay(d)
      BY <1>2, QueuedNotOnWay
    <2> QED
      BY <1>2, <2>2, <2>3, <2>4 DEF Once
  <1>3. ASSUME NEW c \in Conn, NEW d \in Conn, c # d
        PROVE  OnWay(c)' \cap OnWay(d)' = {}
    <2>1. CASE OnWay(c)' \subseteq OnWay(c) /\ OnWay(d)' \subseteq OnWay(d)
      BY <1>3, <2>1 DEF Once
    <2>2. CASE ~(OnWay(c)' \subseteq OnWay(c))
      BY <1>2, <1>3, <2>2, OnWayMoves
    <2>3. CASE ~(OnWay(d)' \subseteq OnWay(d))
      BY <1>2, <1>3, <2>3, OnWayMoves
    <2> QED
      BY <2>1, <2>2, <2>3
  <1> QED
    BY <1>1, <1>3 DEF Once

LEMMA OnceInit == Init => Once
  <1> SUFFICES ASSUME Init, NEW c \in Conn
               PROVE  Apart(Fam(c)) /\ OnWay(c) = {}
    BY DEF Once
  <1>1. PICK e : e = <<>>
    OBVIOUS
  <1>2. ToSet(e) = {} /\ IsInjective(e) /\ DOMAIN e = {}
    BY <1>1, ToSetEmpty DEF IsInjective
  <1>3. wire[c] = e /\ batch[c] = e /\ writes[c] = e
    BY <1>1 DEF Init
  <1>4. PICK P : P = Fam(c)
    OBVIOUS
  <1>5. \A x \in DOMAIN P : P[x] = e
    BY <1>2, <1>3, <1>4 DEF Fam, Family
  <1>6. Apart(P) /\ Elements(P) = {}
    BY <1>2, <1>5 DEF Apart, Elements
  <1> QED
    BY <1>4, <1>6 DEF OnWay

LEMMA OnceHolds == Spec => []Once
  <1>1. TypeOK /\ Answers /\ JobConserved /\ [Next]_vars /\ Once => Once'
    BY OnceStep
  <1> QED
    BY <1>1, OnceInit, TypeCorrect, AnswersHold, JobsConserved, PTL DEF Spec

-----------------------------------------------------------------------------
\* Where the last accepted request is, before anything has gone wrong.

\* What is accepted (A) of the cache (s) ends with the last accepted (d).  Once
\* something on its way (l) is not in the cache any more, nothing of the cache
\* is accepted; what is behind a cached one is cached.
Led(s, l, A, d) ==
    /\ \A k \in DOMAIN s : s[k] \in A => \E m \in DOMAIN s : k <= m /\ s[m] = d
    /\ \A a \in DOMAIN l : l[a] \notin ToSet(s) => \A k \in DOMAIN s : s[k] \notin A
    /\ \A a, b \in DOMAIN l : a < b /\ l[a] \in ToSet(s) => l[b] \in ToSet(s)

LEMMA LedTake ==
    ASSUME NEW s \in Seq(Job), NEW l \in Seq(Job), NEW A, NEW d, Led(s, l, A, d),
           NEW j \in Job, j \notin ToSet(s), j \notin ToSet(l), j \notin A
    PROVE  Led(Append(s, j), Append(l, j), A, d)
  <1> DEFINE t == Append(s, j)
             m == Append(l, j)
  <1>1. /\ Len(s) \in Nat /\ DOMAIN s = 1..Len(s)
        /\ DOMAIN t = 1..(Len(s) + 1)
        /\ \A i \in 1..Len(s) : t[i] = s[i]
        /\ t[Len(s) + 1] = j
    BY LenProperties, AppendProperties
  <1>2. /\ Len(l) \in Nat /\ DOMAIN l = 1..Len(l)
        /\ DOMAIN m = 1..(Len(l) + 1)
        /\ \A i \in 1..Len(l) : m[i] = l[i]
        /\ m[Len(l) + 1] = j
    BY LenProperties, AppendProperties
  <1>3. ToSet(t) = ToSet(s) \cup {j}
    BY ToSetAppend
  <1> HIDE DEF t, m
  <1>4. \A k \in DOMAIN t : t[k] \in A => k \in DOMAIN s /\ t[k] = s[k]
    BY <1>1
  <1>5. ASSUME NEW k \in DOMAIN t, t[k] \in A
        PROVE  \E i \in DOMAIN t : k <= i /\ t[i] = d
    <2>1. k \in DOMAIN s /\ s[k] \in A
      BY <1>4, <1>5
    <2>2. PICK i \in DOMAIN s : k <= i /\ s[i] = d
      BY <2>1 DEF Led
    <2>3. i \in DOMAIN t /\ t[i] = s[i]
      BY <1>1
    <2> QED
      BY <2>2, <2>3
  <1>6. ASSUME NEW a \in DOMAIN m, m[a] \notin ToSet(t), NEW k \in DOMAIN t
        PROVE  t[k] \notin A
    <2>1. a \in DOMAIN l /\ m[a] = l[a]
      BY <1>2, <1>3, <1>6
    <2>2. \A i \in DOMAIN s : s[i] \notin A
      BY <1>3, <1>6, <2>1 DEF Led
    <2> QED
      BY <1>4, <2>2
  <1>7. ASSUME NEW a \in DOMAIN m, NEW b \in DOMAIN m, a < b, m[a] \in ToSet(t)
        PROVE  m[b] \in ToSet(t)
    <2>1. a \in DOMAIN l /\ m[a] = l[a]
      BY <1>2, <1>7
    <2>2. l[a] \in ToSet(s)
      <3>1. l[a] # j
        BY <2>1 DEF ToSet
      <3> QED
        BY <1>3, <1>7, <2>1, <3>1
    <2>3. CASE b = Len(l) + 1
      BY <1>2, <1>3, <2>3
    <2>4. CASE b # Len(l) + 1
      <3>1. b \in DOMAIN l /\ m[b] = l[b]
        BY <1>2, <2>4
      <3> QED
        BY <1>3, <1>7, <2>1, <2>2, <3>1 DEF Led
    <2> QED
      BY <2>3, <2>4
  <1>8. Led(t, m, A, d)
    BY <1>5, <1>6, <1>7 DEF Led
  <1> QED
    BY <1>8 DEF t, m

LEMMA LedAccept ==
    ASSUME NEW s \in Seq(Job), NEW l \in Seq(Job), NEW A, NEW d, Led(s, l, A, d),
           InOrder(s, l, A), l # <<>>, Head(l) \notin A
    PROVE  Led(s, Tail(l), A \cup {Head(l)}, Head(l))
  <1>1. PICK h, m, B : h = Head(l) /\ m = Tail(l) /\ B = A \cup {h}
    OBVIOUS
  <1>2. /\ Len(l) \in Nat \ {0} /\ DOMAIN l = 1..Len(l) /\ h = l[1] /\ 1 \in DOMAIN l
        /\ DOMAIN m = 1..(Len(l) - 1)
        /\ \A a \in DOMAIN m : m[a] = l[a + 1] /\ a + 1 \in DOMAIN l /\ 1 < a + 1
    <2>1. /\ Len(l) \in Nat \ {0} /\ DOMAIN l = 1..Len(l)
          /\ DOMAIN m = 1..(Len(l) - 1)
          /\ \A a \in 1..(Len(l) - 1) : m[a] = l[a + 1]
      BY <1>1, LenProperties, EmptySeq, HeadTailProperties
    <2> QED
      BY <1>1, <2>1
  <1>3. DOMAIN s = 1..Len(s) /\ Len(s) \in Nat
    BY LenProperties
  <1>4. h \notin ToSet(s) => \A k \in DOMAIN s : s[k] \notin B
    <2> SUFFICES ASSUME h \notin ToSet(s), NEW k \in DOMAIN s
                 PROVE  s[k] \notin B
      OBVIOUS
    <2>1. s[k] \notin A
      BY <1>2 DEF Led
    <2>2. s[k] # h
      BY DEF ToSet
    <2> QED
      BY <1>1, <2>1, <2>2
  <1>5. ASSUME NEW k \in DOMAIN s, s[k] \in B
        PROVE  \E i \in DOMAIN s : k <= i /\ s[i] = h
    <2>1. PICK p \in DOMAIN s : s[p] = h
      BY <1>4, <1>5 DEF ToSet
    <2>2. CASE s[k] = h
      BY <1>3, <2>2
    <2>3. CASE s[k] # h
      <3>1. s[k] \in A /\ s[p] \notin A
        BY <1>1, <1>5, <2>1, <2>3
      <3>2. ~(p < k)
        BY <3>1 DEF InOrder
      <3>3. k <= p
        BY <1>3, <3>2
      <3> QED
        BY <2>1, <3>3
    <2> QED
      BY <2>2, <2>3
  <1>6. ASSUME NEW a \in DOMAIN m, m[a] \notin ToSet(s)
        PROVE  \A k \in DOMAIN s : s[k] \notin B
    <2>1. l[a + 1] \notin ToSet(s) /\ a + 1 \in DOMAIN l /\ 1 < a + 1
      BY <1>2, <1>6
    <2>2. h \notin ToSet(s)
      BY <1>2, <2>1 DEF Led
    <2> QED
      BY <1>4, <2>2
  <1>7. ASSUME NEW a \in DOMAIN m, NEW b \in DOMAIN m, a < b, m[a] \in ToSet(s)
        PROVE  m[b] \in ToSet(s)
    <2>1. a + 1 < b + 1
      BY <1>2, <1>7
    <2> QED
      BY <1>2, <1>7, <2>1 DEF Led
  <1>8. Led(s, m, B, h)
    BY <1>5, <1>6, <1>7 DEF Led
  <1> QED
    BY <1>1, <1>8

LEMMA LedCut ==
    ASSUME NEW s \in Seq(Job), NEW l \in Seq(Job), NEW A, NEW d, Led(s, l, A, d), InOrder(s, l, A),
           \A a \in DOMAIN l : l[a] \notin A, NEW n \in 0..Len(s)
    PROVE  Led(SubSeq(s, n + 1, Len(s)), l, A, d)
  <1>1. PICK t : t = SubSeq(s, n + 1, Len(s))
    OBVIOUS
  <1>2. Len(s) \in Nat /\ DOMAIN s = 1..Len(s) /\ DOMAIN l \subseteq Nat
    BY LenProperties
  <1>3. /\ DOMAIN t = 1..(Len(s) - n)
        /\ \A i \in DOMAIN t : n + i \in DOMAIN s /\ t[i] = s[n + i]
    BY <1>1, SuffixAt
  <1>4. \A i \in DOMAIN s : n < i => i - n \in DOMAIN t /\ t[i - n] = s[i]
    <2> SUFFICES ASSUME NEW i \in DOMAIN s, n < i
                 PROVE  i - n \in DOMAIN t /\ t[i - n] = s[i]
      OBVIOUS
    <2>1. i - n \in DOMAIN t /\ n + (i - n) = i
      BY <1>2, <1>3
    <2> QED
      BY <1>3, <2>1
  <1>5. ASSUME NEW k \in DOMAIN t, t[k] \in A
        PROVE  \E i \in DOMAIN t : k <= i /\ t[i] = d
    <2>1. n + k \in DOMAIN s /\ s[n + k] \in A
      BY <1>3, <1>5
    <2>2. PICK i \in DOMAIN s : n + k <= i /\ s[i] = d
      BY <2>1 DEF Led
    <2>3. n < i /\ k <= i - n
      BY <1>2, <1>3, <2>2
    <2> QED
      BY <1>4, <2>2, <2>3
  <1>6. ASSUME NEW a \in DOMAIN l, l[a] \notin ToSet(t), NEW k \in DOMAIN t
        PROVE  t[k] \notin A
    <2>1. n + k \in DOMAIN s /\ t[k] = s[n + k]
      BY <1>3
    <2>2. CASE l[a] \notin ToSet(s)
      BY <2>1, <2>2 DEF Led
    <2>3. CASE l[a] \in ToSet(s)
      <3>1. PICK i \in DOMAIN s : s[i] = l[a]
        BY <2>3 DEF ToSet
      <3>2. ~(n < i)
        BY <1>4, <1>6, <3>1 DEF ToSet
      <3>3. i < n + k
        BY <1>2, <1>3, <3>2
      <3>4. s[i] \notin A
        BY <3>1
      <3> QED
        BY <2>1, <3>3, <3>4 DEF InOrder
    <2> QED
      BY <2>2, <2>3
  <1>7. ASSUME NEW a \in DOMAIN l, NEW b \in DOMAIN l, a < b, l[a] \in ToSet(t)
        PROVE  l[b] \in ToSet(t)
    <2>1. PICK i \in DOMAIN t : t[i] = l[a]
      BY <1>7 DEF ToSet
    <2>2. n + i \in DOMAIN s /\ s[n + i] = l[a]
      BY <1>3, <2>1
    <2>3. l[a] \in ToSet(s)
      BY <2>2 DEF ToSet
    <2>4. PICK k \in DOMAIN s : s[k] = l[b]
      <3>1. l[b] \in ToSet(s)
        BY <1>7, <2>3 DEF Led
      <3> QED
        BY <3>1 DEF ToSet
    <2>5. n + i < k
      BY <1>7, <2>2, <2>4 DEF InOrder
    <2>6. n < k
      BY <1>2, <1>3, <2>5
    <2> QED
      BY <1>4, <2>4, <2>6 DEF ToSet
  <1>8. Led(t, l, A, d)
    BY <1>5, <1>6, <1>7 DEF Led
  <1> QED
    BY <1>1, <1>8

LEMMA LedElsewhere ==
    ASSUME NEW s, NEW l, NEW A, NEW d, Led(s, l, A, d), NEW h, h \notin ToSet(s)
    PROVE  Led(s, l, A \cup {h}, d)
  <1>1. \A k \in DOMAIN s : s[k] # h
    BY DEF ToSet
  <1>2. PICK B : B = A \cup {h}
    OBVIOUS
  <1>3. \A k \in DOMAIN s : s[k] \in B <=> s[k] \in A
    BY <1>1, <1>2
  <1>4. Led(s, l, B, d)
    BY <1>3 DEF Led
  <1> QED
    BY <1>2, <1>4

-----------------------------------------------------------------------------
\* No request is accepted twice.

\* What the answer r sends back to the queue of a cache s is not in A.
NoneBehind(s, r, A) ==
    /\ r.kind \in {"error", "shutdown"} =>
          \A i, k \in DOMAIN s : i < k /\ s[i] = r.id => s[k] \notin A
    /\ r.kind = "shutdown" /\ r.id \notin ToSet(s) => \A k \in DOMAIN s : s[k] \notin A

Followed(c) == NoneBehind(cache[c], resp[c], accepted)

Leads(c) == Led(cache[c], Line(c), accepted, lastDone[c])

\* Around one failure nothing that can still come to the gateway has been there.
FirstTime ==
    /\ accepted \subseteq posted
    /\ OneFailure => /\ ToSet(jobs) \cap accepted = {}
                     /\ \A c \in Conn : OnWay(c) \cap accepted = {}
                     /\ \A c \in Conn : Followed(c)
    /\ Calm => \A c \in Conn : Leads(c)

LEMMA AcceptedMoves ==
    ASSUME [Next]_vars
    PROVE  \/ accepted' = accepted
           \/ \E c \in Conn : /\ GatewayAccept(c)
                              /\ accepted' = accepted \cup {Head(wire[c])}
                              /\ UNCHANGED <<jobs, posted, cache, resp, sock, faults>>
  <1>1. CASE Client \/ UNCHANGED vars
    BY <1>1 DEF Client, Notify, Post, vars, gateVars
  <1>2. ASSUME NEW c \in Conn, Handler(c) \/ Gateway(c), ~GatewayAccept(c)
        PROVE  accepted' = accepted
    BY <1>2 DEF Handler, Gateway, Start, RestartTimer, HandleConnect, HandleHandshake,
                HandleReadErr, OnCheckCache, TakeJob,
                HandleJobAvailable, SendBatch, WaitForJob, SwapHandle, HandleWrite, Transmit,
                GatewayReject, GatewayShutdown, GatewayDrop, Hangup, gateVars
  <1>3. ASSUME NEW c \in Conn, GatewayAccept(c)
        PROVE  /\ accepted' = accepted \cup {Head(wire[c])}
               /\ UNCHANGED <<jobs, posted, cache, resp, sock, faults>>
    BY <1>3 DEF GatewayAccept, poolVars, connVars
  <1> QED
    BY <1>1, <1>2, <1>3 DEF Next

LEMMA OneFailureBefore ==
    ASSUME TypeOK, [Next]_vars, OneFailure'
    PROVE  OneFailure
  BY FaultsFall, FaultAssumption DEF OneFailure, TypeOK, GateTypeOK

LEMMA CalmBefore ==
    ASSUME TypeOK, Orderly, [Next]_vars, Calm'
    PROVE  Calm /\ faults' = faults /\ OneFailure
  BY FaultsFall, FaultAssumption DEF OneFailure, Calm, Orderly, TypeOK, GateTypeOK

\* The last failure but one comes before any other.
LEMMA CalmUntilHangup ==
    ASSUME TypeOK, Orderly, NEW d \in Conn,
           GatewayReject(d) \/ GatewayShutdown(d) \/ GatewayDrop(d), OneFailure'
    PROVE  Calm
  <1>1. faults' = faults - 1 /\ faults \in Nat /\ MaxFaults \in Nat
    BY FaultAssumption DEF GatewayReject, GatewayShutdown, GatewayDrop, Hangup, Fault, TypeOK, GateTypeOK
  <1>2. MaxFaults <= faults' + 1 /\ faults <= MaxFaults
    BY DEF OneFailure, Orderly
  <1> QED
    BY <1>1, <1>2 DEF Calm

\* What the queue can get.
LEMMA QueueMoves ==
    ASSUME TypeOK, JobConserved, [Next]_vars
    PROVE  /\ posted \subseteq posted'
           /\ \/ ToSet(jobs') \subseteq ToSet(jobs)
              \/ \E j \in Job : Post(j) /\ j \notin posted /\ ToSet(jobs') = ToSet(jobs) \cup {j}
              \/ \E c \in Conn : /\ HandleReadErr(c)
                                 /\ \/ /\ FailCached(c, resp[c].id) \/ ReturnRest(c, resp[c].id)
                                       /\ resp[c].kind \in {"error", "shutdown"}
                                       /\ InCache(c, resp[c].id)
                                       /\ ToSet(jobs') = ToSet(jobs) \cup ToSet(After(c, resp[c].id))
                                    \/ /\ resp[c].kind = "shutdown" /\ ~InCache(c, resp[c].id)
                                       /\ ToSet(jobs') = ToSet(jobs) \cup ToSet(cache[c])
  <1>1. CASE UNCHANGED placeVars
    BY <1>1 DEF placeVars
  <1>2. ASSUME NEW j \in Job, Post(j)
        PROVE  /\ j \notin posted /\ ToSet(jobs') = ToSet(jobs) \cup {j} /\ posted \subseteq posted'
    <2>1. j \notin posted /\ posted' = posted \cup {j} /\ jobs' = Append(jobs, j)
      BY <1>2 DEF Post, PostPush
    <2>2. ToSet(jobs') = ToSet(jobs) \cup {j}
      BY <2>1, ToSetAppend DEF TypeOK, PoolTypeOK
    <2> QED
      BY <2>1, <2>2
  <1>3. ASSUME NEW c \in Conn, NEW j \in Job, TakeJob(c, j)
        PROVE  ToSet(jobs') \subseteq ToSet(jobs) /\ posted' = posted
    BY <1>3, LineTake
  <1>4. ASSUME NEW c \in Conn, NEW k \in 0..Len(cache[c]), OnCheckCache(c, k)
        PROVE  UNCHANGED <<jobs, posted>>
    BY <1>4 DEF OnCheckCache, poolVars
  <1>5. ASSUME NEW c \in Conn, HandleReadErr(c), ~UNCHANGED placeVars
        PROVE  /\ posted' = posted
               /\ \/ /\ FailCached(c, resp[c].id) \/ ReturnRest(c, resp[c].id)
                     /\ resp[c].kind \in {"error", "shutdown"}
                     /\ InCache(c, resp[c].id)
                     /\ ToSet(jobs') = ToSet(jobs) \cup ToSet(After(c, resp[c].id))
                  \/ /\ resp[c].kind = "shutdown" /\ ~InCache(c, resp[c].id)
                     /\ ToSet(jobs') = ToSet(jobs) \cup ToSet(cache[c])
    <2>1. jobs \in Seq(Job) /\ cache[c] \in Seq(Job)
      BY DEF TypeOK, PoolTypeOK, ConnTypeOK
    <2>2. CASE /\ FailCached(c, resp[c].id) \/ ReturnRest(c, resp[c].id)
               /\ resp[c].kind \in {"error", "shutdown"}
      <3>1. InCache(c, resp[c].id) /\ jobs' = jobs \o After(c, resp[c].id) /\ posted' = posted
        BY <2>2 DEF FailCached, ReturnRest, PostRange
      <3>2. After(c, resp[c].id) \in Seq(Job)
        BY <3>1, CutType
      <3> QED
        BY <2>1, <2>2, <3>1, <3>2, ToSetConcat
    <2>3. CASE ReturnAll(c, resp[c].id) /\ resp[c].kind = "shutdown"
      <3>1. ~InCache(c, resp[c].id) /\ jobs' = jobs \o cache[c] /\ posted' = posted
        BY <2>3 DEF ReturnAll, PostRange
      <3> QED
        BY <2>1, <2>3, <3>1, ToSetConcat
    <2>4. CASE FailLost(c, resp[c].id) \/ ReadEof(c) \/ ReadFailure(c)
      BY <1>5, <2>4 DEF FailLost, ReadEof, ReadFailure, placeVars, poolVars, verdicts
    <2> QED
      BY <1>5, <2>2, <2>3, <2>4 DEF HandleReadErr, SortCacheOnError, SortCacheOnShutdown
  <1>6. CASE Client \/ UNCHANGED vars
    <2>1. CASE Notify \/ UNCHANGED vars
      BY <2>1 DEF Notify, PostNotify, vars, poolVars
    <2> QED
      BY <1>2, <1>6, <2>1 DEF Client
  <1>7. ASSUME NEW c \in Conn, Handler(c) \/ Gateway(c)
        PROVE  \/ UNCHANGED placeVars
               \/ \E j \in Job : TakeJob(c, j)
               \/ \E k \in 0..Len(cache[c]) : OnCheckCache(c, k)
               \/ HandleReadErr(c)
    BY <1>7, OthersStay DEF Handler
  <1>8. ASSUME NEW c \in Conn, Handler(c) \/ Gateway(c), ~HandleReadErr(c)
        PROVE  ToSet(jobs') \subseteq ToSet(jobs) /\ posted \subseteq posted'
    BY <1>3, <1>4, <1>7, <1>8 DEF placeVars
  <1>9. ASSUME NEW c \in Conn, HandleReadErr(c), UNCHANGED placeVars
        PROVE  ToSet(jobs') \subseteq ToSet(jobs) /\ posted \subseteq posted'
    BY <1>9 DEF placeVars
  <1> QED
    BY <1>2, <1>5, <1>6, <1>8, <1>9 DEF Next

\* What is behind the request an answer names.
LEMMA AfterUnaccepted ==
    ASSUME TypeOK, NEW c \in Conn, Followed(c), resp[c].kind \in {"error", "shutdown"},
           InCache(c, resp[c].id)
    PROVE  ToSet(After(c, resp[c].id)) \cap accepted = {}
  <1>1. PICK s, p : s = cache[c] /\ p = Position(c, resp[c].id)
    OBVIOUS
  <1>2. s \in Seq(Job) /\ Len(s) \in Nat /\ DOMAIN s = 1..Len(s) /\ p \in 1..Len(s) /\ s[p] = resp[c].id
    BY <1>1, PositionType, LenProperties DEF TypeOK, ConnTypeOK
  <1>3. \A i \in (p + 1)..Len(s) : i \in DOMAIN s /\ p < i
    BY <1>2
  <1>4. \A i \in (p + 1)..Len(s) : s[i] \notin accepted
    BY <1>1, <1>2, <1>3 DEF Followed, NoneBehind
  <1>5. ToSet(SubSeq(s, p + 1, Len(s))) = {s[i] : i \in (p + 1)..Len(s)}
    BY <1>2, Segment
  <1> QED
    BY <1>1, <1>4, <1>5 DEF After

LEMMA AcceptedWasOnWay ==
    ASSUME TypeOK, Once, NEW c \in Conn, GatewayAccept(c)
    PROVE  /\ Head(wire[c]) \in OnWay(c)
           /\ \A d \in Conn : Head(wire[c]) \notin OnWay(d)' /\ OnWay(d)' \subseteq OnWay(d)
  <1>1. Apart(Fam(c))
    BY DEF Once
  <1>2. Head(wire[c]) \in OnWay(c) /\ OnWay(c)' \subseteq OnWay(c) \ {Head(wire[c])}
    BY <1>1, AcceptOnWay
  <1>3. ASSUME NEW d \in Conn, d # c
        PROVE  Head(wire[c]) \notin OnWay(d)' /\ OnWay(d)' \subseteq OnWay(d)
    <2>1. OnWay(d)' = OnWay(d)
      BY <1>3, OthersOnWay DEF Gateway
    <2> QED
      BY <1>2, <1>3, <2>1 DEF Once
  <1> QED
    BY <1>2, <1>3

LEMMA FirstTimeQueue ==
    ASSUME TypeOK, Answers, JobConserved, Once, FirstTime, [Next]_vars
    PROVE  /\ accepted' \subseteq posted'
           /\ OneFailure' => ToSet(jobs') \cap accepted' = {}
  <1>1. posted \subseteq posted'
    BY QueueMoves
  <1>2. ASSUME NEW c \in Conn, GatewayAccept(c), accepted' = accepted \cup {Head(wire[c])},
               UNCHANGED <<jobs, posted>>
        PROVE  /\ accepted' \subseteq posted'
               /\ OneFailure' => ToSet(jobs') \cap accepted' = {}
    <2>1. Head(wire[c]) \in posted /\ Head(wire[c]) \notin ToSet(jobs)
      BY <1>2, AcceptedWasOnWay, QueuedNotOnWay
    <2> QED
      BY <1>2, <2>1, OneFailureBefore DEF FirstTime
  <1>3. ASSUME accepted' = accepted, OneFailure'
        PROVE  ToSet(jobs') \cap accepted = {}
    <2>1. ToSet(jobs) \cap accepted = {} /\ \A c \in Conn : Followed(c)
      BY <1>3, OneFailureBefore DEF FirstTime
    <2>2. CASE ToSet(jobs') \subseteq ToSet(jobs)
      BY <2>1, <2>2
    <2>3. ASSUME NEW j \in Job, j \notin posted, ToSet(jobs') = ToSet(jobs) \cup {j}
          PROVE  ToSet(jobs') \cap accepted = {}
      BY <2>1, <2>3 DEF FirstTime
    <2>4. ASSUME NEW c \in Conn, resp[c].kind \in {"error", "shutdown"}, InCache(c, resp[c].id),
                 ToSet(jobs') = ToSet(jobs) \cup ToSet(After(c, resp[c].id))
          PROVE  ToSet(jobs') \cap accepted = {}
      BY <2>1, <2>4, AfterUnaccepted
    <2>5. ASSUME NEW c \in Conn, resp[c].kind = "shutdown", ~InCache(c, resp[c].id),
                 ToSet(jobs') = ToSet(jobs) \cup ToSet(cache[c])
          PROVE  ToSet(jobs') \cap accepted = {}
      BY <2>1, <2>5 DEF Followed, NoneBehind, InCache, ToSet
    <2> QED
      BY <2>2, <2>3, <2>4, <2>5, QueueMoves
  <1> QED
    BY <1>1, <1>2, <1>3, AcceptedMoves DEF FirstTime

LEMMA FirstTimeOnWay ==
    ASSUME TypeOK, Answers, JobConserved, Once, FirstTime, [Next]_vars, OneFailure', NEW d \in Conn
    PROVE  OnWay(d)' \cap accepted' = {}
  <1>1. ToSet(jobs) \cap accepted = {} /\ OnWay(d) \cap accepted = {}
    BY OneFailureBefore DEF FirstTime
  <1>2. ASSUME NEW c \in Conn, GatewayAccept(c), accepted' = accepted \cup {Head(wire[c])}
        PROVE  OnWay(d)' \cap accepted' = {}
    BY <1>1, <1>2, AcceptedWasOnWay
  <1>3. CASE accepted' = accepted
    BY <1>1, <1>3, OnWayMoves
  <1> QED
    BY <1>2, <1>3, AcceptedMoves

\* An answer that was there before stays right.
LEMMA FollowedStays ==
    ASSUME TypeOK, JobConserved, NEW d \in Conn, Followed(d),
           resp'[d] = resp[d], accepted' = accepted,
           \/ cache'[d] = cache[d]
           \/ \E k \in 0..Len(cache[d]) : cache'[d] = SubSeq(cache[d], k + 1, Len(cache[d]))
           \/ \E j \in Job : j \notin accepted /\ cache'[d] = Append(cache[d], j)
    PROVE  Followed(d)'
  <1>1. PICK s, t, r : s = cache[d] /\ t = cache'[d] /\ r = resp[d]
    OBVIOUS
  <1>2. s \in Seq(Job) /\ Len(s) \in Nat /\ DOMAIN s = 1..Len(s)
    BY <1>1, LenProperties DEF TypeOK, ConnTypeOK
  <1>3. NoneBehind(s, r, accepted)
    BY <1>1 DEF Followed
  <1>4. NoneBehind(t, r, accepted)
    <2>1. CASE t = s
      BY <1>3, <2>1
    <2>2. ASSUME NEW n \in 0..Len(s), t = SubSeq(s, n + 1, Len(s))
          PROVE  NoneBehind(t, r, accepted)
      <3>1. /\ DOMAIN t = 1..(Len(s) - n)
            /\ \A i \in DOMAIN t : n + i \in DOMAIN s /\ t[i] = s[n + i]
        BY <1>2, <2>2, SuffixAt
      <3>2. ASSUME r.kind \in {"error", "shutdown"}, NEW i \in DOMAIN t, NEW k \in DOMAIN t,
                   i < k, t[i] = r.id
            PROVE  t[k] \notin accepted
        <4>1. n + i < n + k
          BY <1>2, <3>1, <3>2
        <4> QED
          BY <1>3, <3>1, <3>2, <4>1 DEF NoneBehind
      <3>3. ASSUME r.kind = "shutdown", r.id \notin ToSet(t), NEW k \in DOMAIN t
            PROVE  t[k] \notin accepted
        <4>1. CASE r.id \notin ToSet(s)
          BY <1>3, <3>1, <3>3, <4>1 DEF NoneBehind
        <4>2. CASE r.id \in ToSet(s)
          <5>1. PICK p \in DOMAIN s : s[p] = r.id
            BY <4>2 DEF ToSet
          <5>2. p <= n
            <6>1. ASSUME n < p
                  PROVE  FALSE
              <7>1. p - n \in DOMAIN t /\ n + (p - n) = p
                BY <1>2, <3>1, <6>1
              <7>2. t[p - n] = r.id
                BY <3>1, <5>1, <7>1
              <7> QED
                BY <3>3, <7>1, <7>2 DEF ToSet
            <6> QED
              BY <1>2, <6>1
          <5>3. p < n + k /\ n + k \in DOMAIN s
            BY <1>2, <3>1, <5>2
          <5> QED
            BY <1>3, <3>1, <3>3, <5>1, <5>3 DEF NoneBehind
        <4> QED
          BY <4>1, <4>2
      <3> QED
        BY <3>2, <3>3 DEF NoneBehind
    <2>3. ASSUME NEW j \in Job, j \notin accepted, t = Append(s, j)
          PROVE  NoneBehind(t, r, accepted)
      <3>1. /\ DOMAIN t = 1..(Len(s) + 1)
            /\ \A a \in 1..Len(s) : t[a] = s[a]
            /\ t[Len(s) + 1] = j
        <4>1. /\ t \in Seq(Job) /\ Len(t) = Len(s) + 1
              /\ \A a \in 1..Len(s) : t[a] = s[a]
              /\ t[Len(s) + 1] = j
          BY <1>2, <2>3, AppendProperties
        <4> QED
          BY <4>1, LenProperties
      <3>2. \A k \in DOMAIN t : t[k] \in accepted => k \in DOMAIN s /\ t[k] = s[k]
        BY <1>2, <2>3, <3>1
      <3>3. ToSet(t) = ToSet(s) \cup {j}
        BY <1>2, <2>3, ToSetAppend
      <3>4. \A i, k \in DOMAIN t : i < k /\ k \in DOMAIN s => i \in DOMAIN s /\ t[i] = s[i]
        BY <1>2, <3>1
      <3> QED
        BY <1>3, <3>2, <3>3, <3>4 DEF NoneBehind
    <2> QED
      BY <1>1, <2>1, <2>2, <2>3
  <1> QED
    BY <1>1, <1>4 DEF Followed

LEMMA LineOnWay ==
    ASSUME TypeOK, NEW c \in Conn, Chained(c)
    PROVE  ToSet(Line(c)) \subseteq OnWay(c)
  <1>1. PICK w, u, b : w = wire[c] /\ u = Unsent(c) /\ b = batch[c]
    OBVIOUS
  <1>2. w \in Seq(Job) /\ u \in Seq(Job) /\ b \in Seq(Job)
    BY <1>1, LineType
  <1>3. PICK t : t = u \o b
    OBVIOUS
  <1>4. t \in Seq(Job) /\ ToSet(t) = ToSet(u) \cup ToSet(b)
    BY <1>2, <1>3, ConcatProperties, ToSetConcat
  <1>5. ToSet(w \o t) = ToSet(w) \cup ToSet(t)
    BY <1>2, <1>4, ToSetConcat
  <1>6. ToSet(w) \subseteq OnWay(c) /\ ToSet(b) \subseteq OnWay(c)
    BY <1>1, WireOnWay
  <1>7. ToSet(u) \subseteq OnWay(c)
    <2>1. CASE writes[c] = <<>>
      BY <1>1, <2>1, ToSetEmpty DEF Unsent
    <2>2. CASE writes[c] # <<>>
      <3>1. writes[c][1].fate = "live"
        BY <2>2 DEF Chained
      <3>2. 1 \in DOMAIN writes[c]
        BY <2>2, FamParts, EmptySeq, LenProperties
      <3>3. u = Load(writes[c][1])
        BY <1>1, <2>2, <3>1 DEF Unsent, Load
      <3> QED
        BY <3>2, <3>3, WireOnWay
    <2> QED
      BY <2>1, <2>2
  <1> QED
    BY <1>1, <1>3, <1>4, <1>5, <1>6, <1>7 DEF Line

\* The first answer names a request behind which nothing has been accepted.
LEMMA HangupFollowed ==
    ASSUME TypeOK, Orderly, JobConserved, FirstTime, NEW d \in Conn,
           GatewayReject(d) \/ GatewayShutdown(d) \/ GatewayDrop(d), OneFailure'
    PROVE  Followed(d)'
  <1>1. UNCHANGED <<cache, accepted>> /\ resp'[d] \in [kind : {"error", "shutdown", "eof", "reset"}, id : Job \cup {None}]
    <2>1. UNCHANGED <<cache, accepted>>
      BY DEF GatewayReject, GatewayShutdown, GatewayDrop, Hangup
    <2>2. wire[d] # <<>> => Head(wire[d]) \in Job
      BY FamParts, HeadTailProperties
    <2>3. lastDone[d] \in Job \cup {None}
      BY DEF TypeOK, GateTypeOK
    <2> QED
      BY <2>1, <2>2, <2>3 DEF GatewayReject, GatewayShutdown, GatewayDrop, Hangup, TypeOK, GateTypeOK
  <1>2. /\ Chained(d) /\ Ordered(d) /\ Leads(d)
        /\ OnWay(d) \cap accepted = {}
    <2>1. Calm
      BY CalmUntilHangup
    <2>2. OneFailure
      BY <2>1, FaultAssumption DEF Calm, OneFailure, TypeOK, GateTypeOK
    <2> QED
      BY <2>1, <2>2 DEF Orderly, InTurn, FirstTime
  <1>3. PICK s, l, r : s = cache[d] /\ l = Line(d) /\ r = resp'[d]
    OBVIOUS
  <1>4. /\ s \in Seq(Job) /\ l \in Seq(Job) /\ IsInjective(s) /\ DOMAIN s = 1..Len(s) /\ Len(s) \in Nat
        /\ InOrder(s, l, accepted) /\ Led(s, l, accepted, lastDone[d])
    BY <1>2, <1>3, LineType, LenProperties DEF Ordered, Leads, TypeOK, ConnTypeOK, JobConserved
  <1>5. CASE GatewayReject(d)
    <2>1. wire[d] # <<>> /\ r.kind = "error" /\ r.id = Head(wire[d])
      BY <1>3, <1>5 DEF GatewayReject, Hangup, TypeOK, GateTypeOK
    <2>2. r.id \notin accepted
      <3>1. ToSet(wire[d]) = {Head(wire[d])} \cup ToSet(Tail(wire[d]))
        BY <2>1, FamParts, ToSetHeadTail
      <3>2. r.id \in OnWay(d)
        BY <2>1, <3>1, WireOnWay
      <3> QED
        BY <1>2, <3>2
    <2>3. \A i, k \in DOMAIN s : i < k /\ s[i] = r.id => s[k] \notin accepted
      BY <1>4, <2>2 DEF InOrder
    <2> QED
      BY <1>1, <1>3, <2>1, <2>3 DEF Followed, NoneBehind
  <1>6. CASE GatewayShutdown(d)
    <2>1. r.kind = "shutdown" /\ r.id = lastDone[d]
      BY <1>3, <1>6 DEF GatewayShutdown, Hangup, TypeOK, GateTypeOK
    <2>2. \A k \in DOMAIN s : s[k] \in accepted => \E m \in DOMAIN s : k <= m /\ s[m] = r.id
      BY <1>4, <2>1 DEF Led
    <2>3. ASSUME NEW i \in DOMAIN s, NEW k \in DOMAIN s, i < k, s[i] = r.id, s[k] \in accepted
          PROVE  FALSE
      <3>1. PICK m \in DOMAIN s : k <= m /\ s[m] = r.id
        BY <2>2, <2>3
      <3>2. m = i
        BY <1>4, <2>3, <3>1 DEF IsInjective
      <3> QED
        BY <1>4, <2>3, <3>1, <3>2
    <2>4. r.id \notin ToSet(s) => \A k \in DOMAIN s : s[k] \notin accepted
      BY <2>2 DEF ToSet
    <2> QED
      BY <1>1, <1>3, <2>3, <2>4 DEF Followed, NoneBehind
  <1>7. CASE GatewayDrop(d)
    <2>1. r.kind \in {"eof", "reset"}
      BY <1>3, <1>7 DEF GatewayDrop, Hangup, TypeOK, GateTypeOK
    <2> QED
      BY <1>3, <2>1 DEF Followed, NoneBehind
  <1> QED
    BY <1>5, <1>6, <1>7

LEMMA FollowedStep ==
    ASSUME TypeOK, Lifecycle, Orderly, Answers, JobConserved, Once, FirstTime, [Next]_vars, OneFailure',
           NEW d \in Conn
    PROVE  Followed(d)'
  <1>0. Followed(d) /\ ToSet(jobs) \cap accepted = {}
    BY OneFailureBefore DEF FirstTime
  <1>1. ASSUME NEW c \in Conn, GatewayAccept(c), accepted' = accepted \cup {Head(wire[c])},
               UNCHANGED <<cache, resp>>
        PROVE  Followed(d)'
    <2>1. CASE c = d
      <3>1. resp[d].kind = "none"
        <4>1. wire[d] # <<>>
          BY <1>1, <2>1 DEF GatewayAccept
        <4>2. sock[d] # "dead"
          BY <4>1 DEF Answers, Sound, Quiet
        <4> QED
          BY <4>2 DEF Lifecycle, Stage, Hung
      <3> QED
        BY <1>1, <3>1 DEF Followed, NoneBehind
    <2>2. CASE c # d
      <3>1. PICK s, r, h : s = cache[d] /\ r = resp[d] /\ h = Head(wire[c])
        OBVIOUS
      <3>2. h \notin ToSet(s)
        BY <1>1, <2>2, <3>1, AcceptedWasOnWay, QueuedNotOnWay
      <3>3. \A k \in DOMAIN s : s[k] # h
        BY <3>2 DEF ToSet
      <3>4. NoneBehind(s, r, accepted)
        BY <1>0, <3>1 DEF Followed
      <3>5. NoneBehind(s, r, accepted \cup {h})
        BY <3>3, <3>4 DEF NoneBehind
      <3> QED
        BY <1>1, <3>1, <3>5 DEF Followed
    <2> QED
      BY <2>1, <2>2
  <1>2. CASE accepted' = accepted
    <2>1. CASE Client \/ UNCHANGED vars
      <3>1. resp'[d] = resp[d] /\ cache'[d] = cache[d]
        BY <2>1 DEF Client, Notify, Post, vars, gateVars, connVars
      <3> QED
        BY <1>0, <1>2, <3>1, FollowedStays
    <2>2. ASSUME NEW c \in Conn, Handler(c) \/ Gateway(c), c # d
          PROVE  Followed(d)'
      <3>1. resp'[d] = resp[d] /\ cache'[d] = cache[d]
        BY <2>2, OthersKeep, OthersStage
      <3> QED
        BY <1>0, <1>2, <3>1, FollowedStays
    <2>3. CASE HandleReadErr(d)
      <3>1. resp'[d].kind = "none"
        BY <2>3 DEF HandleReadErr, NoResp, TypeOK, GateTypeOK
      <3> QED
        BY <3>1 DEF Followed, NoneBehind
    <2>4. CASE GatewayReject(d) \/ GatewayShutdown(d) \/ GatewayDrop(d)
      BY <2>4, HangupFollowed
    <2>5. ASSUME NEW j \in Job, TakeJob(d, j)
          PROVE  Followed(d)'
      <3>1. resp' = resp
        BY <2>5 DEF TakeJob, gateVars
      <3>2. cache'[d] = Append(cache[d], j) /\ j \notin accepted
        BY <1>0, <2>5, LineTake
      <3> QED
        BY <1>0, <1>2, <3>1, <3>2, FollowedStays
    <2>6. CASE /\ Handler(d) \/ Gateway(d)
               /\ ~HandleReadErr(d) /\ ~GatewayReject(d) /\ ~GatewayShutdown(d) /\ ~GatewayDrop(d)
               /\ \A j \in Job : ~TakeJob(d, j)
      <3>1. resp' = resp
        BY <2>6 DEF Handler, Gateway, Start, RestartTimer, HandleConnect, HandleHandshake,
                    OnCheckCache, HandleJobAvailable, SendBatch, WaitForJob, SwapHandle, HandleWrite,
                    Transmit, GatewayAccept, gateVars
      <3> QED
        BY <1>0, <1>2, <2>6, <3>1, CacheKeeps, FollowedStays
    <2> QED
      BY <2>1, <2>2, <2>3, <2>4, <2>5, <2>6 DEF Next
  <1> QED
    BY <1>1, <1>2, AcceptedMoves

LEMMA OwnLeads ==
    ASSUME TypeOK, Lifecycle, OwnWaiters, Orderly, Answers, JobConserved, FirstTime, [Next]_vars, Calm',
           NEW d \in Conn, Handler(d) \/ Gateway(d)
    PROVE  Leads(d)'
  <1>0. Calm /\ faults' = faults /\ OneFailure /\ InTurn
    BY CalmBefore DEF Orderly
  <1>1. /\ Chained(d) /\ Ordered(d) /\ Leads(d) /\ ~HandleReadErr(d)
        /\ OnWay(d) \cap accepted = {} /\ ToSet(jobs) \cap accepted = {}
    BY <1>0, CalmStep DEF InTurn, FirstTime
  <1>2. PICK s, l, e : s = cache[d] /\ l = Line(d) /\ e = lastDone[d]
    OBVIOUS
  <1>3. /\ s \in Seq(Job) /\ l \in Seq(Job)
        /\ InOrder(s, l, accepted) /\ Led(s, l, accepted, e)
    BY <1>1, <1>2, LineType DEF Ordered, Leads, TypeOK, ConnTypeOK
  <1>4. ToSet(l) \subseteq OnWay(d) /\ \A a \in DOMAIN l : l[a] \notin accepted
    <2>1. ToSet(l) \subseteq OnWay(d)
      BY <1>1, <1>2, LineOnWay
    <2> QED
      BY <1>1, <2>1 DEF ToSet
  <1>5. CASE GatewayAccept(d)
    <2>1. /\ l # <<>> /\ Line(d)' = Tail(l) /\ cache'[d] = s
          /\ accepted' = accepted \cup {Head(l)} /\ lastDone'[d] = Head(l)
      BY <1>2, <1>5, LineAccept DEF TypeOK, GateTypeOK
    <2>2. Head(l) \notin accepted
      BY <1>3, <1>4, <2>1, EmptySeq, LenProperties
    <2>3. Led(s, Tail(l), accepted \cup {Head(l)}, Head(l))
      BY <1>3, <2>1, <2>2, LedAccept
    <2> QED
      BY <2>1, <2>3 DEF Leads
  <1>6. ASSUME NEW j \in Job, TakeJob(d, j)
        PROVE  Leads(d)'
    <2>1. /\ Line(d)' = Append(l, j) /\ cache'[d] = Append(s, j)
          /\ UNCHANGED <<accepted, lastDone>> /\ j \in ToSet(jobs)
      BY <1>2, <1>6, LineTake
    <2>2. j \notin ToSet(s) /\ j \notin ToSet(l) /\ j \notin accepted
      BY <1>1, <1>2, <1>4, <2>1, QueuedNotOnWay DEF JobConserved
    <2>3. Led(Append(s, j), Append(l, j), accepted, e)
      BY <1>3, <2>2, LedTake
    <2> QED
      BY <1>2, <2>1, <2>3 DEF Leads
  <1>7. CASE ~GatewayAccept(d) /\ \A j \in Job : ~TakeJob(d, j)
    <2>1. Line(d)' = l /\ UNCHANGED <<accepted, lastDone>>
      BY <1>0, <1>2, <1>7, LineKeeps DEF InTurn
    <2>2. \A k \in 0..Len(s) : Led(SubSeq(s, k + 1, Len(s)), l, accepted, e)
      BY <1>3, <1>4, LedCut
    <2>3. PICK t : t = cache'[d]
      OBVIOUS
    <2>4. t = s \/ \E k \in 0..Len(s) : t = SubSeq(s, k + 1, Len(s))
      BY <1>1, <1>2, <1>7, <2>3, CacheKeeps
    <2>5. Led(t, l, accepted, e)
      BY <1>3, <2>2, <2>4
    <2> QED
      BY <1>2, <2>1, <2>3, <2>5 DEF Leads
  <1> QED
    BY <1>5, <1>6, <1>7

LEMMA LeadsStep ==
    ASSUME TypeOK, Lifecycle, OwnWaiters, Orderly, Answers, JobConserved, Once, FirstTime, [Next]_vars,
           Calm', NEW d \in Conn
    PROVE  Leads(d)'
  <1>1. Leads(d)
    BY CalmBefore DEF FirstTime
  <1>2. CASE Client \/ UNCHANGED vars
    <2>1. UNCHANGED <<accepted, lastDone, wire, batch, writes, cache>>
      BY <1>2 DEF Client, Notify, Post, vars, gateVars, connVars
    <2>2. Line(d)' = Line(d)
      BY <2>1 DEF Line, Unsent
    <2> QED
      BY <1>1, <2>1, <2>2 DEF Leads
  <1>3. ASSUME NEW c \in Conn, Handler(c) \/ Gateway(c), c # d
        PROVE  Leads(d)'
    <2>1. Line(d)' = Line(d) /\ cache'[d] = cache[d] /\ lastDone'[d] = lastDone[d]
      BY <1>3, OthersKeep DEF Line, Unsent
    <2>2. CASE accepted' = accepted
      BY <1>1, <2>1, <2>2 DEF Leads
    <2>3. ASSUME NEW e \in Conn, GatewayAccept(e), accepted' = accepted \cup {Head(wire[e])},
                 cache' = cache
          PROVE  Leads(d)'
      <3>1. CASE e # d
        <4>1. PICK h : h = Head(wire[e])
          OBVIOUS
        <4>2. h \notin ToSet(cache[d])
          BY <2>3, <3>1, <4>1, AcceptedWasOnWay, QueuedNotOnWay
        <4>3. Led(cache[d], Line(d), accepted \cup {h}, lastDone[d])
          BY <1>1, <4>2, LedElsewhere DEF Leads
        <4> QED
          BY <2>1, <2>3, <4>1, <4>3 DEF Leads
      <3>2. CASE e = d
        BY <2>3, <3>2, OwnLeads DEF Gateway
      <3> QED
        BY <3>1, <3>2
    <2> QED
      BY <2>2, <2>3, AcceptedMoves
  <1>4. CASE Handler(d) \/ Gateway(d)
    BY <1>4, OwnLeads
  <1> QED
    BY <1>2, <1>3, <1>4 DEF Next

LEMMA FirstTimeInit == Init => FirstTime
  <1> SUFFICES ASSUME Init
               PROVE  FirstTime
    OBVIOUS
  <1>1. PICK e : e = <<>>
    OBVIOUS
  <1>2. DOMAIN e = {} /\ ToSet(e) = {}
    BY <1>1, ToSetEmpty
  <1>3. accepted = {}
    BY DEF Init
  <1>4. ASSUME NEW c \in Conn
        PROVE  Followed(c) /\ Leads(c)
    <2>1. cache[c] = e /\ resp[c].kind = "none" /\ wire[c] = e /\ batch[c] = e /\ writes[c] = e
      BY <1>1 DEF Init, NoResp
    <2>2. Line(c) = e
      <3>1. e \in Seq(Job) /\ e \o e = e
        BY <1>1, ConcatEmptySeq
      <3> QED
        BY <1>1, <2>1, <3>1 DEF Line, Unsent
    <2> QED
      BY <1>2, <2>1, <2>2 DEF Followed, NoneBehind, Leads, Led
  <1> QED
    BY <1>3, <1>4 DEF FirstTime

LEMMA FirstTimeStep ==
    ASSUME TypeOK, Lifecycle, OwnWaiters, Orderly, Answers, JobConserved, Once, FirstTime, [Next]_vars
    PROVE  FirstTime'
  <1>1. accepted' \subseteq posted' /\ (OneFailure' => ToSet(jobs)' \cap accepted' = {})
    BY FirstTimeQueue
  <1>2. OneFailure' => \A c \in Conn : OnWay(c)' \cap accepted' = {}
    BY FirstTimeOnWay
  <1>3. OneFailure' => \A c \in Conn : Followed(c)'
    BY FollowedStep
  <1>4. Calm' => \A c \in Conn : Leads(c)'
    BY LeadsStep
  <1> QED
    BY <1>1, <1>2, <1>3, <1>4 DEF FirstTime

LEMMA FirstTimeHolds == Spec => []FirstTime
  <1>1. TypeOK /\ Lifecycle /\ OwnWaiters /\ Orderly /\ Answers /\ JobConserved /\ Once
          /\ [Next]_vars /\ FirstTime => FirstTime'
    BY FirstTimeStep
  <1> QED
    BY <1>1, FirstTimeInit, TypeCorrect, LifecycleHolds, OwnWaitersHold, OrderlyHolds, AnswersHold,
       JobsConserved, OnceHolds, PTL DEF Spec

\* Around one failure the gateway accepts no request a second time, whichever
\* connections send it, whatever goes back to the queue and whichever writes
\* are still on their way.
THEOREM DeliveredOnce == Spec => DeliveredAtMostOnce
  <1>1. ASSUME TypeOK, Once, FirstTime, NEW c \in Conn, OneFailure, GatewayAccept(c)
        PROVE  Head(wire[c]) \notin accepted
    BY <1>1, AcceptedWasOnWay DEF FirstTime
  <1>2. TypeOK /\ Once /\ FirstTime /\ [Next]_vars
          => [\A c \in Conn : OneFailure /\ GatewayAccept(c) => Head(wire[c]) \notin accepted]_vars
    BY <1>1
  <1> QED
    BY <1>2, TypeCorrect, OnceHolds, FirstTimeHolds, PTL DEF Spec, DeliveredAtMostOnce
=============================================================================
