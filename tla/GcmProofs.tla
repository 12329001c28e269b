------------------------------ MODULE GcmProofs ------------------------------
(***************************************************************************)
(* Theorems about the GCM connections and their pool, for every set of     *)
(* connections and jobs, every kind of answer and every kind and number of *)
(* failures: types, the chain of handlers, the place of every job, and the *)
(* refinement of the ledger.                                               *)
(***************************************************************************)
EXTENDS GcmProperties, SequenceLemmas, FiniteSetTheorems, WellFoundedInduction

-----------------------------------------------------------------------------
\* The buffer.

\* A set of bounded natural numbers has a least element.
LEMMA Least ==
    ASSUME NEW n \in Nat, NEW S \in SUBSET (0..n), S # {}
    PROVE  Min(S) \in S
  <1> DEFINE U == {1..x : x \in S}
  <1>1. IsFiniteSet(1..n)
    BY FS_Interval
  <1>2. U \subseteq SUBSET (1..n)
    <2>1. ASSUME NEW x \in S
          PROVE  1..x \subseteq 1..n
      OBVIOUS
    <2> QED
      BY <2>1
  <1>3. U # {}
    OBVIOUS
  <1>4. IsWellFoundedOn(StrictSubsetOrdering(1..n), SUBSET (1..n))
    BY <1>1, FS_StrictSubsetOrderingWellFounded, FS_FiniteSubsetsOfFinite
  <1>5. PICK u \in U : \A v \in U : ~(<<v, u>> \in StrictSubsetOrdering(1..n))
    BY <1>2, <1>3, <1>4, WFMin
  <1>6. PICK x \in S : u = 1..x
    BY <1>5
  <1>7. ASSUME NEW y \in S, ~(x <= y)
        PROVE  FALSE
    <2>1. y < x /\ x \in Nat /\ y \in Nat /\ x <= n
      BY <1>7
    <2>2. 1..y \subseteq 1..x /\ 1..y # 1..x
      <3>1. x \in 1..x /\ x \notin 1..y
        BY <2>1
      <3> QED
        BY <2>1, <3>1
    <2>3. <<1..y, u>> \in StrictSubsetOrdering(1..n)
      BY <1>2, <1>6, <2>2 DEF StrictSubsetOrdering
    <2> QED
      BY <1>5, <2>3
  <1>8. \E z \in S : \A y \in S : z <= y
    BY <1>6, <1>7
  <1> QED
    BY <1>8 DEF Min

\* What is left behind a position.
LEMMA Rest ==
    ASSUME NEW T, NEW s \in Seq(T), NEW n \in Nat
    PROVE  SubSeq(s, n + 1, Len(s)) \in Seq(T)
  <1>1. Len(s) \in Nat /\ 1 <= n + 1
    BY LenProperties
  <1> QED
    BY <1>1, Segment

LEMMA AfterLineType ==
    ASSUME NEW T, NEW s \in Seq(T), NEW i \in Nat
    PROVE  AfterLine(s, i) \in Seq(T)
  <1> DEFINE S == {k \in i..Len(s) : s[k] = NL} \cup {Len(s)}
  <1>1. Len(s) \in Nat /\ S \in SUBSET (0..Len(s)) /\ S # {}
    BY LenProperties
  <1>2. Min(S) \in S
    BY <1>1, Least
  <1>3. Min(S) \in Nat
    BY <1>1, <1>2
  <1> HIDE DEF S
  <1>4. SubSeq(s, Min(S) + 1, Len(s)) \in Seq(T)
    BY <1>3, Rest
  <1> QED
    BY <1>4 DEF S, AfterLine

LEMMA AfterBlankType ==
    ASSUME NEW T, NEW s \in Seq(T)
    PROVE  AfterBlank(s) \in Seq(T)
  <1> DEFINE blank == {i \in DOMAIN s : s[i] = NL /\ (i > 1 => s[i - 1] = NL)}
             S     == blank \cup {Len(s)}
  <1>1. Len(s) \in Nat /\ DOMAIN s = 1..Len(s)
    BY LenProperties
  <1>2. S \in SUBSET (0..Len(s)) /\ S # {}
    BY <1>1
  <1>3. Min(S) \in S
    BY <1>1, <1>2, Least
  <1>4. Min(S) \in Nat
    BY <1>1, <1>2, <1>3
  <1> HIDE DEF S
  <1>5. SubSeq(s, Min(S) + 1, Len(s)) \in Seq(T)
    BY <1>4, Rest
  <1> QED
    BY <1>5 DEF S, AfterBlank

LEMMA FirstWordType ==
    ASSUME NEW T, NEW s \in Seq(T)
    PROVE  FirstWord(s) \in Nat
  <1> DEFINE I == {i \in 1..Len(s) : s[i] # NL}
  <1>1. Len(s) \in Nat /\ I \in SUBSET (0..Len(s))
    BY LenProperties
  <1>2. I # {} => Min(I) \in I
    BY <1>1, Least
  <1>3. FirstWord(s) = IF I # {} THEN Min(I) ELSE 0
    BY DEF FirstWord, SelectInSeq
  <1>4. I # {} => Min(I) \in Nat
    BY <1>1, <1>2
  <1>5. CASE I = {}
    BY <1>3, <1>5
  <1>6. CASE I # {}
    BY <1>3, <1>4, <1>6
  <1> QED
    BY <1>5, <1>6

LEMMA GarbledType ==
    ASSUME NEW T, NEW s \in Seq(T), NEW t \in Garbled(s)
    PROVE  t \in Seq(T)
  <1>1. PICK n \in 0..Len(s) : t = SubSeq(s, n + 1, Len(s))
    BY DEF Garbled
  <1>2. n \in Nat
    BY LenProperties
  <1> QED
    BY <1>1, <1>2, Rest

LEMMA AnswerType ==
    ASSUME NEW j \in Job, NEW r \in Result
    PROVE  Answer(j, r) \in Bytes
  BY DEF Answer, Bytes, Token, Texts, NL

-----------------------------------------------------------------------------
\* The waiters of a connection.

Mine(c, ws)   == {i \in DOMAIN ws : ws[i].conn = c}
Number(c, ws) == Cardinality(Mine(c, ws))

LEMMA NumberType ==
    ASSUME NEW ws \in Seq(Waiter), NEW c
    PROVE  /\ IsFiniteSet(Mine(c, ws))
           /\ Number(c, ws) \in Nat
           /\ Number(c, ws) = 0 => \A i \in DOMAIN ws : ws[i].conn # c
  <1>1. Len(ws) \in Nat /\ DOMAIN ws = 1..Len(ws)
    BY LenProperties
  <1>2. IsFiniteSet(1..Len(ws)) /\ Mine(c, ws) \in SUBSET (1..Len(ws))
    BY <1>1, FS_Interval DEF Mine
  <1>3. IsFiniteSet(Mine(c, ws))
    BY <1>2, FS_Subset
  <1>4. Number(c, ws) \in Nat /\ (Number(c, ws) = 0 => Mine(c, ws) = {})
    BY <1>3, FS_CardinalityType, FS_EmptySet DEF Number
  <1>5. Mine(c, ws) = {} => \A i \in DOMAIN ws : ws[i].conn # c
    BY DEF Mine
  <1> QED
    BY <1>3, <1>4, <1>5

LEMMA NumberEmpty ==
    ASSUME NEW c
    PROVE  Number(c, <<>>) = 0
  <1>1. Mine(c, <<>>) = {}
    BY DEF Mine
  <1> QED
    BY <1>1, FS_EmptySet DEF Number

LEMMA NumberAppend ==
    ASSUME NEW ws \in Seq(Waiter), NEW w \in Waiter, NEW c
    PROVE  Number(c, Append(ws, w)) = Number(c, ws) + (IF w.conn = c THEN 1 ELSE 0)
  <1> DEFINE n == Len(ws) + 1
             new == Append(ws, w)
  <1>1. /\ Len(ws) \in Nat /\ DOMAIN ws = 1..Len(ws)
        /\ DOMAIN new = 1..n
        /\ \A i \in 1..Len(ws) : new[i] = ws[i]
        /\ new[n] = w
    BY AppendProperties, LenProperties
  <1>2. IsFiniteSet(Mine(c, ws)) /\ Number(c, ws) \in Nat
    BY NumberType
  <1>3. n \notin Mine(c, ws)
    BY <1>1 DEF Mine
  <1> HIDE DEF new
  <1>4. CASE w.conn = c
    <2>1. Mine(c, new) = Mine(c, ws) \cup {n}
      BY <1>1, <1>4 DEF Mine
    <2>2. Number(c, new) = Number(c, ws) + 1
      BY <1>2, <1>3, <2>1, FS_AddElement DEF Number
    <2> QED
      BY <1>4, <2>2 DEF new
  <1>5. CASE w.conn # c
    <2>1. Mine(c, new) = Mine(c, ws)
      BY <1>1, <1>5 DEF Mine
    <2>2. Number(c, new) = Number(c, ws) + 0
      BY <1>2, <2>1 DEF Number
    <2> QED
      BY <1>5, <2>2 DEF new
  <1> QED
    BY <1>4, <1>5

LEMMA NumberTail ==
    ASSUME NEW ws \in Seq(Waiter), ws # <<>>, NEW c
    PROVE  Number(c, ws) = Number(c, Tail(ws)) + (IF Head(ws).conn = c THEN 1 ELSE 0)
  <1> DEFINE S == Mine(c, ws) \ {1}
             T == Mine(c, Tail(ws))
             f == [i \in S |-> i - 1]
  <1>1. /\ Len(ws) \in Nat \ {0} /\ DOMAIN ws = 1..Len(ws)
        /\ DOMAIN Tail(ws) = 1..(Len(ws) - 1)
        /\ \A i \in 1..(Len(ws) - 1) : Tail(ws)[i] = ws[i + 1]
        /\ Head(ws) = ws[1]
    BY EmptySeq, HeadTailProperties, LenProperties
  <1>2. IsFiniteSet(Mine(c, ws)) /\ Number(c, ws) \in Nat
    BY NumberType
  <1>3. IsFiniteSet(S)
    BY <1>2, FS_RemoveElement
  <1>4. f \in Bijection(S, T)
    <2>1. \A i \in S : i - 1 \in T
      BY <1>1 DEF Mine
    <2>2. f \in [S -> T]
      BY <2>1
    <2>3. \A i, k \in S : f[i] = f[k] => i = k
      BY <1>1 DEF Mine
    <2>4. \A k \in T : k + 1 \in S /\ f[k + 1] = k
      BY <1>1 DEF Mine
    <2>5. f \in Injection(S, T)
      BY <2>2, <2>3 DEF Injection, IsInjective
    <2>6. f \in Surjection(S, T)
      BY <2>2, <2>4 DEF Surjection
    <2> QED
      BY <2>5, <2>6 DEF Bijection
  <1>5. Cardinality(T) = Cardinality(S)
    BY <1>3, <1>4, FS_Bijection DEF ExistsBijection
  <1>6. Cardinality(S) = IF 1 \in Mine(c, ws) THEN Number(c, ws) - 1 ELSE Number(c, ws)
    BY <1>2, FS_RemoveElement DEF Number
  <1>7. 1 \in Mine(c, ws) <=> Head(ws).conn = c
    BY <1>1 DEF Mine
  <1>8. Cardinality(T) = Number(c, Tail(ws))
    BY DEF Number
  <1> HIDE DEF S, T
  <1> QED
    BY <1>2, <1>5, <1>6, <1>7, <1>8

\* Assigning a handle changes roles only.
LEMMA NumberAssigned ==
    ASSUME NEW ws \in Seq(Waiter), NEW c, NEW d
    PROVE  /\ Assigned(c, ws) \in Seq(Waiter)
           /\ Number(d, Assigned(c, ws)) = Number(d, ws)
           /\ DOMAIN Assigned(c, ws) = DOMAIN ws
           /\ \A i \in DOMAIN ws : ws[i].conn # c => Assigned(c, ws)[i] = ws[i]
           /\ \A i \in DOMAIN ws : Assigned(c, ws)[i].conn = ws[i].conn
  <1>1. DOMAIN ws = 1..Len(ws) /\ Len(ws) \in Nat
    BY LenProperties
  <1>2. \A i \in 1..Len(ws) : ws[i] \in Waiter
    BY ElementOfSeq
  <1>3. /\ Assigned(c, ws) \in [1..Len(ws) -> Waiter]
        /\ \A i \in 1..Len(ws) : Assigned(c, ws)[i].conn = ws[i].conn
        /\ \A i \in 1..Len(ws) : ws[i].conn # c => Assigned(c, ws)[i] = ws[i]
    BY <1>1, <1>2 DEF Assigned, Waiter
  <1>4. Assigned(c, ws) \in Seq(Waiter)
    BY <1>1, <1>3, SeqDef
  <1>5. DOMAIN Assigned(c, ws) = 1..Len(ws)
    BY <1>3
  <1>6. Mine(d, Assigned(c, ws)) = Mine(d, ws)
    BY <1>1, <1>3, <1>5 DEF Mine
  <1> QED
    BY <1>1, <1>3, <1>4, <1>5, <1>6 DEF Number

-----------------------------------------------------------------------------
\* The chain.

Links(c) ==
    Cardinality(op[c]) + wake[c] + Number(c, waiters) + (IF pc[c] = "wait" THEN 1 ELSE 0)

\* Of the handlers of c none is held while a new one is being assigned.
Swapping(c) ==
    pc[c] = "swap" => \A i \in DOMAIN waiters : waiters[i] # [conn |-> c, role |-> "held"]

ChainInv == \A c \in Conn : Links(c) = 1 /\ Swapping(c)

LEMMA OpsFinite == IsFiniteSet(Ops)
  <1> DEFINE e == <<"status", "headers", "size", "body", "footers",
                    "write", "start", "connect", "handshake", "restart">>
             f == [i \in 1..10 |-> e[i]]
  <1>1. /\ f[1] = "status" /\ f[2] = "headers" /\ f[3] = "size" /\ f[4] = "body" /\ f[5] = "footers"
        /\ f[6] = "write" /\ f[7] = "start" /\ f[8] = "connect" /\ f[9] = "handshake" /\ f[10] = "restart"
    OBVIOUS
  <1>2. \A i \in 1..10 : f[i] \in Ops
    BY DEF Ops, Flight, Reads
  <1>3. \A o \in Ops : \E i \in 1..10 : f[i] = o
    BY <1>1 DEF Ops, Flight, Reads
  <1>4. f \in [1..10 -> Ops]
    BY <1>2
  <1> HIDE DEF f
  <1>5. f \in Surjection(1..10, Ops)
    BY <1>3, <1>4 DEF Surjection
  <1>6. \A n \in Nat : IsFiniteSet(1..n)
    BY FS_Interval
  <1>7. IsFiniteSet(1..10)
    BY <1>6
  <1> QED
    BY <1>5, <1>7, FS_Surjection

LEMMA LinkTypes ==
    ASSUME TypeOK, NEW c \in Conn
    PROVE  /\ IsFiniteSet(op[c]) /\ Cardinality(op[c]) \in Nat
           /\ wake[c] \in Nat
           /\ Number(c, waiters) \in Nat
  <1>1. op[c] \in SUBSET Ops /\ wake[c] \in Nat /\ waiters \in Seq(Waiter)
    BY DEF TypeOK, PoolTypeOK, CondTypeOK
  <1> QED
    BY <1>1, OpsFinite, FS_Subset, FS_CardinalityType, NumberType

\* What one link says of the others.
LEMMA Alone ==
    ASSUME TypeOK, ChainInv, NEW c \in Conn
    PROVE  /\ \A o \in op[c] : op[c] = {o} /\ wake[c] = 0 /\ Number(c, waiters) = 0 /\ pc[c] # "wait"
           /\ wake[c] > 0 =>
                 wake[c] = 1 /\ op[c] = {} /\ Number(c, waiters) = 0 /\ pc[c] # "wait"
           /\ pc[c] = "wait" => wake[c] = 0 /\ op[c] = {} /\ Number(c, waiters) = 0
  <1> DEFINE n == Cardinality(op[c])
             w == wake[c]
             m == Number(c, waiters)
             p == IF pc[c] = "wait" THEN 1 ELSE 0
  <1>1. n \in Nat /\ w \in Nat /\ m \in Nat /\ p \in {0, 1} /\ n + w + m + p = 1
    BY LinkTypes DEF ChainInv, Links
  <1>2. n = 0 => op[c] = {}
    BY LinkTypes, FS_EmptySet
  <1>3. n = 1 => \E x : op[c] = {x}
    BY LinkTypes, FS_Singleton
  <1>4. p = 1 <=> pc[c] = "wait"
    OBVIOUS
  <1> HIDE DEF n, m, p
  <1>5. ASSUME NEW o \in op[c]
        PROVE  op[c] = {o} /\ w = 0 /\ m = 0 /\ p = 0
    BY <1>1, <1>2, <1>3, <1>5
  <1>6. w > 0 => w = 1 /\ n = 0 /\ m = 0 /\ p = 0
    BY <1>1
  <1>7. p = 1 => w = 0 /\ n = 0 /\ m = 0
    BY <1>1
  <1> USE DEF m
  <1> QED
    BY <1>1, <1>2, <1>4, <1>5, <1>6, <1>7

\* A step of c that leaves the waiters alone and replaces its only operation
\* by another, or by a call of wait_for_job.
LEMMA ChainReplace ==
    ASSUME TypeOK, ChainInv, NEW c \in Conn, NEW o, o \in op[c],
           UNCHANGED condVars,
           \A d \in Conn : d # c => op'[d] = op[d] /\ pc'[d] = pc[d],
           \/ pc'[c] = pc[c] /\ \E x : op'[c] = {x}
           \/ pc'[c] = "wait" /\ op'[c] = {}
    PROVE  ChainInv'
  <1> SUFFICES ASSUME NEW d \in Conn
               PROVE  (Links(d) = 1 /\ Swapping(d))'
    BY DEF ChainInv
  <1>1. UNCHANGED <<waiters, wake>>
    BY DEF condVars
  <1>2. CASE d # c
    BY <1>1, <1>2 DEF ChainInv, Links, Swapping
  <1>3. CASE d = c
    <2>1. wake[c] = 0 /\ Number(c, waiters) = 0 /\ pc[c] # "wait"
      BY Alone
    <2>2. CASE pc'[c] = pc[c] /\ \E x : op'[c] = {x}
      <3>1. Cardinality(op'[c]) = 1
        BY <2>2, FS_Singleton
      <3>2. Number(c, waiters)' = 0
        BY <1>1, <2>1 DEF Number, Mine
      <3> QED
        BY <1>1, <1>3, <2>1, <2>2, <3>1, <3>2 DEF ChainInv, Links, Swapping
    <2>3. CASE pc'[c] = "wait" /\ op'[c] = {}
      <3>1. Cardinality(op'[c]) = 0
        BY <2>3, FS_EmptySet
      <3>2. Number(c, waiters)' = 0
        BY <1>1, <2>1 DEF Number, Mine
      <3> QED
        BY <1>1, <1>3, <2>1, <2>3, <3>1, <3>2 DEF Links, Swapping
    <2> QED
      BY <2>2, <2>3
  <1> QED
    BY <1>2, <1>3

-----------------------------------------------------------------------------
\* Types.

ConnTypes ==
    /\ pc \in [Conn -> {"idle", "wait", "swap"}]
    /\ op \in [Conn -> SUBSET Ops]
    /\ sock \in [Conn -> {"none", "open", "dead"}]
    /\ fresh \in [Conn -> BOOLEAN]
    /\ req \in [Conn -> Seq(Job)]
    /\ ident \in [Conn -> Job \cup {None}]
    /\ size \in [Conn -> {"unset", "zero", "chunk", "junk"}]
    /\ buf \in [Conn -> Bytes]
    /\ body \in [Conn -> Body]

GateTypes ==
    /\ todo \in [Conn -> Seq(Job)]
    /\ net \in [Conn -> Bytes]
    /\ served \subseteq Job
    /\ accepted \subseteq Job
    /\ faults \in Nat

VerdictTypes ==
    /\ told \in [Job -> {"nothing", "success", "error"}]
    /\ dropped \subseteq Job

LEMMA TypeParts ==
    /\ TypeOK <=> PoolTypeOK /\ ConnTypes /\ GateTypes /\ VerdictTypes
    /\ TypeOK' <=> PoolTypeOK' /\ ConnTypes' /\ GateTypes' /\ VerdictTypes'
  BY DEF TypeOK, ConnTypes, GateTypes, VerdictTypes

\* A step keeps the types of what it leaves alone.
LEMMA TypeSame ==
    ASSUME TypeOK
    PROVE  /\ UNCHANGED <<condVars, poolVars>> => PoolTypeOK'
           /\ UNCHANGED connVars => ConnTypes'
           /\ UNCHANGED gateVars => GateTypes'
           /\ UNCHANGED verdicts => VerdictTypes'
  <1> USE TypeParts
  <1>1. UNCHANGED <<condVars, poolVars>> => PoolTypeOK'
    BY DEF PoolTypeOK, CondTypeOK, condVars, poolVars
  <1>2. UNCHANGED connVars => ConnTypes'
    BY DEF ConnTypes, connVars
  <1>3. UNCHANGED gateVars => GateTypes'
    BY DEF GateTypes, gateVars
  <1>4. UNCHANGED verdicts => VerdictTypes'
    BY DEF VerdictTypes, verdicts
  <1> QED
    BY <1>1, <1>2, <1>3, <1>4

LEMMA TypeInit == Init => TypeOK
  BY EmptySeq, NoneAssumption, FaultAssumption
     DEF Init, PoolInit, CondInit, TypeOK, PoolTypeOK, CondTypeOK, Ops, Flight, Reads, Bytes, Body, Empty

OpNames == {"start", "connect", "handshake", "restart", "write",
            "status", "headers", "size", "body", "footers"}

LEMMA OpNamesType == OpNames = Ops
  BY DEF OpNames, Ops, Flight, Reads

LEMMA AdvanceType ==
    ASSUME TypeOK, NEW c \in Conn, NEW o, NEW then \in OpNames,
           Advance(c, o, then) \/ Finish(c, o)
    PROVE  op' \in [Conn -> SUBSET Ops]
  <1>1. op \in [Conn -> SUBSET Ops] /\ then \in Ops
    BY OpNamesType, TypeParts DEF ConnTypes
  <1>2. CASE Advance(c, o, then)
    BY <1>1, <1>2 DEF Advance
  <1>3. CASE Finish(c, o)
    BY <1>1, <1>3 DEF Finish
  <1> QED
    BY <1>2, <1>3

LEMMA StartConnectType ==
    ASSUME TypeOK, NEW c \in Conn, NEW o, StartConnect(c, o)
    PROVE  /\ op' \in [Conn -> SUBSET Ops]
           /\ sock' \in [Conn -> {"none", "open", "dead"}]
           /\ todo' \in [Conn -> Seq(Job)]
           /\ net' \in [Conn -> Bytes]
  <1>1. op' \in [Conn -> SUBSET Ops]
    BY AdvanceType DEF StartConnect, OpNames
  <1> QED
    BY <1>1, EmptySeq, TypeParts DEF StartConnect, ConnTypes, GateTypes, Bytes

LEMMA GiveUpType ==
    ASSUME TypeOK, NEW c \in Conn, NEW o, GiveUp(c, o), ident[c] \in Job
    PROVE  op' \in [Conn -> SUBSET Ops] /\ dropped' \subseteq Job
  <1>1. op' \in [Conn -> SUBSET Ops]
    BY AdvanceType DEF GiveUp, Throw, OpNames
  <1> QED
    BY <1>1, TypeParts DEF GiveUp, VerdictTypes

LEMMA TellType ==
    ASSUME TypeOK, NEW c \in Conn, NEW v \in {"success", "error"}, Tell(c, v)
    PROVE  told' \in [Job -> {"nothing", "success", "error"}]
  BY TypeParts DEF Tell, VerdictTypes

\* A job in flight has been posted.
LEMMA FlightType ==
    ASSUME TypeOK, JobAccounted, NEW c \in Conn, op[c] \cap Flight # {}
    PROVE  ident[c] \in Job
  BY TypeParts DEF JobAccounted, InFlight, PoolTypeOK

LEMMA LifeTypes ==
    ASSUME TypeOK, JobAccounted, NEW c \in Conn,
           \/ Start(c) \/ RestartTimer(c) \/ HandleConnect(c) \/ HandleHandshake(c) \/ HandleWrite(c)
    PROVE  TypeOK'
  <1> USE TypeParts, TypeSame
  <1>1. CASE Start(c) \/ RestartTimer(c)
    BY <1>1, StartConnectType DEF Start, RestartTimer, ConnTypes, GateTypes
  <1>2. CASE HandleConnect(c)
    <2>1. op' \in [Conn -> SUBSET Ops]
      BY <1>2, AdvanceType DEF HandleConnect, Connected, ConnectFails, Throw, OpNames
    <2>2. faults' \in Nat
      BY <1>2 DEF HandleConnect, Connected, ConnectFails, Fault, GateTypes
    <2> QED
      BY <1>2, <2>1, <2>2 DEF HandleConnect, ConnTypes, GateTypes
  <1>3. CASE HandleHandshake(c)
    <2>1. op' \in [Conn -> SUBSET Ops]
      BY <1>3, AdvanceType DEF HandleHandshake, Established, ConnectFails, Throw, OpNames
    <2>2. faults' \in Nat
      BY <1>3 DEF HandleHandshake, Established, ConnectFails, Fault, GateTypes
    <2>3. /\ pc' \in [Conn -> {"idle", "wait", "swap"}]
          /\ sock' \in [Conn -> {"none", "open", "dead"}]
          /\ fresh' \in [Conn -> BOOLEAN]
      BY <1>3 DEF HandleHandshake, Established, ConnTypes
    <2> QED
      BY <1>3, <2>1, <2>2, <2>3 DEF HandleHandshake, ConnTypes, GateTypes
  <1>4. CASE HandleWrite(c)
    <2>1. op[c] \cap Flight # {}
      BY <1>4 DEF HandleWrite, Flight
    <2>2. op' \in [Conn -> SUBSET Ops] /\ dropped' \subseteq Job
      <3>1. FirstRead(c) \in OpNames
        BY DEF FirstRead, OpNames
      <3>2. CASE Advance(c, "write", FirstRead(c)) /\ UNCHANGED dropped
        BY <3>1, <3>2, AdvanceType DEF VerdictTypes
      <3>3. CASE GiveUp(c, "write")
        BY <2>1, <3>3, GiveUpType, FlightType
      <3> QED
        BY <1>4, <3>2, <3>3 DEF HandleWrite
    <2> QED
      BY <1>4, <2>2 DEF HandleWrite, ConnTypes, VerdictTypes
  <1> QED
    BY <1>1, <1>2, <1>3, <1>4

LEMMA ReadTypes ==
    ASSUME TypeOK, JobAccounted, NEW c \in Conn,
           \/ HandleReadStatusline(c) \/ HandleReadHeaders(c) \/ HandleReadChunkSize(c)
    PROVE  TypeOK'
  <1> USE TypeParts, TypeSame
  <1>0. buf[c] \in Seq(Token \cup {NL}) /\ 1 \in Nat
    BY DEF ConnTypes, Bytes
  <1>1. CASE HandleReadStatusline(c)
    <2> DEFINE w == FirstWord(buf[c])
    <2>1. w \in Nat
      BY <1>0, FirstWordType
    <2> HIDE DEF w
    <2>2. AfterLine(buf[c], w) \in Bytes
      BY <1>0, <2>1, AfterLineType DEF Bytes
    <2>3. CASE StatusOk(c, w)
      <3>1. op' \in [Conn -> SUBSET Ops]
        BY <2>3, AdvanceType DEF StatusOk, OpNames
      <3> QED
        BY <1>1, <2>2, <2>3, <3>1 DEF HandleReadStatusline, StatusOk, ConnTypes, GateTypes, VerdictTypes
    <2>4. CASE StatusRefused(c, w)
      <3>1. told' \in [Job -> {"nothing", "success", "error"}]
        BY <2>4, TellType DEF StatusRefused
      <3>2. /\ op' \in [Conn -> SUBSET Ops] /\ sock' \in [Conn -> {"none", "open", "dead"}]
            /\ todo' \in [Conn -> Seq(Job)] /\ net' \in [Conn -> Bytes]
        BY <2>4, StartConnectType DEF StatusRefused
      <3> QED
        BY <1>1, <2>2, <2>4, <3>1, <3>2
        DEF HandleReadStatusline, StatusRefused, ConnTypes, GateTypes, VerdictTypes
    <2>5. CASE NoStatus(c)
      <3>1. told' \in [Job -> {"nothing", "success", "error"}]
        BY <2>5, TellType DEF NoStatus
      <3>2. /\ op' \in [Conn -> SUBSET Ops] /\ sock' \in [Conn -> {"none", "open", "dead"}]
            /\ todo' \in [Conn -> Seq(Job)] /\ net' \in [Conn -> Bytes]
        BY <2>5, StartConnectType DEF NoStatus
      <3>3. PICK rest \in Garbled(buf[c]) : buf' = [buf EXCEPT ![c] = rest]
        BY <2>5 DEF NoStatus
      <3>4. rest \in Bytes
        BY <1>0, GarbledType DEF Bytes
      <3> QED
        BY <1>1, <3>1, <3>2, <3>3, <3>4 DEF HandleReadStatusline, ConnTypes, GateTypes, VerdictTypes
    <2> QED
      BY <1>1, <2>3, <2>4, <2>5 DEF HandleReadStatusline, w
  <1>2. CASE HandleReadHeaders(c)
    <2>1. op' \in [Conn -> SUBSET Ops]
      BY <1>2, AdvanceType DEF HandleReadHeaders, OpNames
    <2>2. AfterBlank(buf[c]) \in Bytes
      BY <1>0, AfterBlankType DEF Bytes
    <2> QED
      BY <1>2, <2>1, <2>2 DEF HandleReadHeaders, ConnTypes
  <1>3. CASE HandleReadChunkSize(c)
    <2>1. PICK new \in Extracted(Head(buf[c]), size[c]) :
             /\ size' = [size EXCEPT ![c] = new]
             /\ Advance(c, "size", IF new = "zero" THEN "footers" ELSE "body")
      BY <1>3 DEF HandleReadChunkSize
    <2>2. new \in {"unset", "zero", "chunk", "junk"}
      BY DEF Extracted, ConnTypes
    <2>3. op' \in [Conn -> SUBSET Ops]
      BY <2>1, AdvanceType DEF OpNames
    <2>4. AfterLine(buf[c], 1) \in Bytes
      BY <1>0, AfterLineType DEF Bytes
    <2> QED
      BY <1>3, <2>1, <2>2, <2>3, <2>4 DEF HandleReadChunkSize, ConnTypes
  <1> QED
    BY <1>1, <1>2, <1>3

LEMMA AppendBodyType ==
    ASSUME TypeOK, NEW c \in Conn, NEW b \in Body, AppendBody(c, b)
    PROVE  body' \in [Conn -> Body]
  BY TypeParts DEF AppendBody, ConnTypes

\* A chunk at the front of the buffer is a body.
LEMMA ChunkType ==
    ASSUME NEW s \in Bytes, HasChunk(s)
    PROVE  Whole(s[1]) \in Body
  <1>1. s \in Seq(Token \cup {NL}) /\ Len(s) \in Nat /\ Len(s) >= 2
    BY LenProperties DEF Bytes, HasChunk
  <1>2. s[1] \in Token \cup {NL}
    BY <1>1, ElementOfSeq
  <1>3. s[1] \in Token
    BY <1>2 DEF HasChunk, NL
  <1>4. s[1].job \in Job /\ s[1].result \in Result
    BY <1>3 DEF Token
  <1> QED
    BY <1>4 DEF Whole, Body

LEMMA BodyTypes ==
    ASSUME TypeOK, JobAccounted, NEW c \in Conn, HandleReadBody(c)
    PROVE  TypeOK'
  <1> USE TypeParts, TypeSame
  <1>0. /\ buf[c] \in Bytes /\ buf[c] \in Seq(Token \cup {NL})
        /\ "body" \in op[c] /\ op[c] \cap Flight # {}
        /\ UNCHANGED <<condVars, poolVars, pc, sock, fresh, req, ident, size, gateVars, told>>
    BY DEF ConnTypes, Bytes, HandleReadBody, Reading, Flight, Reads
  <1>1. Broken \in Body /\ Empty \in Body
    BY DEF Body
  <1>2. ASSUME NextChunk(c)
        PROVE  op' \in [Conn -> SUBSET Ops] /\ dropped' \subseteq Job
    BY <1>2, AdvanceType DEF NextChunk, VerdictTypes, OpNames
  <1>3. ASSUME op' \in [Conn -> SUBSET Ops], dropped' \subseteq Job,
               buf' \in [Conn -> Bytes], body' \in [Conn -> Body]
        PROVE  TypeOK'
    BY <1>0, <1>3 DEF ConnTypes, VerdictTypes
  <1>4. CASE WholeChunk(c)
    <2>1. SubSeq(buf[c], 3 + 1, Len(buf[c])) \in Seq(Token \cup {NL})
      BY <1>0, Rest
    <2>2. buf' \in [Conn -> Bytes]
      BY <1>4, <2>1 DEF WholeChunk, ConnTypes, Bytes
    <2>3. body' \in [Conn -> Body]
      BY <1>0, <1>4, ChunkType, AppendBodyType DEF WholeChunk
    <2> QED
      BY <1>2, <1>3, <1>4, <2>2, <2>3 DEF WholeChunk
  <1>5. CASE WrongChunk(c)
    <2>1. PICK n \in 1..Len(buf[c]) :
             /\ buf' = [buf EXCEPT ![c] = SubSeq(@, n + 1, Len(@))]
             /\ AppendBody(c, IF HasChunk(SubSeq(buf[c], 1, n)) THEN Whole(buf[c][1]) ELSE Broken)
      BY <1>5 DEF WrongChunk
    <2>2. n \in Nat /\ n \in Int /\ n <= Len(buf[c]) /\ 1 \in Int /\ 1 <= 1 /\ 1 <= n
      BY <1>0, LenProperties
    <2>3. SubSeq(buf[c], n + 1, Len(buf[c])) \in Seq(Token \cup {NL})
      BY <1>0, <2>2, Rest
    <2>4. buf' \in [Conn -> Bytes]
      BY <2>1, <2>3 DEF ConnTypes, Bytes
    <2>5. HasChunk(SubSeq(buf[c], 1, n)) => HasChunk(buf[c])
      <3>1. /\ Len(SubSeq(buf[c], 1, n)) = n
            /\ \A i \in 1..n : SubSeq(buf[c], 1, n)[i] = buf[c][i]
        BY <1>0, <2>2, SubSeqProperties
      <3>2. Len(buf[c]) \in Nat
        BY <1>0, LenProperties
      <3> QED
        BY <2>2, <3>1, <3>2 DEF HasChunk
    <2>6. body' \in [Conn -> Body]
      BY <1>0, <1>1, <2>1, <2>5, ChunkType, AppendBodyType
    <2> QED
      BY <1>2, <1>3, <1>5, <2>4, <2>6 DEF WrongChunk
  <1>6. CASE TooBig(c)
    <2>1. op' \in [Conn -> SUBSET Ops] /\ dropped' \subseteq Job
      BY <1>0, <1>6, GiveUpType, FlightType DEF TooBig
    <2> QED
      BY <1>3, <1>6, <2>1 DEF TooBig, ConnTypes
  <1> QED
    BY <1>4, <1>5, <1>6 DEF HandleReadBody

LEMMA EndTypes ==
    ASSUME TypeOK, JobAccounted, NEW c \in Conn,
           HandleSkipFooters(c) \/ \E o \in Reads : ReadFails(c, o)
    PROVE  TypeOK'
  <1> USE TypeParts, TypeSame
  <1>1. CASE HandleSkipFooters(c)
    <2>0. /\ "footers" \in op[c] /\ op[c] \cap Flight # {}
          /\ UNCHANGED <<condVars, poolVars, sock, fresh, req, ident, size, body, gateVars>>
      BY <1>1 DEF HandleSkipFooters, Reading, Flight, Reads
    <2>1. buf[c] \in Seq(Token \cup {NL})
      BY DEF ConnTypes, Bytes
    <2>2. AfterBlank(buf[c]) \in Bytes
      BY <2>1, AfterBlankType DEF Bytes
    <2>3. buf' \in [Conn -> Bytes]
      BY <1>1, <2>2 DEF HandleSkipFooters, ConnTypes
    <2>4. CASE Conclude(c)
      <3>1. told' \in [Job -> {"nothing", "success", "error"}]
        BY <2>4, TellType DEF Conclude
      <3>2. op' \in [Conn -> SUBSET Ops]
        BY <2>4, AdvanceType DEF Conclude, OpNames
      <3>3. pc' \in [Conn -> {"idle", "wait", "swap"}] /\ dropped' \subseteq Job
        BY <2>4 DEF Conclude, ConnTypes, VerdictTypes
      <3> QED
        BY <2>0, <2>3, <3>1, <3>2, <3>3 DEF ConnTypes, VerdictTypes
    <2>5. CASE NoObject(c)
      <3>1. op' \in [Conn -> SUBSET Ops] /\ dropped' \subseteq Job /\ UNCHANGED <<pc, told>>
        BY <2>0, <2>5, GiveUpType, FlightType DEF NoObject
      <3> QED
        BY <2>0, <2>3, <3>1 DEF ConnTypes, VerdictTypes
    <2> QED
      BY <1>1, <2>4, <2>5 DEF HandleSkipFooters
  <1>2. ASSUME NEW o \in Reads, ReadFails(c, o)
        PROVE  TypeOK'
    <2>1. op[c] \cap Flight # {}
      BY <1>2 DEF ReadFails, Flight
    <2>2. op' \in [Conn -> SUBSET Ops] /\ dropped' \subseteq Job
      BY <1>2, <2>1, GiveUpType, FlightType DEF ReadFails
    <2> QED
      BY <1>2, <2>2 DEF ReadFails, ConnTypes, VerdictTypes
  <1> QED
    BY <1>1, <1>2

LEMMA ArriveTypes ==
    ASSUME TypeOK, NEW c \in Conn,
           (\E n \in 1..Len(net[c]) : Receive(c, n)) \/ Server(c)
    PROVE  TypeOK'
  <1> USE TypeParts, TypeSame
  <1>0. buf[c] \in Seq(Token \cup {NL}) /\ net[c] \in Seq(Token \cup {NL}) /\ todo[c] \in Seq(Job)
    BY DEF ConnTypes, GateTypes, Bytes
  <1>1. ASSUME NEW n \in 1..Len(net[c]), Receive(c, n)
        PROVE  TypeOK'
    <2>1. n \in Nat /\ n \in Int /\ n <= Len(net[c]) /\ 1 \in Int /\ 1 <= 1
      BY <1>0, LenProperties
    <2>2. SubSeq(net[c], 1, n) \in Seq(Token \cup {NL}) /\ SubSeq(net[c], n + 1, Len(net[c])) \in Seq(Token \cup {NL})
      BY <1>0, <2>1, Segment, Rest
    <2>3. buf[c] \o SubSeq(net[c], 1, n) \in Seq(Token \cup {NL})
      BY <1>0, <2>2, ConcatProperties
    <2> QED
      BY <1>1, <2>2, <2>3 DEF Receive, ConnTypes, GateTypes, Bytes
  <1>2. ASSUME NEW r \in Results, Serve(c, r)
        PROVE  TypeOK'
    <2>1. Head(todo[c]) \in Job /\ Tail(todo[c]) \in Seq(Job)
      BY <1>0, <1>2, HeadTailProperties DEF Serve
    <2>2. Answer(Head(todo[c]), r) \in Seq(Token \cup {NL})
      BY <2>1, AnswerType, ResultAssumption DEF Bytes
    <2>3. net[c] \o Answer(Head(todo[c]), r) \in Seq(Token \cup {NL})
      BY <1>0, <2>2, ConcatProperties
    <2> QED
      BY <1>2, <2>1, <2>3 DEF Serve, GateTypes, Bytes
  <1>3. CASE Drop(c)
    <2>1. net' \in [Conn -> Bytes]
      BY <1>3, EmptySeq DEF Drop, GateTypes, Bytes
    <2>2. todo' \in [Conn -> Seq(Job)]
      BY <1>3, EmptySeq DEF Drop, GateTypes
    <2>3. faults' \in Nat /\ sock' \in [Conn -> {"none", "open", "dead"}]
      BY <1>3 DEF Drop, Fault, ConnTypes, GateTypes
    <2> QED
      BY <1>3, <2>1, <2>2, <2>3 DEF Drop, ConnTypes, GateTypes
  <1>4. CASE IdleClose(c)
    BY <1>4 DEF IdleClose, ConnTypes
  <1> QED
    BY <1>1, <1>2, <1>3, <1>4 DEF Server

-----------------------------------------------------------------------------
\* The calls of the pool: types and links.

\* A notification moves a link from the waiters to the client's io_service.
LEMMA NotifyTypes ==
    ASSUME TypeOK, ChainInv, NotifyOne, UNCHANGED connVars
    PROVE  CondTypeOK' /\ ChainInv'
  <1>0. waiters \in Seq(Waiter) /\ wake \in [Conn -> Nat] /\ UNCHANGED <<op, pc>>
    BY TypeParts DEF PoolTypeOK, CondTypeOK, connVars
  <1>1. CASE waiters = <<>>
    <2>1. UNCHANGED <<waiters, wake>>
      BY <1>1 DEF NotifyOne, condVars
    <2>2. \A c \in Conn : Links(c)' = Links(c) /\ (Swapping(c) => Swapping(c)')
      BY <1>0, <2>1 DEF Links, Swapping
    <2> QED
      BY <1>0, <2>1, <2>2 DEF CondTypeOK, ChainInv
  <1>2. CASE waiters # <<>>
    <2>1. /\ wake' = [wake EXCEPT ![Head(waiters).conn] = @ + 1]
          /\ waiters' = Tail(waiters)
      BY <1>2 DEF NotifyOne
    <2>2. Head(waiters) \in Waiter /\ Tail(waiters) \in Seq(Waiter)
      BY <1>0, <1>2, HeadTailProperties
    <2>3. Head(waiters).conn \in Conn
      BY <2>2 DEF Waiter
    <2>4. CondTypeOK'
      BY <1>0, <2>1, <2>2, <2>3 DEF CondTypeOK
    <2>5. ASSUME NEW c \in Conn
          PROVE  Links(c)' = Links(c)
      <3> DEFINE m == Number(c, waiters)
                 k == Number(c, Tail(waiters))
                 n == Cardinality(op[c])
      <3>1. m = k + (IF Head(waiters).conn = c THEN 1 ELSE 0)
        BY <1>0, <1>2, NumberTail
      <3>2. m \in Nat /\ k \in Nat /\ wake[c] \in Nat /\ n \in Nat
        BY <1>0, <2>2, NumberType, LinkTypes
      <3>3. wake'[c] = wake[c] + (IF Head(waiters).conn = c THEN 1 ELSE 0)
        BY <1>0, <2>1, <2>3, <3>2
      <3>4. Links(c)' = n + wake'[c] + k + (IF pc[c] = "wait" THEN 1 ELSE 0)
        BY <1>0, <2>1 DEF Links
      <3>5. Links(c) = n + wake[c] + m + (IF pc[c] = "wait" THEN 1 ELSE 0)
        BY DEF Links
      <3> HIDE DEF m, k, n
      <3> QED
        BY <3>1, <3>2, <3>3, <3>4, <3>5
    <2>6. ASSUME NEW c \in Conn
          PROVE  Swapping(c)'
      <3>1. \A i \in DOMAIN Tail(waiters) : i + 1 \in DOMAIN waiters /\ Tail(waiters)[i] = waiters[i + 1]
        BY <1>0, <1>2, EmptySeq, HeadTailProperties, LenProperties
      <3> QED
        BY <1>0, <2>1, <3>1 DEF ChainInv, Swapping
    <2> QED
      BY <2>4, <2>5, <2>6 DEF ChainInv
  <1> QED
    BY <1>1, <1>2

LEMMA ClientTypes ==
    ASSUME TypeOK, ChainInv, Notify \/ \E j \in Job : Post(j)
    PROVE  TypeOK' /\ ChainInv'
  <1> USE TypeParts, TypeSame
  <1>1. CASE Notify
    <2>1. CondTypeOK' /\ ChainInv'
      BY <1>1, NotifyTypes DEF Notify, PostNotify
    <2>2. PoolTypeOK'
      BY <1>1, <2>1 DEF Notify, PostNotify, PoolTypeOK
    <2> QED
      BY <1>1, <2>1, <2>2 DEF Notify
  <1>2. ASSUME NEW j \in Job, Post(j)
        PROVE  TypeOK' /\ ChainInv'
    <2>1. Append(jobs, j) \in Seq(Job)
      BY AppendProperties DEF PoolTypeOK
    <2>2. PoolTypeOK'
      BY <1>2, <2>1 DEF Post, PostPush, PoolTypeOK, CondTypeOK, condVars
    <2>3. ChainInv'
      BY <1>2 DEF Post, PostPush, ChainInv, Links, Swapping, condVars, connVars
    <2> QED
      BY <1>2, <2>2, <2>3 DEF Post
  <1> QED
    BY <1>1, <1>2

\* The handler of a notified connection: a job, or another wait.
LEMMA JobAvailableTypes ==
    ASSUME TypeOK, ChainInv, NEW c \in Conn, HandleJobAvailable(c)
    PROVE  TypeOK' /\ ChainInv'
  <1> USE TypeParts, TypeSame
  <1>1. /\ wake[c] = 1 /\ op[c] = {} /\ Number(c, waiters) = 0 /\ pc[c] = "idle"
        /\ wake' = [wake EXCEPT ![c] = @ - 1] /\ UNCHANGED waiters
        /\ wake \in [Conn -> Nat]
    BY Alone DEF HandleJobAvailable, Woken, PoolTypeOK, CondTypeOK
  <1>2. wake'[c] = 0 /\ \A d \in Conn : d # c => wake'[d] = wake[d]
    BY <1>1
  <1>3. CondTypeOK'
    BY <1>1 DEF CondTypeOK, PoolTypeOK
  <1>4. Number(c, waiters)' = 0
    BY <1>1 DEF Number, Mine
  <1>5. ASSUME \A d \in Conn : d # c => op'[d] = op[d] /\ pc'[d] = pc[d],
               (op'[c] = {"write"} /\ pc'[c] = "idle") \/ (op'[c] = {} /\ pc'[c] = "wait")
        PROVE  ChainInv'
    <2>1. ASSUME NEW d \in Conn, d # c
          PROVE  Links(d)' = 1 /\ Swapping(d)'
      BY <1>1, <1>2, <1>5, <2>1 DEF ChainInv, Links, Swapping
    <2>2. Links(c)' = 1 /\ Swapping(c)'
      <3>1. Cardinality({"write"}) = 1 /\ Cardinality({}) = 0
        BY FS_Singleton, FS_EmptySet
      <3> QED
        BY <1>2, <1>4, <1>5, <3>1 DEF Links, Swapping
    <2> QED
      BY <2>1, <2>2 DEF ChainInv
  <1>6. CASE NoJob(c)
    <2>1. PoolTypeOK'
      BY <1>3, <1>6 DEF NoJob, PoolTypeOK, poolVars
    <2>2. pc' = [pc EXCEPT ![c] = "wait"] /\ op' = op
      BY <1>6 DEF NoJob
    <2>3. ChainInv'
      BY <1>1, <1>5, <2>2 DEF ConnTypes
    <2>4. TypeOK'
      BY <1>6, <2>1 DEF HandleJobAvailable, NoJob, ConnTypes, GateTypes
    <2> QED
      BY <2>3, <2>4
  <1>7. ASSUME NEW j \in Job, SendJob(c, j)
        PROVE  TypeOK' /\ ChainInv'
    <2>1. jobs' = Tail(jobs) /\ jobs # <<>> /\ UNCHANGED <<notifying, posted>>
      BY <1>7 DEF SendJob, GetNextJob
    <2>2. PoolTypeOK'
      BY <1>3, <2>1, HeadTailProperties DEF PoolTypeOK
    <2>3. req' \in [Conn -> Seq(Job)]
      BY <1>7, AppendProperties DEF SendJob, AppendRequest, ConnTypes
    <2>4. todo' \in [Conn -> Seq(Job)]
      <3>1. todo[c] \o req'[c] \in Seq(Job)
        BY <2>3, ConcatProperties DEF GateTypes
      <3> QED
        BY <1>7, <3>1 DEF SendJob, GateTypes
    <2>5. op' = [op EXCEPT ![c] = @ \cup {"write"}] /\ pc' = pc
      BY <1>7 DEF SendJob
    <2>6. op' \in [Conn -> SUBSET Ops]
      BY <2>5, OpNamesType DEF ConnTypes, OpNames
    <2>7. ident' \in [Conn -> Job \cup {None}] /\ body' \in [Conn -> Body]
      BY <1>7 DEF SendJob, ConnTypes, Body
    <2>8. ChainInv'
      BY <1>1, <1>5, <2>5 DEF ConnTypes
    <2>9. TypeOK'
      BY <1>7, <2>2, <2>3, <2>4, <2>6, <2>7 DEF HandleJobAvailable, SendJob, ConnTypes, GateTypes
    <2> QED
      BY <2>8, <2>9
  <1> QED
    BY <1>6, <1>7 DEF HandleJobAvailable

LEMMA WaitTypes ==
    ASSUME TypeOK, ChainInv, NEW c \in Conn, WaitForJob(c)
    PROVE  TypeOK' /\ ChainInv'
  <1> USE TypeParts, TypeSame
  <1> DEFINE w == [conn |-> c, role |-> "new"]
  <1>1. /\ waiters \in Seq(Waiter) /\ w \in Waiter /\ wake \in [Conn -> Nat]
        /\ waiters' = Append(waiters, w) /\ UNCHANGED <<wake, op>>
        /\ pc[c] = "wait" /\ pc' = [pc EXCEPT ![c] = "swap"]
    BY DEF PoolTypeOK, CondTypeOK, WaitForJob, AsyncWait, Waiter
  <1>2. Append(waiters, w) \in Seq(Waiter)
    BY <1>1, AppendProperties
  <1>3. TypeOK'
    BY <1>1, <1>2 DEF WaitForJob, PoolTypeOK, CondTypeOK, poolVars, ConnTypes
  <1>4. wake[c] = 0 /\ op[c] = {} /\ Number(c, waiters) = 0
    BY <1>1, Alone
  <1>5. \A d \in Conn : Number(d, waiters)' = Number(d, waiters) + (IF c = d THEN 1 ELSE 0)
    BY <1>1, NumberAppend
  <1>6. /\ \A i \in DOMAIN waiters : waiters'[i] = waiters[i] /\ waiters[i].conn # c
        /\ \A i \in DOMAIN waiters' : i \in DOMAIN waiters \/ waiters'[i] = w
    BY <1>1, <1>4, NumberType, AppendProperties, LenProperties
  <1>7. ASSUME NEW d \in Conn, d # c
        PROVE  Links(d)' = 1 /\ Swapping(d)'
    <2>1. Number(d, waiters)' = Number(d, waiters) + 0
      BY <1>5, <1>7
    <2>2. Number(d, waiters) \in Nat
      BY <1>1, NumberType
    <2>3. pc'[d] = pc[d]
      BY <1>1, <1>7 DEF ConnTypes
    <2>4. Links(d)' = 1
      BY <1>1, <2>1, <2>2, <2>3 DEF ChainInv, Links
    <2>5. Swapping(d)'
      <3>1. ASSUME pc[d] = "swap", NEW i \in DOMAIN waiters'
            PROVE  waiters'[i] # [conn |-> d, role |-> "held"]
        <4>1. CASE i \in DOMAIN waiters
          BY <1>6, <3>1, <4>1 DEF ChainInv, Swapping
        <4>2. CASE waiters'[i] = w
          BY <1>7, <4>2
        <4> QED
          BY <1>6, <3>1, <4>1, <4>2
      <3> QED
        BY <2>3, <3>1 DEF Swapping
    <2> QED
      BY <2>4, <2>5
  <1>8. Links(c)' = 1
    <2>1. Number(c, waiters)' = 1
      BY <1>4, <1>5
    <2>2. Cardinality(op'[c]) = 0 /\ wake'[c] = 0
      BY <1>1, <1>4, FS_EmptySet
    <2>3. pc'[c] = "swap"
      BY <1>1 DEF ConnTypes
    <2> QED
      BY <2>1, <2>2, <2>3 DEF Links
  <1>9. Swapping(c)'
    <2>1. ASSUME NEW i \in DOMAIN waiters'
          PROVE  waiters'[i] # [conn |-> c, role |-> "held"]
      <3>1. CASE i \in DOMAIN waiters
        BY <1>6, <3>1
      <3>2. CASE waiters'[i] = w
        BY <3>2
      <3> QED
        BY <1>6, <2>1, <3>1, <3>2
    <2> QED
      BY <2>1 DEF Swapping
  <1> QED
    BY <1>3, <1>7, <1>8, <1>9 DEF ChainInv

LEMMA SwapTypes ==
    ASSUME TypeOK, ChainInv, NEW c \in Conn, SwapHandle(c)
    PROVE  TypeOK' /\ ChainInv'
  <1> USE TypeParts, TypeSame
  <1>1. /\ waiters \in Seq(Waiter) /\ UNCHANGED <<wake, op>>
        /\ pc[c] = "swap" /\ pc' = [pc EXCEPT ![c] = "idle"]
    BY DEF PoolTypeOK, CondTypeOK, SwapHandle, AssignHandle
  <1>2. [conn |-> c, role |-> "held"] \notin ToSet(waiters)
    BY <1>1 DEF ChainInv, Swapping, ToSet
  <1>3. waiters' = Assigned(c, waiters)
    BY <1>2 DEF SwapHandle, AssignHandle, Disconnected
  <1>4. /\ waiters' \in Seq(Waiter)
        /\ \A d \in Conn : Number(d, waiters)' = Number(d, waiters)
        /\ DOMAIN waiters' = DOMAIN waiters
        /\ \A i \in DOMAIN waiters : waiters'[i].conn = waiters[i].conn
        /\ \A i \in DOMAIN waiters : waiters[i].conn # c => waiters'[i] = waiters[i]
    BY <1>1, <1>3, NumberAssigned
  <1>5. TypeOK'
    BY <1>1, <1>4 DEF SwapHandle, PoolTypeOK, CondTypeOK, poolVars, ConnTypes
  <1>6. pc'[c] = "idle" /\ \A d \in Conn : d # c => pc'[d] = pc[d]
    BY <1>1 DEF ConnTypes
  <1>7. ASSUME NEW d \in Conn
        PROVE  Links(d)' = 1
    BY <1>1, <1>4, <1>6 DEF ChainInv, Links
  <1>8. ASSUME NEW d \in Conn
        PROVE  Swapping(d)'
    <2>1. CASE d = c
      BY <1>6, <2>1 DEF Swapping
    <2>2. ASSUME d # c, pc[d] = "swap", NEW i \in DOMAIN waiters
          PROVE  waiters'[i] # [conn |-> d, role |-> "held"]
      <3>1. waiters[i] # [conn |-> d, role |-> "held"]
        BY <2>2 DEF ChainInv, Swapping
      <3>2. CASE waiters[i].conn = c
        BY <1>4, <2>2, <3>2
      <3>3. CASE waiters[i].conn # c
        BY <1>4, <3>1, <3>3
      <3> QED
        BY <3>2, <3>3
    <2> QED
      BY <1>4, <1>6, <2>1, <2>2 DEF Swapping
  <1> QED
    BY <1>5, <1>7, <1>8 DEF ChainInv

-----------------------------------------------------------------------------
\* The links of the other steps: one operation replaces another.

LEMMA Replaced ==
    ASSUME TypeOK, ChainInv, NEW c \in Conn, NEW o, o \in op[c]
    PROVE  /\ \A then : Advance(c, o, then) => op' = [op EXCEPT ![c] = {then}]
           /\ Finish(c, o) => op' = [op EXCEPT ![c] = {}]
  <1>1. op[c] = {o} /\ op \in [Conn -> SUBSET Ops]
    BY Alone, TypeParts DEF ConnTypes
  <1> QED
    BY <1>1 DEF Advance, Finish

LEMMA ChainAdvances ==
    ASSUME TypeOK, ChainInv, NEW c \in Conn, NEW o, o \in op[c], NEW then,
           Advance(c, o, then), UNCHANGED <<condVars, pc>>
    PROVE  ChainInv'
  <1>1. op' = [op EXCEPT ![c] = {then}] /\ op \in [Conn -> SUBSET Ops]
    BY Replaced, TypeParts DEF ConnTypes
  <1>2. op'[c] = {then} /\ \A d \in Conn : d # c => op'[d] = op[d]
    BY <1>1
  <1> QED
    BY <1>2, ChainReplace

LEMMA ChainFinishes ==
    ASSUME TypeOK, ChainInv, NEW c \in Conn, NEW o, o \in op[c],
           Finish(c, o), pc' = [pc EXCEPT ![c] = "wait"], UNCHANGED condVars
    PROVE  ChainInv'
  <1>1. op' = [op EXCEPT ![c] = {}] /\ op \in [Conn -> SUBSET Ops] /\ pc \in [Conn -> {"idle", "wait", "swap"}]
    BY Replaced, TypeParts DEF ConnTypes
  <1>2. op'[c] = {} /\ pc'[c] = "wait" /\ \A d \in Conn : d # c => op'[d] = op[d] /\ pc'[d] = pc[d]
    BY <1>1
  <1> QED
    BY <1>2, ChainReplace

LEMMA ChainStays ==
    ASSUME ChainInv, UNCHANGED <<condVars, pc, op>>
    PROVE  ChainInv'
  BY DEF ChainInv, Links, Swapping, condVars

\* The steps of a connection but for the calls of the pool and of the waiters.
Moves(c) ==
    \/ Start(c) \/ RestartTimer(c) \/ HandleConnect(c) \/ HandleHandshake(c) \/ HandleWrite(c)
    \/ HandleReadStatusline(c) \/ HandleReadHeaders(c) \/ HandleReadChunkSize(c) \/ HandleReadBody(c)
    \/ HandleSkipFooters(c)
    \/ \E o \in Reads : ReadFails(c, o)

LEMMA ChainMoves ==
    ASSUME TypeOK, ChainInv, NEW c \in Conn, Moves(c)
    PROVE  ChainInv'
  <1>1. CASE Start(c) \/ RestartTimer(c)
    BY <1>1, ChainAdvances DEF Start, RestartTimer, StartConnect
  <1>2. CASE HandleConnect(c)
    BY <1>2, ChainAdvances DEF HandleConnect, Connected, ConnectFails, Throw
  <1>3. CASE HandleHandshake(c)
    BY <1>3, ChainAdvances, ChainFinishes DEF HandleHandshake, Established, ConnectFails, Throw
  <1>4. CASE HandleWrite(c)
    BY <1>4, ChainAdvances DEF HandleWrite, GiveUp, Throw
  <1>5. CASE HandleReadStatusline(c)
    BY <1>5, ChainAdvances
    DEF HandleReadStatusline, Reading, StatusOk, StatusRefused, NoStatus, StartConnect
  <1>6. CASE HandleReadHeaders(c) \/ HandleReadChunkSize(c)
    BY <1>6, ChainAdvances DEF HandleReadHeaders, HandleReadChunkSize, Reading
  <1>7. CASE HandleReadBody(c)
    BY <1>7, ChainAdvances
    DEF HandleReadBody, Reading, WholeChunk, WrongChunk, TooBig, NextChunk, GiveUp, Throw
  <1>8. CASE HandleSkipFooters(c)
    BY <1>8, ChainAdvances, ChainFinishes
    DEF HandleSkipFooters, Reading, Conclude, NoObject, GiveUp, Throw
  <1>9. ASSUME NEW o \in Reads, ReadFails(c, o)
        PROVE  ChainInv'
    BY <1>9, ChainAdvances DEF ReadFails, GiveUp, Throw
  <1> QED
    BY <1>1, <1>2, <1>3, <1>4, <1>5, <1>6, <1>7, <1>8, <1>9 DEF Moves

-----------------------------------------------------------------------------
\* What a step does to the places of jobs.

Same ==
    /\ UNCHANGED <<jobs, posted, told, dropped>>
    /\ \A d \in Conn : InFlight(d)' = InFlight(d)

Posted(j) ==
    /\ j \notin posted
    /\ posted' = posted \cup {j}
    /\ jobs' = Append(jobs, j)
    /\ UNCHANGED <<told, dropped>>
    /\ \A d \in Conn : InFlight(d)' = InFlight(d)

Taken(c, j) ==
    /\ jobs # <<>> /\ j = Head(jobs) /\ jobs' = Tail(jobs)
    /\ UNCHANGED <<posted, told, dropped>>
    /\ InFlight(c) = {} /\ InFlight(c)' = {j}
    /\ \A d \in Conn : d # c => InFlight(d)' = InFlight(d)

Settled(c) ==
    /\ UNCHANGED <<jobs, posted>>
    /\ InFlight(c) = {ident[c]} /\ InFlight(c)' = {}
    /\ \A d \in Conn : d # c => InFlight(d)' = InFlight(d)
    /\ \/ dropped' = dropped \cup {ident[c]} /\ UNCHANGED told
       \/ UNCHANGED dropped /\ Tell(c, "success")
       \/ UNCHANGED dropped /\ Tell(c, "error")

LEMMA SameFlight ==
    ASSUME UNCHANGED <<jobs, posted, told, dropped, ident>>,
           \A d \in Conn : op[d] \cap Flight = {} <=> op'[d] \cap Flight = {}
    PROVE  Same
  BY DEF Same, InFlight

\* An operation outside the flight is replaced by another one, or by none.
LEMMA AdvanceFlight ==
    ASSUME TypeOK, ChainInv, NEW c \in Conn, NEW o, o \in op[c], NEW then,
           Advance(c, o, then) \/ (Finish(c, o) /\ then = "none"),
           UNCHANGED ident
    PROVE  /\ \A d \in Conn : d # c => InFlight(d)' = InFlight(d)
           /\ InFlight(c) = IF o \in Flight THEN {ident[c]} ELSE {}
           /\ InFlight(c)' = IF then \in Flight THEN {ident[c]} ELSE {}
  <1>1. op[c] = {o} /\ op \in [Conn -> SUBSET Ops] /\ "none" \notin Flight
    BY Alone, TypeParts DEF ConnTypes, Flight, Reads
  <1>2. op' = [op EXCEPT ![c] = {then}] \/ (op' = [op EXCEPT ![c] = {}] /\ then = "none")
    BY Replaced
  <1>3. /\ \A d \in Conn : d # c => op'[d] = op[d]
        /\ op'[c] \cap Flight = {} <=> then \notin Flight
    BY <1>1, <1>2
  <1> QED
    BY <1>1, <1>3 DEF InFlight

LEMMA MovePlaces ==
    ASSUME TypeOK, ChainInv, NEW c \in Conn, Moves(c)
    PROVE  Same \/ Settled(c)
  <1> USE AdvanceFlight
  <1>0. /\ Flight = {"status", "headers", "size", "body", "footers", "write"}
        /\ Reads = {"status", "headers", "size", "body", "footers"}
        /\ UNCHANGED ident /\ UNCHANGED <<jobs, posted>>
    BY DEF Flight, Reads, Moves, Start, RestartTimer, HandleConnect, HandleHandshake, HandleWrite,
       HandleReadStatusline, HandleReadHeaders, HandleReadChunkSize, HandleReadBody, HandleSkipFooters,
       ReadFails, poolVars
  <1>1. ASSUME NEW o, o \in op[c] \ Flight, NEW then, then \notin Flight,
               Advance(c, o, then) \/ (Finish(c, o) /\ then = "none"), UNCHANGED verdicts
        PROVE  Same
    BY <1>0, <1>1 DEF Same, verdicts
  <1>2. ASSUME NEW o, o \in op[c] \cap Flight, NEW then \in Flight, Advance(c, o, then), UNCHANGED verdicts
        PROVE  Same
    BY <1>0, <1>2 DEF Same, verdicts
  <1>3. ASSUME NEW o, o \in op[c] \cap Flight, GiveUp(c, o), UNCHANGED told
        PROVE  Settled(c)
    <2>1. Advance(c, o, "restart") /\ dropped' = dropped \cup {ident[c]}
      BY <1>3 DEF GiveUp, Throw
    <2> QED
      BY <1>0, <1>3, <2>1 DEF Settled
  <1>4. ASSUME NEW o, o \in op[c] \cap Flight, NEW then, then \notin Flight,
               Advance(c, o, then) \/ (Finish(c, o) /\ then = "none"),
               Tell(c, "success") \/ Tell(c, "error"), UNCHANGED dropped
        PROVE  Settled(c)
    BY <1>0, <1>4 DEF Settled
  <1>5. CASE Start(c) \/ RestartTimer(c)
    BY <1>0, <1>1, <1>5 DEF Start, RestartTimer, StartConnect
  <1>6. CASE HandleConnect(c)
    BY <1>0, <1>1, <1>6 DEF HandleConnect, Connected, ConnectFails, Throw
  <1>7. CASE HandleHandshake(c)
    BY <1>0, <1>1, <1>7 DEF HandleHandshake, Established, ConnectFails, Throw
  <1>8. CASE HandleWrite(c)
    <2>1. FirstRead(c) \in Flight
      BY <1>0 DEF FirstRead
    <2> QED
      BY <1>0, <1>2, <1>3, <1>8, <2>1 DEF HandleWrite, verdicts
  <1>9. CASE HandleReadStatusline(c)
    BY <1>0, <1>2, <1>4, <1>9
    DEF HandleReadStatusline, Reading, StatusOk, StatusRefused, NoStatus, StartConnect, verdicts
  <1>10. CASE HandleReadHeaders(c) \/ HandleReadChunkSize(c)
    BY <1>0, <1>2, <1>10 DEF HandleReadHeaders, HandleReadChunkSize, Reading
  <1>11. CASE HandleReadBody(c)
    BY <1>0, <1>2, <1>3, <1>11
    DEF HandleReadBody, Reading, WholeChunk, WrongChunk, TooBig, NextChunk, verdicts
  <1>12. CASE HandleSkipFooters(c)
    BY <1>0, <1>3, <1>4, <1>12 DEF HandleSkipFooters, Reading, Conclude, NoObject
  <1>13. ASSUME NEW o \in Reads, ReadFails(c, o)
         PROVE  Settled(c)
    BY <1>0, <1>3, <1>13 DEF ReadFails
  <1> QED
    BY <1>5, <1>6, <1>7, <1>8, <1>9, <1>10, <1>11, <1>12, <1>13 DEF Moves

\* A step that touches neither jobs nor verdicts nor what is in flight.
LEMMA StillSame ==
    ASSUME UNCHANGED <<jobs, posted, told, dropped, ident, op>>
    PROVE  Same
  BY DEF Same, InFlight

LEMMA PlacesStep ==
    ASSUME TypeOK, ChainInv, [Next]_vars
    PROVE  \/ Same
           \/ \E j \in Job : Posted(j)
           \/ \E c \in Conn : Settled(c)
           \/ \E c \in Conn, j \in Job : Taken(c, j)
  <1>1. CASE Notify
    BY <1>1, StillSame DEF Notify, PostNotify, connVars, verdicts
  <1>2. ASSUME NEW j \in Job, Post(j)
        PROVE  Posted(j)
    BY <1>2 DEF Post, PostPush, Posted, InFlight, connVars, verdicts
  <1>3. ASSUME NEW c \in Conn, HandleJobAvailable(c)
        PROVE  Same \/ \E j \in Job : Taken(c, j)
    <2>1. op[c] = {} /\ op \in [Conn -> SUBSET Ops] /\ ident \in [Conn -> Job \cup {None}]
      BY <1>3, Alone, TypeParts DEF HandleJobAvailable, Woken, ConnTypes
    <2>2. CASE NoJob(c)
      BY <1>3, <2>2, StillSame DEF HandleJobAvailable, NoJob, poolVars, verdicts
    <2>3. ASSUME NEW j \in Job, SendJob(c, j)
          PROVE  Taken(c, j)
      <3>1. /\ jobs # <<>> /\ j = Head(jobs) /\ jobs' = Tail(jobs)
            /\ UNCHANGED <<posted, told, dropped>>
            /\ op' = [op EXCEPT ![c] = @ \cup {"write"}]
            /\ ident' = [ident EXCEPT ![c] = j]
        BY <1>3, <2>3 DEF HandleJobAvailable, SendJob, GetNextJob, verdicts
      <3>2. /\ "write" \in op'[c] \cap Flight /\ ident'[c] = j
            /\ \A d \in Conn : d # c => op'[d] = op[d] /\ ident'[d] = ident[d]
        BY <2>1, <3>1 DEF Flight
      <3> QED
        BY <2>1, <3>1, <3>2 DEF Taken, InFlight
    <2> QED
      BY <1>3, <2>2, <2>3 DEF HandleJobAvailable
  <1>4. ASSUME NEW c \in Conn, WaitForJob(c) \/ SwapHandle(c)
        PROVE  Same
    BY <1>4, StillSame DEF WaitForJob, SwapHandle, poolVars, verdicts
  <1>5. ASSUME NEW c \in Conn, NEW n, Receive(c, n)
        PROVE  Same
    BY <1>5, StillSame DEF Receive, poolVars, verdicts
  <1>6. ASSUME NEW c \in Conn, Server(c)
        PROVE  Same
    BY <1>6, StillSame DEF Server, Serve, Drop, IdleClose, poolVars, connVars, verdicts
  <1>7. ASSUME NEW c \in Conn, Moves(c)
        PROVE  Same \/ Settled(c)
    BY <1>7, MovePlaces
  <1>8. CASE UNCHANGED vars
    BY <1>8, StillSame DEF vars, poolVars, connVars, verdicts
  <1> QED
    BY <1>1, <1>2, <1>3, <1>4, <1>5, <1>6, <1>7, <1>8 DEF Next, Handler, Read, Moves

LEMMA JobInitially == Init => JobAccounted
  <1> SUFFICES ASSUME Init
               PROVE  JobAccounted
    OBVIOUS
  <1>1. jobs = <<>> /\ posted = {} /\ dropped = {} /\ ToSet(jobs) = {}
    BY ToSetEmpty DEF Init, PoolInit
  <1>2. verdict = {}
    BY DEF Init, verdict
  <1>3. \A c \in Conn : InFlight(c) = {}
    BY DEF Init, InFlight, Flight, Reads
  <1>4. IsInjective(jobs)
    BY <1>1 DEF IsInjective
  <1> QED
    BY <1>1, <1>2, <1>3, <1>4 DEF JobAccounted

LEMMA JobStep ==
    ASSUME TypeOK, ChainInv, JobAccounted, [Next]_vars
    PROVE  JobAccounted'
  <1>0. jobs \in Seq(Job) /\ posted \subseteq Job /\ told \in [Job -> {"nothing", "success", "error"}]
    BY TypeParts DEF PoolTypeOK, VerdictTypes
  <1>1. CASE Same
    BY <1>1 DEF Same, JobAccounted, verdict
  <1>2. ASSUME NEW j \in Job, Posted(j)
        PROVE  JobAccounted'
    <2>1. ToSet(jobs') = ToSet(jobs) \cup {j}
      BY <1>0, <1>2, ToSetAppend DEF Posted
    <2>2. j \notin ToSet(jobs) /\ IsInjective(jobs')
      BY <1>0, <1>2, InjectiveAppend DEF Posted, JobAccounted
    <2>3. verdict' = verdict /\ dropped' = dropped /\ posted' = posted \cup {j} /\ j \notin posted
      BY <1>2 DEF Posted, verdict
    <2>4. \A c \in Conn : InFlight(c)' = InFlight(c) /\ j \notin InFlight(c)
      BY <1>2 DEF Posted, JobAccounted
    <2> QED
      BY <2>1, <2>2, <2>3, <2>4 DEF JobAccounted
  <1>3. ASSUME NEW c \in Conn, NEW j \in Job, Taken(c, j)
        PROVE  JobAccounted'
    <2>1. /\ ToSet(jobs) = {j} \cup ToSet(jobs') /\ j \notin ToSet(jobs') /\ IsInjective(jobs')
      BY <1>0, <1>3, ToSetHeadTail, InjectiveTail DEF Taken, JobAccounted
    <2>2. verdict' = verdict /\ dropped' = dropped /\ posted' = posted
      BY <1>3 DEF Taken, verdict
    <2>3. InFlight(c) = {} /\ InFlight(c)' = {j} /\ \A d \in Conn : d # c => InFlight(d)' = InFlight(d)
      BY <1>3 DEF Taken
    <2> QED
      BY <2>1, <2>2, <2>3 DEF JobAccounted
  <1>4. ASSUME NEW c \in Conn, Settled(c)
        PROVE  JobAccounted'
    <2>1. UNCHANGED <<jobs, posted>> /\ InFlight(c) = {ident[c]} /\ InFlight(c)' = {}
          /\ \A d \in Conn : d # c => InFlight(d)' = InFlight(d)
      BY <1>4 DEF Settled
    <2>2. ident[c] \in Job
      BY <1>0, <2>1 DEF JobAccounted
    <2>3. \/ verdict' = verdict /\ dropped' = dropped \cup {ident[c]}
          \/ verdict' = verdict \cup {ident[c]} /\ dropped' = dropped
      BY <1>0, <1>4, <2>2 DEF Settled, Tell, verdict
    <2> QED
      BY <2>1, <2>3 DEF JobAccounted
  <1> QED
    BY <1>1, <1>2, <1>3, <1>4, PlacesStep

-----------------------------------------------------------------------------
\* The inductive invariant.

GcmInv == TypeOK /\ ChainInv /\ JobAccounted

LEMMA InvInit == Init => GcmInv
  <1> SUFFICES ASSUME Init
               PROVE  ChainInv
    BY TypeInit, JobInitially DEF GcmInv
  <1>1. ASSUME NEW c \in Conn
        PROVE  Links(c) = 1 /\ Swapping(c)
    <2>1. op[c] = {"start"} /\ wake[c] = 0 /\ waiters = <<>> /\ pc[c] = "idle"
      BY DEF Init, PoolInit, CondInit
    <2>2. Cardinality(op[c]) = 1 /\ Number(c, waiters) = 0
      BY <2>1, FS_Singleton, NumberEmpty
    <2> QED
      BY <2>1, <2>2 DEF Links, Swapping
  <1> QED
    BY <1>1 DEF ChainInv

LEMMA InvStep == GcmInv /\ [Next]_vars => GcmInv'
  <1> SUFFICES ASSUME GcmInv, [Next]_vars
               PROVE  TypeOK' /\ ChainInv'
    BY JobStep DEF GcmInv
  <1> USE DEF GcmInv
  <1>1. CASE Notify \/ \E j \in Job : Post(j)
    BY <1>1, ClientTypes
  <1>2. ASSUME NEW c \in Conn, Moves(c)
        PROVE  TypeOK' /\ ChainInv'
    <2>1. TypeOK'
      BY <1>2, LifeTypes, ReadTypes, BodyTypes, EndTypes DEF Moves
    <2> QED
      BY <1>2, <2>1, ChainMoves
  <1>3. ASSUME NEW c \in Conn, HandleJobAvailable(c) \/ WaitForJob(c) \/ SwapHandle(c)
        PROVE  TypeOK' /\ ChainInv'
    BY <1>3, JobAvailableTypes, WaitTypes, SwapTypes
  <1>4. ASSUME NEW c \in Conn, (\E n \in 1..Len(net[c]) : Receive(c, n)) \/ Server(c)
        PROVE  TypeOK' /\ ChainInv'
    <2>1. TypeOK'
      BY <1>4, ArriveTypes
    <2>2. UNCHANGED <<condVars, pc, op>>
      BY <1>4 DEF Receive, Server, Serve, Drop, IdleClose, connVars
    <2> QED
      BY <2>1, <2>2, ChainStays
  <1>5. CASE UNCHANGED vars
    <2>1. UNCHANGED <<condVars, pc, op>> /\ UNCHANGED <<condVars, poolVars, connVars, gateVars, verdicts>>
      BY <1>5 DEF vars, connVars
    <2>2. TypeOK'
      BY <2>1, TypeSame, TypeParts
    <2> QED
      BY <2>1, <2>2, ChainStays
  <1> QED
    BY <1>1, <1>2, <1>3, <1>4, <1>5 DEF Next, Handler, Read, Moves

\* All variables keep their types.
THEOREM GcmTypeCorrect == Spec => []TypeOK
  <1>1. GcmInv => TypeOK
    BY DEF GcmInv
  <1> QED
    BY InvInit, InvStep, <1>1, PTL DEF Spec

\* The life of a connection is one chain of handlers.
THEOREM GcmOneChain == Spec => []OneChain
  <1>1. GcmInv => OneChain
    <2> SUFFICES ASSUME ChainInv, NEW c \in Conn
                 PROVE  Cardinality(op[c]) + wake[c]
                          + Cardinality({i \in DOMAIN waiters : waiters[i].conn = c})
                          + (IF pc[c] = "wait" THEN 1 ELSE 0) = 1
      BY DEF GcmInv, OneChain
    <2> QED
      BY DEF ChainInv, Links, Number, Mine
  <1> QED
    BY InvInit, InvStep, <1>1, PTL DEF Spec

\* Every job that was posted is in one place, once.
THEOREM GcmJobsAccounted == Spec => []JobAccounted
  <1>1. GcmInv => JobAccounted
    BY DEF GcmInv
  <1> QED
    BY InvInit, InvStep, <1>1, PTL DEF Spec

-----------------------------------------------------------------------------
\* The refinement.

\* Where a job is.
Located(j) ==
    /\ j \in verdict \cup dropped => Place(j) = "settled"
    /\ j \in ToSet(jobs) => Place(j) = "queued"
    /\ \A c \in Conn : j \in InFlight(c) => Place(j) = c
    /\ j \notin posted => Place(j) = "unposted"
    /\ \/ j \in verdict \cup dropped \/ j \in ToSet(jobs)
       \/ \E c \in Conn : j \in InFlight(c)
       \/ j \notin posted

LEMMA PlaceOf == JobAccounted => \A j \in Job : Located(j)
  <1> SUFFICES ASSUME JobAccounted, NEW j \in Job
               PROVE  Located(j)
    OBVIOUS
  <1>1. ASSUME NEW c \in Conn, j \in InFlight(c)
        PROVE  Place(j) = c
    <2>1. j \notin verdict \cup dropped /\ j \notin ToSet(jobs) /\ \A d \in Conn : j \in InFlight(d) => d = c
      BY <1>1 DEF JobAccounted
    <2>2. (CHOOSE d \in Conn : j \in InFlight(d)) = c
      BY <1>1, <2>1
    <2> QED
      BY <1>1, <2>1, <2>2 DEF Place
  <1>2. j \in ToSet(jobs) => j \notin verdict \cup dropped
    BY DEF JobAccounted
  <1>3. j \notin posted =>
            j \notin verdict \cup dropped /\ j \notin ToSet(jobs) /\ \A c \in Conn : j \notin InFlight(c)
    BY DEF JobAccounted
  <1>4. j \in posted =>
            j \in verdict \cup dropped \/ j \in ToSet(jobs) \/ \E c \in Conn : j \in InFlight(c)
    BY DEF JobAccounted
  <1> QED
    BY <1>1, <1>2, <1>3, <1>4 DEF Place, Located

LEMMA PlaceNext == JobAccounted' => (\A j \in Job : Located(j))'
  BY PlaceOf, PTL

LEMMA LedgerInitially == Init => Ledger!Init
  <1> SUFFICES ASSUME Init
               PROVE  Ledger!Init
    OBVIOUS
  <1>1. JobAccounted /\ posted = {}
    BY JobInitially DEF Init, PoolInit
  <1>2. \A j \in Job : Place(j) = "unposted"
    BY <1>1, PlaceOf DEF Located
  <1> QED
    BY <1>2 DEF Ledger!Init

LEMMA LedgerStep ==
    GcmInv /\ GcmInv' /\ [Next]_vars => [Ledger!Next]_([j \in Job |-> Place(j)])
  <1> SUFFICES ASSUME GcmInv, GcmInv', [Next]_vars
               PROVE  [Ledger!Next]_([j \in Job |-> Place(j)])
    OBVIOUS
  <1> DEFINE L == [j \in Job |-> Place(j)]
  <1>0. /\ \A j \in Job : Located(j) /\ Located(j)'
        /\ jobs \in Seq(Job) /\ told \in [Job -> {"nothing", "success", "error"}]
        /\ JobAccounted
    BY PlaceOf, PlaceNext, TypeParts DEF GcmInv, PoolTypeOK, VerdictTypes
  <1>1. CASE Same
    <2>1. verdict' = verdict /\ dropped' = dropped /\ jobs' = jobs /\ posted' = posted
          /\ \A c \in Conn : InFlight(c)' = InFlight(c)
      BY <1>1 DEF Same, verdict
    <2>2. \A j \in Job : Place(j)' = Place(j)
      BY <1>0, <2>1 DEF Located
    <2> QED
      BY <2>2
  <1>2. ASSUME NEW j \in Job, Posted(j)
        PROVE  Ledger!Post(j)
    <2>1. /\ verdict' = verdict /\ dropped' = dropped /\ posted' = posted \cup {j} /\ j \notin posted
          /\ \A c \in Conn : InFlight(c)' = InFlight(c)
      BY <1>2 DEF Posted, verdict
    <2>2. ToSet(jobs)' = ToSet(jobs) \cup {j}
      BY <1>0, <1>2, ToSetAppend DEF Posted
    <2>3. Place(j) = "unposted" /\ Place(j)' = "queued"
      BY <1>0, <2>1, <2>2 DEF Located
    <2>4. \A k \in Job : k # j => Place(k)' = Place(k)
      BY <1>0, <2>1, <2>2 DEF Located
    <2>5. L' = [L EXCEPT ![j] = "queued"]
      BY <2>3, <2>4
    <2> QED
      BY <2>3, <2>5 DEF Ledger!Post
  <1>3. ASSUME NEW c \in Conn, NEW j \in Job, Taken(c, j)
        PROVE  Ledger!Take(j, c)
    <2>1. /\ verdict' = verdict /\ dropped' = dropped /\ posted' = posted
          /\ InFlight(c) = {} /\ InFlight(c)' = {j}
          /\ \A d \in Conn : d # c => InFlight(d)' = InFlight(d)
      BY <1>3 DEF Taken, verdict
    <2>2. ToSet(jobs) = {j} \cup ToSet(jobs)' /\ j \notin ToSet(jobs)'
      BY <1>0, <1>3, ToSetHeadTail, InjectiveTail DEF Taken, JobAccounted
    <2>3. Place(j) = "queued" /\ Place(j)' = c
      BY <1>0, <2>1, <2>2 DEF Located
    <2>4. \A k \in Job : k # j => Place(k)' = Place(k)
      BY <1>0, <2>1, <2>2 DEF Located
    <2>5. L' = [L EXCEPT ![j] = c]
      BY <2>3, <2>4
    <2> QED
      BY <2>3, <2>5 DEF Ledger!Take
  <1>4. ASSUME NEW c \in Conn, Settled(c)
        PROVE  Ledger!Release(c, {ident[c]}, {}) /\ {ident[c]} \in SUBSET Ledger!Held(c)
    <2>1. /\ UNCHANGED <<jobs, posted>> /\ InFlight(c) = {ident[c]} /\ InFlight(c)' = {}
          /\ \A d \in Conn : d # c => InFlight(d)' = InFlight(d)
      BY <1>4 DEF Settled
    <2>2. ident[c] \in Job
      BY <2>1, TypeParts DEF GcmInv, JobAccounted, PoolTypeOK
    <2>3. PICK i \in Job : i = ident[c]
      BY <2>2
    <2>4. (verdict \cup dropped)' = (verdict \cup dropped) \cup {i}
      BY <1>0, <1>4, <2>3 DEF Settled, Tell, verdict
    <2>5. Place(i) = c /\ Place(i)' = "settled"
      BY <1>0, <2>1, <2>3, <2>4 DEF Located
    <2>6. ASSUME NEW k \in Job, k # i
          PROVE  Place(k)' = Place(k)
      <3>1. \A d \in Conn : k \in InFlight(d)' <=> k \in InFlight(d)
        BY <2>1, <2>3, <2>6
      <3>2. /\ k \in (verdict \cup dropped)' <=> k \in verdict \cup dropped
            /\ k \in ToSet(jobs)' <=> k \in ToSet(jobs)
            /\ k \in posted' <=> k \in posted
        BY <2>1, <2>4, <2>6
      <3> QED
        BY <1>0, <3>1, <3>2 DEF Located
    <2>7. \A k \in Job : Place(k)' = CASE k \in {i} -> "settled"
                                      [] k \in {} -> "queued"
                                      [] OTHER -> Place(k)
      <3>1. ASSUME NEW k \in Job, k # i
            PROVE  Place(k)' = CASE k \in {i} -> "settled" [] k \in {} -> "queued" [] OTHER -> Place(k)
        BY <2>6, <3>1
      <3>2. Place(i)' = CASE i \in {i} -> "settled" [] i \in {} -> "queued" [] OTHER -> Place(i)
        BY <2>5
      <3> QED
        BY <3>1, <3>2
    <2>8. L' = [k \in Job |-> CASE k \in {i} -> "settled" [] k \in {} -> "queued" [] OTHER -> L[k]]
      BY <2>7
    <2>9. {i} \in SUBSET Ledger!Held(c)
      BY <2>5 DEF Ledger!Held
    <2>10. Ledger!Release(c, {i}, {})
      BY <2>8 DEF Ledger!Release
    <2> QED
      BY <2>3, <2>9, <2>10
  <1>5. ASSUME NEW c \in Conn, Settled(c)
        PROVE  Ledger!Next
    BY <1>4, <1>5 DEF Ledger!Next
  <1> QED
    BY <1>1, <1>2, <1>3, <1>5, PlacesStep DEF Ledger!Next, GcmInv

\* The GCM connections implement the ledger of jobs.
THEOREM GcmImplementsLedger == Spec => ImplementsLedger
  <1> QED
    BY InvInit, InvStep, LedgerInitially, LedgerStep, PTL DEF ImplementsLedger, Ledger!Spec, Spec
=============================================================================
