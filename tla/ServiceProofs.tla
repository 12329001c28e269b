---------------------------- MODULE ServiceProofs ----------------------------
(***************************************************************************)
(* Theorems about the lives of providers, pools and feedback readers, for  *)
(* any number of objects, keys, connections of a pool, packets, posts and  *)
(* failures, and for every client: types, the registry and the ends of     *)
(* objects.                                                                *)
(***************************************************************************)
EXTENDS ServiceProperties, SequenceLemmas, FiniteSetTheorems, FunctionTheorems

-----------------------------------------------------------------------------
\* Sequences made of finite sets.

LEMMA SetToSeqType ==
    ASSUME NEW S, IsFiniteSet(S)
    PROVE  SetToSeq(S) \in Seq(S)
  <1>1. PICK n \in Nat : ExistsBijection(1..n, S)
    BY FS_NatBijection
  <1>2. Cardinality(S) = n
    BY <1>1, FS_CountingElements
  <1>3. PICK f : f \in Bijection(1..n, S)
    BY <1>1 DEF ExistsBijection
  <1>4. f \in [1..n -> S] /\ IsInjective(f)
    BY <1>3 DEF Bijection, Injection
  <1>5. SetToSeq(S) \in [1..n -> S]
    BY <1>2, <1>4 DEF SetToSeq
  <1> QED
    BY <1>5, SeqDef

\* Entries of the client's queue for some connections, one of each kind.
LEMMA EntriesOf ==
    ASSUME NEW what, NEW cs, IsFiniteSet(cs)
    PROVE  Entries(what, cs) \in Seq({[what |-> what, conn |-> c] : c \in cs})
  <1> DEFINE T == {[what |-> what, conn |-> c] : c \in cs}
             f == [c \in cs |-> [what |-> what, conn |-> c]]
  <1>1. f \in Surjection(cs, T)
    <2>1. f \in [cs -> T]
      OBVIOUS
    <2>2. \A t \in T : \E c \in cs : f[c] = t
      OBVIOUS
    <2> QED
      BY <2>1, <2>2 DEF Surjection
  <1>2. IsFiniteSet(T)
    BY <1>1, FS_Surjection DEF ExistsSurjection
  <1> QED
    BY <1>2, SetToSeqType DEF Entries

LEMMA ConnsFinite ==
    ASSUME NEW o \in Obj
    PROVE  IsFiniteSet(Conns(o)) /\ Conns(o) \subseteq Conn /\ \A c \in Conns(o) : Owner(c) = o
  <1>1. IsFiniteSet({o}) /\ IsFiniteSet(Slot)
    BY FS_Singleton, ServiceAssumption
  <1> QED
    BY <1>1, FS_Product DEF Conns, Conn, Owner

LEMMA OwnerType ==
    ASSUME NEW c \in Conn
    PROVE  Owner(c) \in Obj /\ c \in Conns(Owner(c))
  BY DEF Conn, Owner, Conns

-----------------------------------------------------------------------------
\* Types, by what the steps leave alone together.

ObjTypes ==
    /\ providers \in [Key -> Provider \cup {Nobody}]
    /\ used \subseteq Obj
    /\ life \in [Obj -> Stage]
    /\ config \in [Obj -> Config]
    /\ constructed \in [Obj -> BOOLEAN]

ConnTypes ==
    /\ thread \in [Conn -> {"none", "run", "ended"}]
    /\ stopped \in [Conn -> BOOLEAN]
    /\ op \in [Conn -> Ops]
    /\ waiting \in [Conn -> BOOLEAN]

FeedTypes ==
    /\ response \in [Conn -> Seq(Half)]
    /\ \A c \in Conn : Len(response[c]) <= StreambufMax
    /\ got \in [Conn -> Nat]
    /\ packets \in [Conn -> 0..MaxPackets]

ClientTypes ==
    /\ clientQ \in Seq(Entry)
    /\ down \in BOOLEAN
    /\ misuse \subseteq {"start", "restart", "wake"} \X Obj
    /\ told \in [Conn -> Seq(Event)]

BudgetTypes == {starts, posts, faults} \subseteq Nat

LEMMA TypeParts ==
    /\ TypeOK <=> ObjTypes /\ ConnTypes /\ FeedTypes /\ ClientTypes /\ BudgetTypes
    /\ TypeOK' <=> ObjTypes' /\ ConnTypes' /\ FeedTypes' /\ ClientTypes' /\ BudgetTypes'
  BY DEF TypeOK, ObjTypes, ConnTypes, FeedTypes, ClientTypes, BudgetTypes

\* A step keeps the types of what it leaves alone.
LEMMA TypeSame ==
    ASSUME TypeOK
    PROVE  /\ UNCHANGED objVars => ObjTypes'
           /\ UNCHANGED connVars => ConnTypes'
           /\ UNCHANGED feedVars => FeedTypes'
           /\ UNCHANGED clientVars => ClientTypes'
           /\ UNCHANGED budgets => BudgetTypes'
  <1> USE TypeParts
  <1>1. ASSUME UNCHANGED objVars
        PROVE  ObjTypes'
    BY <1>1 DEF objVars, ObjTypes
  <1>2. ASSUME UNCHANGED connVars
        PROVE  ConnTypes'
    BY <1>2 DEF connVars, ConnTypes
  <1>3. ASSUME UNCHANGED feedVars
        PROVE  FeedTypes'
    BY <1>3 DEF feedVars, FeedTypes
  <1>4. ASSUME UNCHANGED clientVars
        PROVE  ClientTypes'
    BY <1>4 DEF clientVars, ClientTypes
  <1>5. ASSUME UNCHANGED budgets
        PROVE  BudgetTypes'
    BY <1>5 DEF budgets, BudgetTypes
  <1> QED
    BY <1>1, <1>2, <1>3, <1>4, <1>5

LEMMA TypeInit == Init => TypeOK
  <1> SUFFICES ASSUME Init
               PROVE  TypeOK
    OBVIOUS
  <1>1. ObjTypes
    <2>1. used \subseteq Obj
      BY ServiceAssumption DEF Init
    <2>2. providers \in [Key -> Provider \cup {Nobody}]
      BY DEF Init, RegistryInit
    <2>3. life \in [Obj -> Stage] /\ constructed \in [Obj -> BOOLEAN]
      BY DEF Init, Stage
    <2>4. config \in [Obj -> Config]
      BY DEF Init, Config
    <2> QED
      BY <2>1, <2>2, <2>3, <2>4 DEF ObjTypes
  <1>2. ConnTypes
    BY DEF Init, ConnTypes, Ops
  <1>3. FeedTypes
    <2>1. <<>> \in Seq(Half) /\ Len(<<>>) = 0 /\ StreambufMax \in Nat /\ MaxPackets \in Nat
      BY EmptySeq, ServiceAssumption
    <2> QED
      BY <2>1 DEF Init, FeedTypes
  <1>4. ClientTypes
    <2>1. <<>> \in Seq(Entry) /\ <<>> \in Seq(Event)
      BY EmptySeq
    <2> QED
      BY <2>1 DEF Init, ClientTypes
  <1>5. BudgetTypes
    BY ServiceAssumption DEF Init, BudgetTypes
  <1> QED
    BY <1>1, <1>2, <1>3, <1>4, <1>5, TypeParts

LEMMA EntriesType ==
    ASSUME NEW what \in {"start", "wake"}, NEW o \in Obj, NEW cs \in SUBSET Conns(o)
    PROVE  /\ IsFiniteSet(cs)
           /\ Entries(what, cs) \in Seq(Entry)
           /\ \A i \in DOMAIN Entries(what, cs) :
                 /\ Entries(what, cs)[i].what = what
                 /\ Entries(what, cs)[i].conn \in cs
  <1>1. IsFiniteSet(cs) /\ cs \subseteq Conn
    BY ConnsFinite, FS_Subset
  <1> DEFINE T == {[what |-> what, conn |-> c] : c \in cs}
  <1>2. Entries(what, cs) \in Seq(T)
    BY <1>1, EntriesOf
  <1>3. T \subseteq Entry
    BY <1>1 DEF Entry
  <1>4. \A i \in DOMAIN Entries(what, cs) : Entries(what, cs)[i] \in T
    BY <1>2, ElementOfSeq, LenProperties
  <1>5. Entries(what, cs) \in Seq(Entry)
    BY <1>2, <1>3, <1>4, SeqDef, LenProperties
  <1> QED
    BY <1>1, <1>4, <1>5

LEMMA BecomeType ==
    ASSUME ObjTypes, NEW o \in Obj, NEW stage \in Stage, Become(o, stage)
    PROVE  life' \in [Obj -> Stage]
  BY DEF ObjTypes, Become

LEMMA ForAllType ==
    ASSUME NEW S, NEW f \in [Conn -> S], NEW o, NEW v \in S
    PROVE  ForAll(f, o, v) \in [Conn -> S]
  BY DEF ForAll

LEMMA Stages ==
    /\ {"new", "base", "pool", "ready", "ctx_gone", "joining", "pool_gone", "gone"} \subseteq Stage
    /\ Provider \subseteq Obj /\ Feed \subseteq Obj
  BY DEF Stage, Obj

\* The steps of constructors.
LEMMA TypeConstruct ==
    ASSUME TypeOK, NEW o \in Obj, (o \in Provider /\ (Register(o) \/ RegisterThrows(o))) \/ Construction(o)
    PROVE  TypeOK'
  <1> USE Stages
  <1>1. CASE o \in Provider /\ Register(o)
    <2>1. providers' \in [Key -> Provider \cup {Nobody}]
      BY <1>1, TypeParts DEF Register, AddProvider, ObjTypes
    <2>2. life' \in [Obj -> Stage]
      BY <1>1, TypeParts, BecomeType DEF Register
    <2> QED
      BY <1>1, <2>1, <2>2, TypeParts, TypeSame DEF Register, ObjTypes
  <1>2. CASE o \in Provider /\ RegisterThrows(o)
    <2>1. life' \in [Obj -> Stage]
      BY <1>2, TypeParts, BecomeType DEF RegisterThrows
    <2> QED
      BY <1>2, <2>1, TypeParts, TypeSame DEF RegisterThrows, ObjTypes
  <1>3. CASE SpawnConnections(o)
    <2>1. life' \in [Obj -> Stage]
      BY <1>3, TypeParts, BecomeType DEF SpawnConnections
    <2>2. thread' \in [Conn -> {"none", "run", "ended"}]
      BY <1>3, TypeParts, ForAllType DEF SpawnConnections, ConnTypes
    <2> QED
      BY <1>3, <2>1, <2>2, TypeParts, TypeSame DEF SpawnConnections, ObjTypes, ConnTypes
  <1>4. CASE PoolThrows(o)
    <2>1. life' \in [Obj -> Stage]
      BY <1>4, TypeParts, BecomeType DEF PoolThrows
    <2> QED
      BY <1>4, <2>1, TypeParts, TypeSame DEF PoolThrows, ObjTypes
  <1>5. CASE Constructed(o)
    <2>1. life' \in [Obj -> Stage]
      BY <1>5, TypeParts, BecomeType DEF Constructed
    <2>2. config' \in [Obj -> Config] /\ constructed' \in [Obj -> BOOLEAN]
      <3>1. PICK cfg \in Config : config' = [config EXCEPT ![o] = cfg]
        BY <1>5, ServiceAssumption DEF Constructed
      <3> QED
        BY <1>5, <3>1, TypeParts DEF Constructed, ObjTypes
    <2>3. clientQ' \in Seq(Entry)
      <3>1. clientQ' = clientQ \o Entries("start", Conns(o)) \/ clientQ' = clientQ
        BY <1>5 DEF Constructed, PoolStart
      <3>2. clientQ \in Seq(Entry) /\ Entries("start", Conns(o)) \in Seq(Entry)
        BY TypeParts, EntriesType DEF ClientTypes
      <3> QED
        BY <3>1, <3>2, ConcatProperties
    <2> QED
      BY <1>5, <2>1, <2>2, <2>3, TypeParts, TypeSame DEF Constructed, ObjTypes, ClientTypes
  <1>6. CASE ConstructorThrows(o)
    <2>1. life' \in [Obj -> Stage]
      BY <1>6, TypeParts, BecomeType DEF ConstructorThrows
    <2> QED
      BY <1>6, <2>1, TypeParts, TypeSame DEF ConstructorThrows, ObjTypes
  <1> QED
    BY <1>1, <1>2, <1>3, <1>4, <1>5, <1>6 DEF Construction

\* The steps of destructors, and start and stop of a feedback reader.
LEMMA TypeDestruct ==
    ASSUME TypeOK, NEW o \in Obj,
           (o \in Feed /\ (StartFeed(o) \/ StopFeed(o))) \/ Destroy(o) \/ DestructorStep(o)
    PROVE  TypeOK'
  <1> USE Stages
  <1>1. ASSUME StopConnections(o)
        PROVE  stopped' \in [Conn -> BOOLEAN]
    BY <1>1, TypeParts, ForAllType DEF StopConnections, ConnTypes
  <1>2. CASE o \in Feed /\ StartFeed(o)
    <2>1. clientQ' \in Seq(Entry)
      BY <1>2, TypeParts, EntriesType, ConcatProperties DEF StartFeed, PoolStart, ClientTypes
    <2>2. starts \in Nat /\ starts > 0 /\ starts' = starts - 1 /\ posts' = posts /\ faults' = faults
      BY <1>2, TypeParts DEF StartFeed, BudgetTypes
    <2>3. BudgetTypes'
      BY <2>2, TypeParts DEF BudgetTypes
    <2> QED
      BY <1>2, <2>1, <2>3, TypeParts, TypeSame DEF StartFeed, ClientTypes
  <1>3. CASE o \in Feed /\ StopFeed(o)
    BY <1>1, <1>3, TypeParts, TypeSame DEF StopFeed, ConnTypes
  <1>4. CASE Destroy(o)
    <2>1. life' \in [Obj -> Stage]
      BY <1>4, TypeParts, BecomeType DEF Destroy
    <2> QED
      BY <1>4, <2>1, TypeParts, TypeSame DEF Destroy, ObjTypes
  <1>5. CASE StopPool(o)
    <2>1. life' \in [Obj -> Stage]
      BY <1>5, TypeParts, BecomeType DEF StopPool
    <2>2. stopped' \in [Conn -> BOOLEAN]
      BY <1>1, <1>5 DEF StopPool
    <2> QED
      BY <1>5, <2>1, <2>2, TypeParts, TypeSame DEF StopPool, ObjTypes, ConnTypes
  <1>6. CASE JoinPool(o)
    <2>1. life' \in [Obj -> Stage]
      BY <1>6, TypeParts, BecomeType DEF JoinPool
    <2>2. ConnTypes'
      BY <1>6, TypeParts, ForAllType DEF JoinPool, Release, ConnTypes, Ops
    <2>3. FeedTypes'
      <3>1. <<>> \in Seq(Half) /\ Len(<<>>) = 0 /\ StreambufMax \in Nat /\ MaxPackets \in Nat
        BY EmptySeq, ServiceAssumption
      <3>2. 0 \in Nat /\ 0 \in 0..MaxPackets /\ FeedTypes
        BY <3>1, TypeParts
      <3>3. response' = ForAll(response, o, <<>>) /\ got' = ForAll(got, o, 0) /\ packets' = ForAll(packets, o, 0)
        BY <1>6 DEF JoinPool, Release
      <3>4. response' \in [Conn -> Seq(Half)]
        BY <3>1, <3>2, <3>3, ForAllType DEF FeedTypes
      <3>5. got' \in [Conn -> Nat]
        BY <3>2, <3>3, ForAllType DEF FeedTypes
      <3>6. packets' \in [Conn -> 0..MaxPackets]
        BY <3>2, <3>3, ForAllType DEF FeedTypes
      <3>7. \A c \in Conn : Len(response'[c]) <= StreambufMax
        BY <1>6, <3>1, TypeParts DEF JoinPool, Release, ForAll, FeedTypes
      <3> QED
        BY <3>4, <3>5, <3>6, <3>7 DEF FeedTypes
    <2> QED
      BY <1>6, <2>1, <2>2, <2>3, TypeParts, TypeSame DEF JoinPool, ObjTypes
  <1>7. CASE Unregister(o)
    <2>1. life' \in [Obj -> Stage]
      BY <1>7, TypeParts, BecomeType DEF Unregister
    <2>2. providers' \in [Key -> Provider \cup {Nobody}]
      BY <1>7, TypeParts DEF Unregister, RemoveProvider, ObjTypes
    <2> QED
      BY <1>7, <2>1, <2>2, TypeParts, TypeSame DEF Unregister, ObjTypes
  <1> QED
    BY <1>2, <1>3, <1>4, <1>5, <1>6, <1>7 DEF DestructorStep

LEMMA ReportType ==
    ASSUME TypeOK, NEW c \in Conn, NEW event \in Event
    PROVE  Report(c, event) \in Seq(Entry)
  <1>1. [what |-> "report", conn |-> c, event |-> event] \in Entry
    BY DEF Entry
  <1> QED
    BY <1>1, AppendProperties, TypeParts DEF Report, ClientTypes

LEMMA ConnectType ==
    ASSUME TypeOK, NEW what \in {"start", "restart", "wake"}, NEW c \in Conn, Connect(what, c)
    PROVE  op' \in [Conn -> Ops] /\ misuse' \subseteq {"start", "restart", "wake"} \X Obj
  <1>1. <<what, Owner(c)>> \in {"start", "restart", "wake"} \X Obj
    BY OwnerType
  <1>2. \/ misuse' = misuse \cup {<<what, Owner(c)>>} /\ op' = op
        \/ misuse' = misuse /\ op' = [op EXCEPT ![c] = "connect"]
    BY DEF Connect
  <1>3. op' \in [Conn -> Ops]
    BY <1>2, TypeParts DEF ConnTypes, Ops
  <1> QED
    BY <1>1, <1>2, <1>3, TypeParts DEF ClientTypes

LEMMA FaultType ==
    ASSUME TypeOK, Fault, UNCHANGED <<starts, posts>>
    PROVE  BudgetTypes'
  <1>1. faults \in Nat /\ faults > 0 /\ faults' = faults - 1 /\ starts' \in Nat /\ posts' \in Nat
    BY TypeParts DEF Fault, BudgetTypes
  <1> QED
    BY <1>1 DEF BudgetTypes

\* The handlers of a connection but for those of the feedback.
LEMMA TypeHandle ==
    ASSUME TypeOK, NEW c \in Conn,
           \/ ThreadEnds(c) \/ HandleConnect(c) \/ HandleHandshake(c)
           \/ HandleError(c) \/ Restart(c) \/ HandleReadErr(c) \/ HandleEof(c)
    PROVE  TypeOK'
  <1> USE TypeParts, TypeSame
  <1>0. /\ {"idle", "connect", "handshake", "read", "restart", "over"} \subseteq Ops
        /\ <<"error", 0>> \in Event /\ <<"shutdown", 0>> \in Event
    BY DEF Ops, Event
  <1>1. CASE ThreadEnds(c)
    BY <1>1 DEF ThreadEnds, ConnTypes
  <1>2. CASE HandleConnect(c)
    BY <1>0, <1>2 DEF HandleConnect, ConnTypes
  <1>3. CASE HandleHandshake(c)
    <2>1. ConnTypes'
      <3>1. (Owner(c) \in Provider) \in BOOLEAN
        OBVIOUS
      <3> QED
        BY <1>0, <1>3, <3>1 DEF HandleHandshake, ConnTypes
    <2>2. FeedTypes'
      BY <1>3 DEF HandleHandshake, FeedTypes
    <2> QED
      BY <1>3, <2>1, <2>2 DEF HandleHandshake
  <1>4. CASE HandleError(c)
    <2>1. BudgetTypes'
      BY <1>4, FaultType DEF HandleError
    <2>2. ConnTypes'
      BY <1>0, <1>4 DEF HandleError, ConnTypes
    <2>3. ClientTypes'
      BY <1>0, <1>4, ReportType DEF HandleError, ClientTypes
    <2> QED
      BY <1>4, <2>1, <2>2, <2>3 DEF HandleError
  <1>5. CASE Restart(c)
    <2>1. CASE Connect("restart", c) /\ UNCHANGED faults
      <3>1. op' \in [Conn -> Ops] /\ misuse' \subseteq {"start", "restart", "wake"} \X Obj
        BY <2>1, ConnectType
      <3>2. UNCHANGED budgets
        BY <1>5, <2>1 DEF Restart, budgets
      <3> QED
        BY <1>5, <3>1, <3>2 DEF Restart, ConnTypes, ClientTypes
    <2>2. CASE Fault /\ UNCHANGED <<op, misuse>>
      <3>1. BudgetTypes'
        BY <1>5, <2>2, FaultType DEF Restart
      <3> QED
        BY <1>5, <2>2, <3>1 DEF Restart, ConnTypes, ClientTypes
    <2> QED
      BY <1>5, <2>1, <2>2 DEF Restart
  <1>6. CASE HandleReadErr(c)
    <2> DEFINE woken == {d \in Conns(Owner(c)) : waiting[d]}
    <2>1. op' \in [Conn -> Ops] /\ misuse' \subseteq {"start", "restart", "wake"} \X Obj
      <3>1. Connect("restart", c) \/ (op' = [op EXCEPT ![c] = "restart"] /\ UNCHANGED misuse)
        BY <1>6 DEF HandleReadErr
      <3> QED
        BY <1>0, <3>1, ConnectType DEF ConnTypes, ClientTypes
    <2>2. clientQ' \in Seq(Entry)
      <3>1. Entries("wake", woken) \in Seq(Entry)
        BY EntriesType, OwnerType
      <3>2. Report(c, <<"error", 0>>) \in Seq(Entry)
        BY <1>0, ReportType
      <3>3. clientQ' = clientQ \/ clientQ' = Report(c, <<"error", 0>>) \o Entries("wake", woken)
        BY <1>6 DEF HandleReadErr
      <3> QED
        BY <3>1, <3>2, <3>3, ConcatProperties DEF ClientTypes
    <2>3. waiting' \in [Conn -> BOOLEAN]
      <3>1. waiting' = waiting \/ waiting' = ForAll(waiting, Owner(c), FALSE)
        BY <1>6 DEF HandleReadErr
      <3>2. waiting \in [Conn -> BOOLEAN] /\ FALSE \in BOOLEAN
        BY DEF ConnTypes
      <3>3. ForAll(waiting, Owner(c), FALSE) \in [Conn -> BOOLEAN]
        BY <3>2, ForAllType
      <3> QED
        BY <3>1, <3>2, <3>3
    <2>4. BudgetTypes'
      BY <1>6, FaultType DEF HandleReadErr
    <2>5. ConnTypes' /\ ClientTypes'
      BY <1>6, <2>1, <2>2, <2>3 DEF HandleReadErr, ConnTypes, ClientTypes
    <2> QED
      BY <1>6, <2>4, <2>5 DEF HandleReadErr
  <1>7. CASE HandleEof(c)
    <2>1. BudgetTypes'
      BY <1>7, FaultType DEF HandleEof
    <2>2. ConnTypes'
      BY <1>0, <1>7 DEF HandleEof, ConnTypes
    <2>3. ClientTypes'
      BY <1>0, <1>7, ReportType DEF HandleEof, ClientTypes
    <2> QED
      BY <1>7, <2>1, <2>2, <2>3 DEF HandleEof
  <1> QED
    BY <1>1, <1>2, <1>3, <1>4, <1>5, <1>6, <1>7

\* A full response_ names a token.
LEMMA FirstTokenType ==
    ASSUME TypeOK, NEW c \in Conn, Len(response[c]) = StreambufMax
    PROVE  FirstToken(response[c]) \in Token
  <1>1. response[c] \in Seq(Half) /\ Len(response[c]) \in Nat /\ Len(response[c]) >= 2
    BY TypeParts, ServiceAssumption, LenProperties DEF FeedTypes
  <1>2. response[c][1] \in Half
    BY <1>1, ElementOfSeq
  <1> QED
    BY <1>2, ServiceAssumption DEF FirstToken, Half, Token

\* The entries a read of the feedback posts.
TokenReports(c) ==
    [i \in 1..(got[c] \div 2) |-> [what |-> "report", conn |-> c,
                                   event |-> <<"token", FirstToken(response[c])>>]]

LEMMA TokenReportsType ==
    ASSUME TypeOK, NEW c \in Conn, Len(response[c]) = StreambufMax
    PROVE  TokenReports(c) \in Seq(Entry) /\ got[c] \div 2 \in Nat
  <1>1. [what |-> "report", conn |-> c, event |-> <<"token", FirstToken(response[c])>>] \in Entry
    BY FirstTokenType DEF Entry, Event
  <1>2. got[c] \in Nat
    BY TypeParts DEF FeedTypes
  <1>3. got[c] \div 2 \in Nat
    BY <1>2
  <1> DEFINE e == [what |-> "report", conn |-> c, event |-> <<"token", FirstToken(response[c])>>]
             n == got[c] \div 2
  <1> HIDE DEF e, n
  <1>4. [i \in 1..n |-> e] \in [1..n -> Entry]
    BY <1>1 DEF e
  <1>5. [i \in 1..n |-> e] \in Seq(Entry)
    BY <1>3, <1>4, SeqDef DEF n
  <1> QED
    BY <1>3, <1>5 DEF TokenReports, e, n

LEMMA TypeFeedback ==
    ASSUME TypeOK, NEW c \in Conn, Receive(c) \/ HandleRead(c)
    PROVE  TypeOK'
  <1> USE TypeParts, TypeSame
  <1>1. CASE Receive(c)
    <2>1. NextHalf(c) \in Half /\ response[c] \in Seq(Half)
      BY <1>1 DEF Receive, FeedTypes
    <2>2. /\ Append(response[c], NextHalf(c)) \in Seq(Half)
          /\ Len(Append(response[c], NextHalf(c))) = Len(response[c]) + 1
      BY <2>1, AppendProperties
    <2>3. Len(response[c]) + 1 <= StreambufMax
      BY <1>1, <2>1, LenProperties, ServiceAssumption DEF Receive, HasRoom
    <2>4. NextHalf(c)[1] \in 0..MaxPackets
      BY <2>1, ServiceAssumption DEF Half
    <2>5. response' \in [Conn -> Seq(Half)]
      BY <1>1, <2>2 DEF Receive, FeedTypes
    <2>6. \A d \in Conn : Len(response'[d]) <= StreambufMax
      BY <1>1, <2>2, <2>3 DEF Receive, FeedTypes
    <2>7. got' \in [Conn -> Nat] /\ packets' \in [Conn -> 0..MaxPackets]
      BY <1>1, <2>4 DEF Receive, FeedTypes
    <2> QED
      BY <1>1, <2>5, <2>6, <2>7 DEF Receive, FeedTypes
  <1>2. CASE HandleRead(c)
    <2>1. Len(response[c]) = StreambufMax /\ clientQ' = clientQ \o TokenReports(c)
      BY <1>2 DEF HandleRead, TokenReports
    <2>2. clientQ' \in Seq(Entry)
      BY <2>1, TokenReportsType, ConcatProperties DEF ClientTypes
    <2>3. FeedTypes'
      BY <1>2 DEF HandleRead, FeedTypes
    <2>4. ClientTypes'
      BY <1>2, <2>2 DEF HandleRead, ClientTypes
    <2> QED
      BY <1>2, <2>3, <2>4 DEF HandleRead
  <1> QED
    BY <1>1, <1>2

LEMMA TakeType ==
    ASSUME TypeOK, NEW what, Take(what)
    PROVE  /\ clientQ' \in Seq(Entry)
           /\ Head(clientQ) \in Entry /\ Head(clientQ).what = what
           /\ Head(clientQ) = clientQ[1] /\ 1 \in DOMAIN clientQ
           /\ Len(clientQ) \in Nat /\ DOMAIN clientQ = 1..Len(clientQ)
           /\ DOMAIN clientQ' = 1..(Len(clientQ) - 1)
           /\ \A i \in 1..(Len(clientQ) - 1) : clientQ'[i] = clientQ[i + 1]
  <1>1. clientQ \in Seq(Entry) /\ clientQ # <<>> /\ clientQ' = Tail(clientQ) /\ Head(clientQ).what = what
    BY TypeParts DEF Take, ClientTypes
  <1>2. Len(clientQ) \in Nat /\ DOMAIN clientQ = 1..Len(clientQ) /\ Len(clientQ) # 0
    BY <1>1, LenProperties, EmptySeq
  <1>3. 1 \in DOMAIN clientQ
    BY <1>2
  <1>4. /\ clientQ' \in Seq(Entry) /\ Head(clientQ) \in Entry /\ Head(clientQ) = clientQ[1]
        /\ \A i \in 1..(Len(clientQ) - 1) : clientQ'[i] = clientQ[i + 1]
        /\ Len(clientQ') = Len(clientQ) - 1
    BY <1>1, HeadTailProperties
  <1>5. DOMAIN clientQ' = 1..(Len(clientQ) - 1)
    BY <1>4, LenProperties
  <1> QED
    BY <1>1, <1>2, <1>3, <1>4, <1>5

\* A report carries an event.
LEMMA EventType ==
    ASSUME NEW e \in Entry, e.what = "report"
    PROVE  e.event \in Event
  <1>1. e \in [what : {"report"}, conn : Conn, event : Event]
    BY DEF Entry
  <1> QED
    BY <1>1

\* What runs on the client's threads.
LEMMA TypeClient ==
    ASSUME TypeOK,
           \/ \E c \in Conn : RunStart(c) \/ RunReport(c) \/ RunWake(c)
           \/ \E p \in Provider : Post(p)
    PROVE  TypeOK'
  <1> USE TypeParts, TypeSame
  <1>1. ASSUME NEW c \in Conn, RunStart(c)
        PROVE  TypeOK'
    <2>1. clientQ' \in Seq(Entry)
      BY <1>1, TakeType DEF RunStart
    <2>2. CASE Connect("start", c) /\ UNCHANGED <<down, faults>>
      <3>1. op' \in [Conn -> Ops] /\ misuse' \subseteq {"start", "restart", "wake"} \X Obj
        BY <2>2, ConnectType
      <3>2. UNCHANGED budgets
        BY <1>1, <2>2 DEF RunStart, budgets
      <3> QED
        BY <1>1, <2>1, <2>2, <3>1, <3>2 DEF RunStart, ConnTypes, ClientTypes
    <2>3. CASE Fault /\ down' = TRUE /\ UNCHANGED <<op, misuse>>
      <3>1. BudgetTypes'
        BY <1>1, <2>3, FaultType DEF RunStart
      <3> QED
        BY <1>1, <2>1, <2>3, <3>1 DEF RunStart, ConnTypes, ClientTypes
    <2> QED
      BY <1>1, <2>2, <2>3 DEF RunStart
  <1>2. ASSUME NEW c \in Conn, RunReport(c)
        PROVE  TypeOK'
    <2>1. clientQ' \in Seq(Entry) /\ Head(clientQ).event \in Event
      BY <1>2, TakeType, EventType DEF RunReport
    <2>2. told' \in [Conn -> Seq(Event)] /\ down' \in BOOLEAN
      <3>1. \/ told' = [told EXCEPT ![c] = Append(@, Head(clientQ).event)] /\ down' = down
            \/ told' = told /\ down' = TRUE
        BY <1>2 DEF RunReport
      <3>2. Append(told[c], Head(clientQ).event) \in Seq(Event)
        BY <2>1, AppendProperties DEF ClientTypes
      <3> QED
        BY <3>1, <3>2 DEF ClientTypes
    <2> QED
      BY <1>2, <2>1, <2>2 DEF RunReport, ClientTypes
  <1>3. ASSUME NEW c \in Conn, RunWake(c)
        PROVE  TypeOK'
    <2>1. clientQ' \in Seq(Entry)
      BY <1>3, TakeType DEF RunWake
    <2>2. waiting' \in [Conn -> BOOLEAN] /\ misuse' \subseteq {"start", "restart", "wake"} \X Obj
      <3>1. Runs(c) \in BOOLEAN
        BY DEF Runs
      <3>2. \/ waiting' = waiting /\ misuse' = misuse \cup {<<"wake", Owner(c)>>}
            \/ waiting' = [waiting EXCEPT ![c] = Runs(c)] /\ misuse' = misuse
        BY <1>3 DEF RunWake
      <3>3. <<"wake", Owner(c)>> \in {"start", "restart", "wake"} \X Obj
        BY OwnerType
      <3>4. waiting' \in [Conn -> BOOLEAN]
        BY <3>1, <3>2 DEF ConnTypes
      <3> QED
        BY <3>2, <3>3, <3>4 DEF ClientTypes
    <2> QED
      BY <1>3, <2>1, <2>2 DEF RunWake, ConnTypes, ClientTypes
  <1>4. ASSUME NEW p \in Provider, Post(p)
        PROVE  TypeOK'
    <2>1. PICK c \in Conns(p) : /\ waiting' = [waiting EXCEPT ![c] = FALSE]
                                /\ clientQ' = clientQ \o Entries("wake", {c})
      BY <1>4 DEF Post
    <2>2. clientQ' \in Seq(Entry)
      <3>1. Entries("wake", {c}) \in Seq(Entry)
        BY EntriesType, Stages
      <3> QED
        BY <2>1, <3>1, ConcatProperties DEF ClientTypes
    <2>3. waiting' \in [Conn -> BOOLEAN]
      BY <2>1 DEF ConnTypes
    <2>4. posts \in Nat /\ posts > 0 /\ posts' = posts - 1 /\ starts' \in Nat /\ faults' \in Nat
      BY <1>4 DEF Post, BudgetTypes
    <2>5. BudgetTypes'
      BY <2>4 DEF BudgetTypes
    <2> QED
      BY <1>4, <2>2, <2>3, <2>5 DEF Post, ConnTypes, ClientTypes
  <1> QED
    BY <1>1, <1>2, <1>3, <1>4

\* Next by the objects and connections that take the step.
LEMMA Steps ==
    ASSUME Next
    PROVE  \/ \E o \in Obj : (o \in Provider /\ (Register(o) \/ RegisterThrows(o))) \/ Construction(o)
           \/ \E o \in Obj : (o \in Feed /\ (StartFeed(o) \/ StopFeed(o))) \/ Destroy(o) \/ DestructorStep(o)
           \/ \E c \in Conn : \/ ThreadEnds(c) \/ HandleConnect(c) \/ HandleHandshake(c)
                              \/ HandleError(c) \/ Restart(c) \/ HandleReadErr(c) \/ HandleEof(c)
           \/ \E c \in Conn : Receive(c) \/ HandleRead(c)
           \/ \E c \in Conn : RunStart(c) \/ RunReport(c) \/ RunWake(c)
           \/ \E p \in Provider : Post(p)
  BY Stages DEF Next, ConnStep, Network, ClientRuns

LEMMA TypeStep ==
    ASSUME TypeOK, [Next]_vars
    PROVE  TypeOK'
  <1>1. CASE Next
    BY <1>1, Steps, TypeConstruct, TypeDestruct, TypeHandle, TypeFeedback, TypeClient
  <1>2. CASE UNCHANGED vars
    BY <1>2, TypeParts, TypeSame DEF vars
  <1> QED
    BY <1>1, <1>2

\* The registry holds providers, every queue and buffer what it should, and
\* response_ never more than its maximum.
THEOREM ServiceTypeCorrect == Spec => []TypeOK
  <1>1. Init => TypeOK
    BY TypeInit
  <1>2. TypeOK /\ [Next]_vars => TypeOK'
    BY TypeStep
  <1> QED
    BY <1>1, <1>2, PTL DEF Spec

-----------------------------------------------------------------------------
\* The registry.

LEMMA RegistryInitially == Init => RegistryTells
  BY KeyAssumption DEF Init, RegistryInit, RegistryTells, Obj

\* A step inside the life of o leaves the registry as it is.
LEMMA RegistryInside ==
    ASSUME TypeOK, RegistryTells, NEW o \in Obj, NEW stage \in Stage \ {"new", "gone"},
           o \in Provider => life[o] \notin {"new", "gone"},
           Become(o, stage), UNCHANGED providers
    PROVE  RegistryTells'
  <1>1. life' = [life EXCEPT ![o] = stage] /\ life \in [Obj -> Stage]
    BY DEF Become, TypeOK
  <1>2. ASSUME NEW p \in Provider
        PROVE  life'[p] \in {"new", "gone"} <=> life[p] \in {"new", "gone"}
    BY <1>1, <1>2, Stages
  <1> QED
    BY <1>2 DEF RegistryTells

LEMMA RegistryStep ==
    ASSUME TypeOK, RegistryTells, [Next]_vars
    PROVE  RegistryTells'
  <1>0. /\ providers \in [Key -> Provider \cup {Nobody}] /\ life \in [Obj -> Stage]
        /\ KeyOf \in [Provider -> Key] /\ Nobody \notin Provider
    BY KeyAssumption DEF TypeOK
  <1>1. ASSUME NEW p \in Provider, Register(p)
        PROVE  RegistryTells'
    <2>1. /\ providers[KeyOf[p]] = Nobody /\ providers' = [providers EXCEPT ![KeyOf[p]] = p]
          /\ life' = [life EXCEPT ![p] = "base"] /\ p \in Obj
      BY <1>1, Stages DEF Register, AddProvider, Become
    <2>2. ASSUME NEW q \in Provider
          PROVE  providers'[KeyOf[q]] = q <=> life'[q] \notin {"new", "gone"}
      <3>1. CASE q = p
        BY <1>0, <2>1, <3>1
      <3>2. CASE q # p /\ KeyOf[q] = KeyOf[p]
        <4>1. providers[KeyOf[q]] # q /\ life'[q] = life[q] /\ q \in Obj
          BY <1>0, <2>1, <2>2, <3>2, Stages
        <4> QED
          BY <1>0, <2>1, <3>2, <4>1 DEF RegistryTells
      <3>3. CASE KeyOf[q] # KeyOf[p]
        <4>1. q # p /\ q \in Obj
          BY <3>3, Stages
        <4> QED
          BY <1>0, <2>1, <3>3, <4>1 DEF RegistryTells
      <3> QED
        BY <3>1, <3>2, <3>3
    <2> QED
      BY <2>2 DEF RegistryTells
  <1>2. ASSUME NEW p \in Provider, RegisterThrows(p)
        PROVE  RegistryTells'
    <2>1. life[p] = "new" /\ life' = [life EXCEPT ![p] = "gone"] /\ p \in Obj /\ UNCHANGED providers
      BY <1>2, Stages DEF RegisterThrows, Become
    <2>2. ASSUME NEW q \in Provider
          PROVE  life'[q] \in {"new", "gone"} <=> life[q] \in {"new", "gone"}
      BY <1>0, <2>1, Stages
    <2> QED
      BY <2>1, <2>2 DEF RegistryTells
  <1>3. ASSUME NEW o \in Obj, Construction(o) \/ Destroy(o) \/ StopPool(o) \/ JoinPool(o)
        PROVE  RegistryTells'
    <2>1. PICK stage \in Stage \ {"new", "gone"} : Become(o, stage)
      BY <1>3, Stages
      DEF Construction, SpawnConnections, PoolThrows, Constructed, ConstructorThrows, Destroy, StopPool, JoinPool
    <2>2. o \in Provider => life[o] \notin {"new", "gone"}
      BY <1>3
      DEF Construction, SpawnConnections, PoolThrows, Constructed, ConstructorThrows, Destroy, StopPool,
          JoinPool, Stateless
    <2>3. UNCHANGED providers
      BY <1>3
      DEF Construction, SpawnConnections, PoolThrows, Constructed, ConstructorThrows, Destroy, StopPool, JoinPool
    <2> QED
      BY <2>1, <2>2, <2>3, RegistryInside
  <1>4. ASSUME NEW o \in Obj, Unregister(o)
        PROVE  RegistryTells'
    <2>1. /\ life[o] = "pool_gone" /\ life' = [life EXCEPT ![o] = "gone"]
          /\ IF o \in Provider THEN providers' = [providers EXCEPT ![KeyOf[o]] = Nobody]
             ELSE UNCHANGED providers
      BY <1>4 DEF Unregister, Become, RemoveProvider
    <2>2. ASSUME NEW q \in Provider
          PROVE  providers'[KeyOf[q]] = q <=> life'[q] \notin {"new", "gone"}
      <3>1. q \in Obj /\ KeyOf[q] \in Key
        BY <1>0, Stages
      <3>2. CASE o \notin Provider
        BY <1>0, <2>1, <3>1, <3>2 DEF RegistryTells
      <3>3. CASE o \in Provider
        <4>1. providers[KeyOf[o]] = o
          BY <2>1, <3>3 DEF RegistryTells
        <4>2. CASE q = o
          BY <1>0, <2>1, <3>1, <3>3, <4>2
        <4>3. CASE q # o /\ KeyOf[q] = KeyOf[o]
          BY <1>0, <2>1, <3>1, <3>3, <4>1, <4>3 DEF RegistryTells
        <4>4. CASE KeyOf[q] # KeyOf[o]
          BY <1>0, <2>1, <3>1, <3>3, <4>4 DEF RegistryTells
        <4> QED
          BY <4>2, <4>3, <4>4
      <3> QED
        BY <3>2, <3>3
    <2> QED
      BY <2>2 DEF RegistryTells
  <1>5. ASSUME UNCHANGED objVars
        PROVE  RegistryTells'
    BY <1>5 DEF objVars, RegistryTells
  <1>6. ASSUME NEW c \in Conn,
               \/ ThreadEnds(c) \/ HandleConnect(c) \/ HandleHandshake(c)
               \/ HandleError(c) \/ Restart(c) \/ HandleReadErr(c) \/ HandleEof(c)
               \/ Receive(c) \/ HandleRead(c) \/ RunStart(c) \/ RunReport(c) \/ RunWake(c)
        PROVE  UNCHANGED objVars
    BY <1>6 DEF ThreadEnds, HandleConnect, HandleHandshake, HandleError, Restart, HandleReadErr, HandleEof,
       Receive, HandleRead, RunStart, RunReport, RunWake
  <1>7. ASSUME NEW p \in Provider, Post(p)
        PROVE  UNCHANGED objVars
    BY <1>7 DEF Post
  <1>8. ASSUME NEW f \in Feed, StartFeed(f) \/ StopFeed(f)
        PROVE  UNCHANGED objVars
    BY <1>8 DEF StartFeed, StopFeed
  <1>9. CASE Next
    BY <1>1, <1>2, <1>3, <1>4, <1>5, <1>6, <1>7, <1>8, <1>9, Steps DEF DestructorStep
  <1>10. CASE UNCHANGED vars
    BY <1>5, <1>10 DEF vars
  <1> QED
    BY <1>9, <1>10

\* push_service_impl holds a pointer to exactly the providers whose base
\* class is alive.
THEOREM RegistryAlwaysTells == Spec => []RegistryTells
  <1>1. Init => TypeOK /\ RegistryTells
    BY TypeInit, RegistryInitially
  <1>2. (TypeOK /\ RegistryTells) /\ [Next]_vars => (TypeOK /\ RegistryTells)'
    BY TypeStep, RegistryStep
  <1> QED
    BY <1>1, <1>2, PTL DEF Spec

-----------------------------------------------------------------------------
\* The ends of objects.

\* Nothing but reports waits for o in the client's queue.
Silent(o) ==
    \A i \in DOMAIN clientQ : Owner(clientQ[i].conn) = o => clientQ[i].what = "report"

\* Nothing has been used of o after its end.
Unused(o) == \A u \in misuse : u[2] # o

\* What is known of an object by the stage of its life and by whether its
\* constructor has returned: before that, none of its connections does
\* anything and nothing of its own is posted.
EndInvOf(o) ==
    /\ life[o] \in {"new", "base"} => \A c \in Conns(o) : thread[c] = "none"
    /\ life[o] = "joining" => \A c \in Conns(o) : stopped[c]
    /\ life[o] \in {"pool_gone", "gone"} => \A c \in Conns(o) : thread[c] # "run"
    /\ life[o] \in {"new", "base", "pool"} => ~constructed[o]
    /\ life[o] = "ready" => constructed[o]
    /\ ~constructed[o] => Silent(o) /\ Unused(o) /\ \A c \in Conns(o) : op[c] = "idle"

EndInv == \A o \in Obj : EndInvOf(o)

LEMMA EndInitially == Init => EndInv
  <1> SUFFICES ASSUME Init, NEW o \in Obj
               PROVE  EndInvOf(o)
    BY DEF EndInv
  <1>1. /\ life[o] = "new" /\ constructed[o] = FALSE /\ misuse = {}
        /\ \A c \in Conns(o) : thread[c] = "none" /\ op[c] = "idle"
    BY ConnsFinite DEF Init
  <1>2. DOMAIN clientQ = {}
    BY DEF Init
  <1>3. Silent(o) /\ Unused(o)
    BY <1>1, <1>2 DEF Silent, Unused
  <1> QED
    BY <1>1, <1>3 DEF EndInvOf

\* What leaves the queue does no harm,
LEMMA SilentTake ==
    ASSUME TypeOK, NEW o, NEW what, Take(what), Silent(o)
    PROVE  Silent(o)'
  <1> SUFFICES ASSUME NEW i \in DOMAIN clientQ', Owner(clientQ'[i].conn) = o
               PROVE  clientQ'[i].what = "report"
    BY DEF Silent, Owner
  <1>1. /\ i \in 1..(Len(clientQ) - 1) /\ clientQ'[i] = clientQ[i + 1]
        /\ DOMAIN clientQ = 1..Len(clientQ) /\ Len(clientQ) \in Nat
    BY TakeType
  <1>2. i + 1 \in DOMAIN clientQ
    BY <1>1
  <1> QED
    BY <1>1, <1>2 DEF Silent

\* nor do reports, and starts and wake-ups of others, that come.
LEMMA SilentAppend ==
    ASSUME TypeOK, NEW o, NEW s \in Seq(Entry), clientQ' = clientQ \o s, Silent(o),
           \A i \in DOMAIN s : Owner(s[i].conn) = o => s[i].what = "report"
    PROVE  Silent(o)'
  <1> SUFFICES ASSUME NEW i \in DOMAIN clientQ', Owner(clientQ'[i].conn) = o
               PROVE  clientQ'[i].what = "report"
    BY DEF Silent, Owner
  <1>1. clientQ \in Seq(Entry)
    BY DEF TypeOK
  <1>2. /\ Len(clientQ) \in Nat /\ Len(s) \in Nat
        /\ DOMAIN clientQ = 1..Len(clientQ) /\ DOMAIN s = 1..Len(s)
        /\ DOMAIN clientQ' = 1..(Len(clientQ) + Len(s))
        /\ clientQ'[i] = IF i <= Len(clientQ) THEN clientQ[i] ELSE s[i - Len(clientQ)]
    BY <1>1, ConcatProperties, LenProperties
  <1>3. CASE i <= Len(clientQ)
    <2>1. i \in DOMAIN clientQ
      BY <1>2, <1>3
    <2> QED
      BY <1>2, <1>3, <2>1 DEF Silent
  <1>4. CASE ~(i <= Len(clientQ))
    <2>1. i - Len(clientQ) \in DOMAIN s
      BY <1>2, <1>4
    <2> QED
      BY <1>2, <1>4, <2>1
  <1> QED
    BY <1>3, <1>4

LEMMA SilentReport ==
    ASSUME TypeOK, NEW o, NEW c \in Conn, NEW event \in Event, clientQ' = Report(c, event), Silent(o)
    PROVE  Silent(o)'
  <1> DEFINE e == [what |-> "report", conn |-> c, event |-> event]
  <1>1. clientQ' = clientQ \o <<e>> /\ <<e>> \in Seq(Entry)
    <2>1. e \in Entry
      BY DEF Entry
    <2>2. clientQ' = Append(clientQ, e) /\ clientQ \in Seq(Entry)
      BY DEF Report, TypeOK
    <2> QED
      BY <2>1, <2>2, AppendIsConcat
  <1>2. \A i \in DOMAIN <<e>> : <<e>>[i].what = "report"
    OBVIOUS
  <1> QED
    BY <1>1, <1>2, SilentAppend

\* A step that o has no part in.
LEMMA Elsewhere ==
    ASSUME NEW o \in Obj, EndInvOf(o),
           life'[o] = life[o], constructed'[o] = constructed[o],
           \A u \in misuse' : u \in misuse \/ u[2] # o,
           \A c \in Conns(o) : thread'[c] = thread[c] /\ op'[c] = op[c] /\ (stopped[c] => stopped'[c]),
           Silent(o) => Silent(o)'
    PROVE  EndInvOf(o)'
  <1>1. Conns(o)' = Conns(o)
    BY DEF Conns
  <1>2. Unused(o) => Unused(o)'
    BY DEF Unused
  <1> QED
    BY <1>1, <1>2 DEF EndInvOf

\* Entries of one object leave the others silent.
LEMMA SilentOthers ==
    ASSUME TypeOK, NEW o \in Obj, NEW p \in Obj, p # o, Silent(o),
           NEW what \in {"start", "wake"}, NEW cs \in SUBSET Conns(p),
           NEW q \in Seq(Entry), clientQ' = q \o Entries(what, cs),
           q = clientQ \/ \E c \in Conn, event \in Event : q = Report(c, event)
    PROVE  Silent(o)'
  <1> DEFINE s == Entries(what, cs)
  <1>1. /\ s \in Seq(Entry)
        /\ \A i \in DOMAIN s : Owner(s[i].conn) # o
    BY EntriesType, ConnsFinite
  <1>2. CASE q = clientQ
    BY <1>1, <1>2, SilentAppend
  <1>3. ASSUME NEW c \in Conn, NEW event \in Event, q = Report(c, event)
        PROVE  Silent(o)'
    <2> DEFINE e == [what |-> "report", conn |-> c, event |-> event]
    <2>1. e \in Entry /\ clientQ \in Seq(Entry) /\ q = Append(clientQ, e)
      BY <1>3 DEF Entry, Report, TypeOK
    <2>2. q = clientQ \o <<e>> /\ <<e>> \in Seq(Entry)
      BY <2>1, AppendIsConcat
    <2> HIDE DEF e, s
    <2>3. clientQ' = clientQ \o (<<e>> \o s) /\ <<e>> \o s \in Seq(Entry)
      BY <1>1, <2>1, <2>2, ConcatAssociative, ConcatProperties DEF s
    <2>4. ASSUME NEW i \in DOMAIN (<<e>> \o s), Owner((<<e>> \o s)[i].conn) = o
          PROVE  (<<e>> \o s)[i].what = "report"
      <3>1. /\ Len(s) \in Nat /\ DOMAIN s = 1..Len(s)
            /\ i \in 1..(1 + Len(s))
            /\ (<<e>> \o s)[i] = IF i <= 1 THEN e ELSE s[i - 1]
        BY <1>1, <2>1, <2>2, <2>3, LenProperties, ConcatProperties
      <3>2. CASE i <= 1
        BY <3>1, <3>2 DEF e
      <3>3. CASE ~(i <= 1)
        <4>1. i - 1 \in DOMAIN s
          BY <3>1, <3>3
        <4> QED
          BY <1>1, <2>4, <3>1, <3>3, <4>1
      <3> QED
        BY <3>2, <3>3
    <2> QED
      BY <2>3, <2>4, SilentAppend
  <1> QED
    BY <1>2, <1>3

\* The steps of constructors.
LEMMA EndConstruct ==
    ASSUME TypeOK, EndInv, NEW p \in Obj,
           (p \in Provider /\ (Register(p) \/ RegisterThrows(p))) \/ Construction(p),
           NEW o \in Obj
    PROVE  EndInvOf(o)'
  <1>0. /\ life \in [Obj -> Stage] /\ constructed \in [Obj -> BOOLEAN]
        /\ thread \in [Conn -> {"none", "run", "ended"}]
        /\ EndInvOf(o) /\ EndInvOf(p)
        /\ \A c \in Conns(o) : c \in Conn /\ Owner(c) = o
    BY ConnsFinite DEF TypeOK, EndInv
  <1>1. PICK stage : life' = [life EXCEPT ![p] = stage]
    BY DEF Register, RegisterThrows, Construction, SpawnConnections, PoolThrows, Constructed,
       ConstructorThrows, Become
  <1>2. UNCHANGED <<stopped, op, misuse>>
    BY DEF Register, RegisterThrows, Construction, SpawnConnections, PoolThrows, Constructed,
       ConstructorThrows, connVars, clientVars
  <1>3. CASE o # p
    <2>1. life'[o] = life[o]
      BY <1>0, <1>1, <1>3
    <2>2. constructed'[o] = constructed[o]
      BY <1>0, <1>3 DEF Register, RegisterThrows, Construction, SpawnConnections, PoolThrows, Constructed,
         ConstructorThrows
    <2>3. \A c \in Conns(o) : thread'[c] = thread[c]
      BY <1>0, <1>3 DEF Register, RegisterThrows, Construction, SpawnConnections, PoolThrows, Constructed,
         ConstructorThrows, ForAll, connVars
    <2>4. ASSUME Silent(o)
          PROVE  Silent(o)'
      <3>1. UNCHANGED clientQ \/ clientQ' = clientQ \o Entries("start", Conns(p))
        BY DEF Register, RegisterThrows, Construction, SpawnConnections, PoolThrows, Constructed,
           ConstructorThrows, PoolStart, clientVars
      <3>2. CASE UNCHANGED clientQ
        BY <2>4, <3>2 DEF Silent, Owner
      <3>3. CASE clientQ' = clientQ \o Entries("start", Conns(p))
        BY <1>3, <2>4, <3>3, SilentOthers DEF TypeOK
      <3> QED
        BY <3>1, <3>2, <3>3
    <2> QED
      BY <1>0, <1>2, <2>1, <2>2, <2>3, <2>4, Elsewhere
  <1>4. CASE o = p
    <2>1. ~constructed[o] /\ Silent(o) /\ Unused(o) /\ \A c \in Conns(o) : op[c] = "idle"
      <3>1. life[o] \in {"new", "base", "pool"}
        BY <1>4 DEF Register, RegisterThrows, Construction, SpawnConnections, PoolThrows, Constructed,
           ConstructorThrows, Stateless
      <3> QED
        BY <1>0, <3>1 DEF EndInvOf
    <2>2. Conns(o)' = Conns(o) /\ \A c \in Conns(o) : op'[c] = "idle"
      BY <1>2, <2>1 DEF Conns
    <2>3. Unused(o)' /\ life'[o] = stage
      BY <1>0, <1>1, <1>2, <1>4, <2>1 DEF Unused
    <2>4. ASSUME UNCHANGED <<constructed, clientQ>>, stage # "joining", stage # "ready",
                 stage \in {"new", "base"} => \A c \in Conns(o) : thread'[c] = "none",
                 stage \in {"pool_gone", "gone"} => \A c \in Conns(o) : thread'[c] # "run"
          PROVE  EndInvOf(o)'
      <3>1. Silent(o)' /\ ~constructed'[o]
        BY <2>1, <2>4 DEF Silent, Owner
      <3> QED
        BY <2>2, <2>3, <2>4, <3>1 DEF EndInvOf
    <2>5. ASSUME life[o] \in {"new", "base"}, UNCHANGED thread
          PROVE  \A c \in Conns(o) : thread'[c] = "none"
      BY <1>0, <2>5 DEF EndInvOf
    <2>6. CASE Register(p) \/ RegisterThrows(p)
      <3>1. UNCHANGED <<constructed, thread, clientQ>> /\ life[o] = "new" /\ stage \in {"base", "gone"}
        BY <1>0, <1>4, <2>3, <2>6 DEF Register, RegisterThrows, Become, connVars, clientVars
      <3> QED
        BY <2>4, <2>5, <3>1
    <2>7. CASE SpawnConnections(p)
      <3>1. UNCHANGED <<constructed, clientQ>> /\ stage = "pool"
        BY <1>0, <1>4, <2>3, <2>7 DEF SpawnConnections, Become, clientVars
      <3> QED
        BY <2>4, <3>1
    <2>8. CASE PoolThrows(p)
      <3>1. UNCHANGED <<constructed, thread, clientQ>> /\ life[o] \in {"new", "base"} /\ stage = "pool_gone"
        BY <1>0, <1>4, <2>3, <2>8 DEF PoolThrows, Become, Stateless, connVars, clientVars
      <3> QED
        BY <2>4, <2>5, <3>1
    <2>9. CASE Constructed(p)
      <3>1. life'[o] = "ready" /\ constructed'[o]
        BY <1>0, <1>4, <2>9 DEF Constructed, Become
      <3> QED
        BY <3>1 DEF EndInvOf
    <2>10. CASE ConstructorThrows(p)
      <3>1. UNCHANGED <<constructed, clientQ>> /\ stage = "ctx_gone"
        BY <1>0, <1>4, <2>3, <2>10 DEF ConstructorThrows, Become, clientVars
      <3> QED
        BY <2>4, <3>1
    <2> QED
      BY <2>6, <2>7, <2>8, <2>9, <2>10 DEF Construction
  <1> QED
    BY <1>3, <1>4

\* The steps of destructors, and start and stop of a feedback reader.
LEMMA EndDestruct ==
    ASSUME TypeOK, EndInv, NEW p \in Obj,
           (p \in Feed /\ (StartFeed(p) \/ StopFeed(p))) \/ Destroy(p) \/ DestructorStep(p),
           NEW o \in Obj
    PROVE  EndInvOf(o)'
  <1>0. /\ life \in [Obj -> Stage] /\ stopped \in [Conn -> BOOLEAN] /\ op \in [Conn -> Ops]
        /\ EndInvOf(o) /\ EndInvOf(p)
        /\ \A c \in Conns(o) : c \in Conn /\ Owner(c) = o
        /\ Conns(o)' = Conns(o)
    BY ConnsFinite DEF TypeOK, EndInv, Conns
  <1>1. UNCHANGED <<constructed, thread, misuse>>
    BY DEF StartFeed, StopFeed, Destroy, DestructorStep, StopPool, JoinPool, Unregister, objVars, connVars,
       clientVars
  <1>2. UNCHANGED clientQ \/ (StartFeed(p) /\ clientQ' = clientQ \o Entries("start", Conns(p)))
    BY DEF StartFeed, StopFeed, Destroy, DestructorStep, StopPool, JoinPool, Unregister, PoolStart, clientVars
  <1>3. CASE o # p
    <2>1. life'[o] = life[o]
      BY <1>0, <1>3
      DEF StartFeed, StopFeed, Destroy, DestructorStep, StopPool, JoinPool, Unregister, Become, objVars
    <2>2. \A c \in Conns(o) : op'[c] = op[c] /\ stopped'[c] = stopped[c]
      BY <1>0, <1>3
      DEF StartFeed, StopFeed, Destroy, DestructorStep, StopPool, JoinPool, Unregister, StopConnections,
          Release, ForAll, connVars
    <2>3. ASSUME Silent(o)
          PROVE  Silent(o)'
      <3>1. CASE UNCHANGED clientQ
        BY <2>3, <3>1 DEF Silent, Owner
      <3>2. CASE clientQ' = clientQ \o Entries("start", Conns(p))
        BY <1>3, <2>3, <3>2, SilentOthers DEF TypeOK
      <3> QED
        BY <1>2, <3>1, <3>2
    <2> QED
      BY <1>0, <1>1, <2>1, <2>2, <2>3, Elsewhere
  <1>4. CASE o = p
    <2>1. CASE p \in Feed /\ (StartFeed(p) \/ StopFeed(p))
      <3>1. life[o] = "ready" /\ UNCHANGED life
        BY <1>4, <2>1 DEF StartFeed, StopFeed, objVars
      <3>2. constructed[o]
        BY <1>0, <3>1 DEF EndInvOf
      <3> QED
        BY <1>1, <3>1, <3>2 DEF EndInvOf
    <2>2. ASSUME UNCHANGED clientQ, life'[o] \in {"ctx_gone", "joining", "pool_gone", "gone"},
                 \A c \in Conns(o) : op'[c] \in {op[c], "idle"},
                 life'[o] = "joining" => \A c \in Conns(o) : stopped'[c],
                 life'[o] \in {"pool_gone", "gone"} => \A c \in Conns(o) : thread[c] # "run"
          PROVE  EndInvOf(o)'
      <3>1. (Silent(o) => Silent(o)') /\ (Unused(o) => Unused(o)')
        BY <1>1, <2>2 DEF Silent, Owner, Unused
      <3>2. life'[o] \notin {"new", "base", "pool", "ready"}
        BY <2>2
      <3> QED
        BY <1>0, <1>1, <2>2, <3>1, <3>2 DEF EndInvOf
    <2>3. CASE Destroy(p)
      <3>1. life'[o] = "ctx_gone" /\ UNCHANGED <<op, clientQ>>
        BY <1>0, <1>4, <2>3 DEF Destroy, Become, connVars, clientVars
      <3> QED
        BY <2>2, <3>1
    <2>4. CASE StopPool(p)
      <3>1. UNCHANGED <<clientQ, op>> /\ life'[o] = "joining" /\ \A c \in Conns(o) : stopped'[c]
        BY <1>0, <1>4, <2>4 DEF StopPool, Become, StopConnections, ForAll, clientVars
      <3> QED
        BY <2>2, <3>1
    <2>5. CASE JoinPool(p)
      <3>1. /\ UNCHANGED clientQ /\ life'[o] = "pool_gone"
            /\ \A c \in Conns(o) : thread[c] # "run" /\ op'[c] = "idle"
        BY <1>0, <1>4, <2>5 DEF JoinPool, Become, Release, ForAll, clientVars
      <3> QED
        BY <2>2, <3>1
    <2>6. CASE Unregister(p)
      <3>1. UNCHANGED <<clientQ, op>> /\ life[o] = "pool_gone" /\ life'[o] = "gone"
        BY <1>0, <1>4, <2>6 DEF Unregister, Become, connVars, clientVars
      <3>2. \A c \in Conns(o) : thread[c] # "run"
        BY <1>0, <3>1 DEF EndInvOf
      <3> QED
        BY <2>2, <3>1, <3>2
    <2> QED
      BY <2>1, <2>3, <2>4, <2>5, <2>6 DEF DestructorStep
  <1> QED
    BY <1>3, <1>4

\* A connection that runs belongs to an object whose pool is not stopped.
LEMMA RunsInLife ==
    ASSUME EndInv, NEW c \in Conn, Runs(c)
    PROVE  life[Owner(c)] \notin {"new", "base", "joining", "pool_gone", "gone"}
  <1>1. EndInvOf(Owner(c)) /\ c \in Conns(Owner(c))
    BY OwnerType DEF EndInv
  <1> QED
    BY <1>1 DEF EndInvOf, Runs

\* A step of c's connection that leaves all but its operation, its thread's
\* end, its waiter and the queue alone.
LEMMA EndOfConn ==
    ASSUME TypeOK, EndInv, NEW c \in Conn, NEW o \in Obj,
           UNCHANGED <<life, constructed, stopped>>,
           \A d \in Conns(o) : thread'[d] = thread[d] \/ (thread'[d] = "ended" /\ thread[d] = "run"),
           \A d \in Conn : d # c => op'[d] = op[d],
           op'[c] # op[c] => constructed[Owner(c)],
           \A u \in misuse' : u \in misuse \/ (u[2] = Owner(c) /\ constructed[Owner(c)]),
           Silent(o) => Silent(o)' \/ (o = Owner(c) /\ constructed[o])
    PROVE  EndInvOf(o)'
  <1>0. /\ EndInvOf(o)
        /\ \A d \in Conns(o) : d \in Conn /\ Owner(d) = o
        /\ Conns(o)' = Conns(o)
    BY ConnsFinite DEF EndInv, Conns
  <1>1. /\ life[o] \in {"new", "base"} => \A d \in Conns(o) : thread'[d] = "none"
        /\ life[o] \in {"pool_gone", "gone"} => \A d \in Conns(o) : thread'[d] # "run"
    BY <1>0 DEF EndInvOf
  <1>2. ~constructed[o] => Silent(o)'
    BY <1>0 DEF EndInvOf
  <1>3. ~constructed[o] => Unused(o)'
    BY <1>0 DEF EndInvOf, Unused
  <1>4. ~constructed[o] => \A d \in Conns(o) : op'[d] = "idle"
    BY <1>0 DEF EndInvOf
  <1> QED
    BY <1>0, <1>1, <1>2, <1>3, <1>4 DEF EndInvOf

\* The handlers of a connection.
LEMMA EndHandle ==
    ASSUME TypeOK, EndInv, NEW c \in Conn,
           \/ ThreadEnds(c) \/ HandleConnect(c) \/ HandleHandshake(c)
           \/ HandleError(c) \/ Restart(c) \/ HandleReadErr(c) \/ HandleEof(c)
           \/ Receive(c) \/ HandleRead(c),
           NEW o \in Obj
    PROVE  EndInvOf(o)'
  <1> DEFINE p == Owner(c)
  <1>0. /\ op \in [Conn -> Ops] /\ thread \in [Conn -> {"none", "run", "ended"}]
        /\ p \in Obj /\ c \in Conns(p) /\ EndInvOf(p)
        /\ Conns(o) \subseteq Conn
        /\ <<"error", 0>> \in Event /\ <<"shutdown", 0>> \in Event
    BY OwnerType, ConnsFinite DEF TypeOK, EndInv, Event
  <1>1. UNCHANGED <<life, constructed, stopped>>
    BY DEF ThreadEnds, HandleConnect, HandleHandshake, HandleError, Restart, HandleReadErr, HandleEof,
       Receive, HandleRead, objVars, connVars
  <1>2. \A d \in Conns(o) : thread'[d] = thread[d] \/ (thread'[d] = "ended" /\ thread[d] = "run")
    BY <1>0 DEF ThreadEnds, HandleConnect, HandleHandshake, HandleError, Restart, HandleReadErr, HandleEof,
       Receive, HandleRead, connVars
  <1>3. \A d \in Conn : d # c => op'[d] = op[d]
    BY <1>0 DEF ThreadEnds, HandleConnect, HandleHandshake, HandleError, Restart, HandleReadErr, HandleEof,
       Receive, HandleRead, connVars, Connect
  <1>4. misuse' = misuse \/ misuse' = misuse \cup {<<"restart", p>>}
    BY DEF ThreadEnds, HandleConnect, HandleHandshake, HandleError, Restart, HandleReadErr, HandleEof,
       Receive, HandleRead, Connect, clientVars
  <1>5. ASSUME UNCHANGED clientQ, Silent(o)
        PROVE  Silent(o)'
    BY <1>5 DEF Silent, Owner
  <1>6. CASE ThreadEnds(c)
    <2>1. UNCHANGED <<op, misuse, clientQ>>
      BY <1>6 DEF ThreadEnds, clientVars
    <2> QED
      BY <1>1, <1>2, <1>3, <1>5, <2>1, EndOfConn
  <1>7. CASE ~ThreadEnds(c)
    <2>1. op[c] # "idle"
      BY <1>7 DEF HandleConnect, HandleHandshake, HandleError, Restart, HandleReadErr, HandleEof, Receive,
         HandleRead
    <2>2. constructed[p]
      BY <1>0, <2>1 DEF EndInvOf
    <2>3. ASSUME Silent(o) => Silent(o)' \/ o = p
          PROVE  EndInvOf(o)'
      <3>1. \A u \in misuse' : u \in misuse \/ (u[2] = p /\ constructed[p])
        BY <1>4, <2>2
      <3> QED
        BY <1>1, <1>2, <1>3, <2>2, <2>3, <3>1, EndOfConn
    <2>4. CASE HandleConnect(c) \/ HandleHandshake(c) \/ Restart(c) \/ Receive(c)
      <3>1. UNCHANGED clientQ
        BY <2>4 DEF HandleConnect, HandleHandshake, Restart, Receive, clientVars
      <3> QED
        BY <1>5, <2>3, <3>1
    <2>5. CASE HandleError(c)
      <3>1. clientQ' = Report(c, <<"error", 0>>)
        BY <2>5 DEF HandleError
      <3> QED
        BY <1>0, <2>3, <3>1, SilentReport
    <2>6. CASE HandleEof(c)
      <3>1. clientQ' = Report(c, <<"shutdown", 0>>)
        BY <2>6 DEF HandleEof
      <3> QED
        BY <1>0, <2>3, <3>1, SilentReport
    <2>7. CASE HandleReadErr(c)
      <3> DEFINE woken == {d \in Conns(p) : waiting[d]}
      <3>1. UNCHANGED clientQ \/ clientQ' = Report(c, <<"error", 0>>) \o Entries("wake", woken)
        BY <2>7 DEF HandleReadErr
      <3>2. ASSUME Silent(o), o # p, clientQ' = Report(c, <<"error", 0>>) \o Entries("wake", woken)
            PROVE  Silent(o)'
        <4>1. Report(c, <<"error", 0>>) \in Seq(Entry)
          BY <1>0, ReportType
        <4> QED
          BY <1>0, <3>2, <4>1, SilentOthers
      <3> QED
        BY <1>5, <2>3, <3>1, <3>2
    <2>8. CASE HandleRead(c)
      <3>1. Len(response[c]) = StreambufMax /\ clientQ' = clientQ \o TokenReports(c)
        BY <2>8 DEF HandleRead, TokenReports
      <3>2. TokenReports(c) \in Seq(Entry)
        BY <3>1, TokenReportsType
      <3>3. \A i \in DOMAIN TokenReports(c) : TokenReports(c)[i].what = "report"
        BY DEF TokenReports
      <3>4. Silent(o) => Silent(o)'
        BY <3>1, <3>2, <3>3, SilentAppend
      <3> QED
        BY <2>3, <3>4
    <2> QED
      BY <1>7, <2>4, <2>5, <2>6, <2>7, <2>8
  <1> QED
    BY <1>6, <1>7

\* What runs on the client's threads.
LEMMA EndClient ==
    ASSUME TypeOK, EndInv, NEW c \in Conn, RunStart(c) \/ RunReport(c) \/ RunWake(c), NEW o \in Obj
    PROVE  EndInvOf(o)'
  <1> DEFINE p == Owner(c)
  <1>0. op \in [Conn -> Ops] /\ EndInvOf(p)
    BY OwnerType DEF TypeOK, EndInv
  <1>1. UNCHANGED <<life, constructed, stopped, thread>>
    BY DEF RunStart, RunReport, RunWake, objVars, connVars
  <1>2. \A d \in Conn : d # c => op'[d] = op[d]
    BY <1>0 DEF RunStart, RunReport, RunWake, connVars, Connect
  <1>3. PICK what \in {"start", "report", "wake"} : Take(what) /\ c = Head(clientQ).conn
    BY DEF RunStart, RunReport, RunWake
  <1>4. Silent(o) => Silent(o)'
    BY <1>3, SilentTake
  <1>5. CASE RunReport(c)
    <2>1. UNCHANGED <<op, misuse>>
      BY <1>5 DEF RunReport, connVars
    <2> QED
      BY <1>1, <1>2, <1>4, <2>1, EndOfConn
  <1>6. CASE RunStart(c) \/ RunWake(c)
    <2>1. Head(clientQ).what # "report"
      BY <1>6 DEF RunStart, RunWake, Take
    <2>2. clientQ[1].what # "report" /\ Owner(clientQ[1].conn) = p /\ 1 \in DOMAIN clientQ
      BY <1>3, <2>1, TakeType
    <2>3. ~Silent(p)
      BY <2>2 DEF Silent
    <2>4. constructed[p]
      BY <1>0, <2>3 DEF EndInvOf
    <2>5. \A u \in misuse' : u \in misuse \/ (u[2] = p /\ constructed[p])
      BY <1>6, <2>4 DEF RunStart, RunWake, Connect
    <2> QED
      BY <1>1, <1>2, <1>4, <2>4, <2>5, EndOfConn
  <1> QED
    BY <1>5, <1>6

LEMMA EndPost ==
    ASSUME TypeOK, EndInv, NEW p \in Provider, Post(p), NEW o \in Obj
    PROVE  EndInvOf(o)'
  <1>1. PICK c \in Conns(p) : clientQ' = clientQ \o Entries("wake", {c})
    BY DEF Post
  <1>2. UNCHANGED <<life, constructed, thread, stopped, op, misuse>> /\ life[p] = "ready" /\ p \in Obj
    BY Stages DEF Post, objVars
  <1>3. CASE o # p
    <2>1. Silent(o) => Silent(o)'
      <3>1. {c} \in SUBSET Conns(p)
        BY <1>1
      <3> QED
        BY <1>1, <1>2, <1>3, <3>1, SilentOthers DEF TypeOK
    <2> QED
      BY <1>2, <2>1, Elsewhere DEF EndInv
  <1>4. CASE o = p
    <2>1. constructed[o]
      BY <1>2, <1>4 DEF EndInv, EndInvOf
    <2> QED
      BY <1>2, <1>4, <2>1 DEF EndInvOf
  <1> QED
    BY <1>3, <1>4

LEMMA EndStep ==
    ASSUME TypeOK, EndInv, [Next]_vars
    PROVE  EndInv'
  <1> SUFFICES ASSUME NEW o \in Obj
               PROVE  EndInvOf(o)'
    BY DEF EndInv
  <1>1. CASE Next
    BY <1>1, Steps, EndConstruct, EndDestruct, EndHandle, EndClient, EndPost
  <1>2. CASE UNCHANGED vars
    <2>1. UNCHANGED <<life, constructed, stopped, thread, op, misuse, clientQ>>
      BY <1>2 DEF vars, objVars, connVars, clientVars
    <2>2. Silent(o) => Silent(o)'
      BY <2>1 DEF Silent, Owner
    <2> QED
      BY <2>1, <2>2, Elsewhere DEF EndInv
  <1> QED
    BY <1>1, <1>2

\* A constructor that throws leaves no start and no restart of a connection
\* behind that would use what is destroyed with the object: the threads of
\* its pool run, but their connections were never started.
THEOREM FailedConstructorsLeaveNothing == Spec => []FailedConstructorLeavesNothing
  <1>1. Init => TypeOK /\ EndInv
    BY TypeInit, EndInitially
  <1>2. (TypeOK /\ EndInv) /\ [Next]_vars => (TypeOK /\ EndInv)'
    BY TypeStep, EndStep
  <1>3. TypeOK /\ EndInv => FailedConstructorLeavesNothing
    <2> SUFFICES ASSUME TypeOK, EndInv, NEW u \in misuse
                 PROVE  constructed[u[2]]
      BY DEF FailedConstructorLeavesNothing
    <2>1. u[2] \in Obj
      BY DEF TypeOK
    <2>2. EndInvOf(u[2]) /\ ~Unused(u[2])
      BY <2>1 DEF EndInv, Unused
    <2> QED
      BY <2>2 DEF EndInvOf
  <1> QED
    BY <1>1, <1>2, <1>3, PTL DEF Spec

\* Restarts use a destroyed ssl_ctx_ only while the pool is not yet stopped.
LEMMA RestartsBeforeStop ==
    ASSUME TypeOK, EndInv, [Next]_vars, NEW o \in Obj, <<"restart", o>> \in misuse' \ misuse
    PROVE  life[o] = "ctx_gone"
  <1>1. ASSUME NEW p \in Obj,
               \/ (p \in Provider /\ (Register(p) \/ RegisterThrows(p))) \/ Construction(p)
               \/ (p \in Feed /\ (StartFeed(p) \/ StopFeed(p))) \/ Destroy(p) \/ DestructorStep(p)
        PROVE  UNCHANGED misuse
    BY <1>1 DEF Register, RegisterThrows, Construction, SpawnConnections, PoolThrows, Constructed,
       ConstructorThrows, StartFeed, StopFeed, Destroy, DestructorStep, StopPool, JoinPool, Unregister, clientVars
  <1>2. ASSUME NEW c \in Conn,
               \/ ThreadEnds(c) \/ HandleConnect(c) \/ HandleHandshake(c) \/ HandleError(c) \/ HandleEof(c)
               \/ Receive(c) \/ HandleRead(c) \/ RunReport(c)
        PROVE  UNCHANGED misuse
    BY <1>2 DEF ThreadEnds, HandleConnect, HandleHandshake, HandleError, HandleEof, Receive, HandleRead,
       RunReport, clientVars
  <1>3. ASSUME NEW c \in Conn, RunStart(c) \/ RunWake(c)
        PROVE  FALSE
    <2>1. misuse' \subseteq misuse \cup {<<"start", Owner(c)>>, <<"wake", Owner(c)>>}
      BY <1>3 DEF RunStart, RunWake, Connect
    <2> QED
      BY <2>1
  <1>4. ASSUME NEW p \in Provider, Post(p)
        PROVE  UNCHANGED misuse
    BY <1>4 DEF Post
  <1>5. ASSUME NEW c \in Conn, Restart(c) \/ HandleReadErr(c)
        PROVE  life[o] = "ctx_gone"
    <2>1. Runs(c) /\ (UNCHANGED misuse \/ Connect("restart", c))
      BY <1>5 DEF Restart, HandleReadErr
    <2>2. CtxGone(Owner(c)) /\ misuse' = misuse \cup {<<"restart", Owner(c)>>}
      BY <2>1 DEF Connect
    <2>3. o = Owner(c)
      BY <2>2
    <2> QED
      BY <2>1, <2>2, <2>3, RunsInLife DEF CtxGone
  <1>6. ASSUME UNCHANGED misuse
        PROVE  FALSE
    BY <1>6
  <1>7. CASE Next
    BY <1>1, <1>2, <1>3, <1>4, <1>5, <1>6, <1>7, Steps
  <1>8. CASE UNCHANGED vars
    BY <1>6, <1>8 DEF vars, clientVars
  <1> QED
    BY <1>7, <1>8

\* Stop is the end of all restarts: between the stop of a pool and the end of
\* the join, and after it, no connection is restarted with a destroyed
\* ssl_ctx_.
THEOREM RestartsEndWithStop == Spec => StopEndsRestarts
  <1>1. Init => TypeOK /\ EndInv
    BY TypeInit, EndInitially
  <1>2. (TypeOK /\ EndInv) /\ [Next]_vars => (TypeOK /\ EndInv)'
    BY TypeStep, EndStep
  <1>3. (TypeOK /\ EndInv) /\ [Next]_vars =>
          [\A o \in Obj : <<"restart", o>> \in misuse' \ misuse => life[o] = "ctx_gone"]_vars
    BY RestartsBeforeStop
  <1> QED
    BY <1>1, <1>2, <1>3, PTL DEF Spec, StopEndsRestarts
=============================================================================
