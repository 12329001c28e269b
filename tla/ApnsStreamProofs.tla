-------------------------- MODULE ApnsStreamProofs --------------------------
(***************************************************************************)
(* Theorems about the bytes between a connection and Apple's gateway, for  *)
(* any number of requests, any sizes of payloads, any width of the length  *)
(* and any number of broken connections.                                   *)
(***************************************************************************)
EXTENDS ApnsStream, SequenceTheorems, TLAPS

-----------------------------------------------------------------------------
\* Types.

\* A frame is made of bytes: its head, and a unit for each byte.
LEMMA FrameShape ==
    ASSUME NEW i \in Ident, NEW size \in Nat
    PROVE  /\ Frame(i, size) \in Seq(Bytes)
           /\ Len(Frame(i, size)) = size + 1
           /\ Frame(i, size)[1] = FrameHead(i, size % LengthModulus)
           /\ \A k \in 2..(size + 1) : Frame(i, size)[k] = Unit(i)
  <1> DEFINE head  == <<FrameHead(i, size % LengthModulus)>>
             units == [k \in 1..size |-> Unit(i)]
  <1>1. size % LengthModulus \in Nat
    BY StreamAssumption
  <1>2. FrameHead(i, size % LengthModulus) \in Bytes /\ Unit(i) \in Bytes
    BY <1>1 DEF FrameHead, Unit, Bytes
  <1>3. head \in Seq(Bytes) /\ Len(head) = 1 /\ head[1] = FrameHead(i, size % LengthModulus)
    BY <1>2
  <1>4. units \in Seq(Bytes) /\ Len(units) = size
    BY <1>2, SeqDef
  <1>5. /\ head \o units \in Seq(Bytes)
        /\ Len(head \o units) = size + 1
        /\ \A k \in 1..(size + 1) : (head \o units)[k] = IF k <= 1 THEN head[k] ELSE units[k - 1]
    BY <1>3, <1>4, ConcatProperties
  <1>6. Frame(i, size) = head \o units
    BY DEF Frame
  <1> HIDE DEF head
  <1> QED
    BY <1>3, <1>5, <1>6

\* A gateway that still needs units of a frame has taken its head.
FrameKnown == need # 0 => frame \in Bytes

LEMMA TypeInit == StreamInit => StreamTypeOK /\ FrameKnown
  <1> SUFFICES ASSUME StreamInit
               PROVE  StreamTypeOK /\ FrameKnown
    OBVIOUS
  <1>1. <<>> \in Seq(0..MaxPayload) /\ <<>> \in Seq(Bytes) /\ <<>> \in Seq(Ident \X (1..AnswerBytes))
    BY EmptySeq
  <1>2. Len(requests) = 0 /\ MaxRequests \in Nat /\ MaxBreaks \in Nat
    BY StreamAssumption DEF StreamInit
  <1>3. {} \subseteq Ident \X Nat /\ 0 \in 0..AnswerBytes
    BY DEF AnswerBytes
  <1>4. requests \in Seq(0..MaxPayload) /\ Len(requests) \leq MaxRequests
    BY <1>1, <1>2 DEF StreamInit
  <1>5. wire \in Seq(Bytes) /\ response \in Seq(Ident \X (1..AnswerBytes))
    BY <1>1 DEF StreamInit
  <1>6. need = 0 /\ frame = None /\ named = None /\ lost = FALSE /\ misread = FALSE
    BY DEF StreamInit
  <1>7. taken \subseteq Ident \X Nat /\ arrived \in 0..AnswerBytes /\ breaks \in Nat
    BY <1>2, <1>3 DEF StreamInit
  <1> QED
    BY <1>4, <1>5, <1>6, <1>7 DEF StreamTypeOK, FrameKnown

LEMMA TypeSend ==
    ASSUME StreamTypeOK, FrameKnown, NEW size \in 0..MaxPayload, Send(size)
    PROVE  StreamTypeOK' /\ FrameKnown'
  <1>1. Len(requests) + 1 \in Ident /\ size \in Nat
    BY StreamAssumption DEF Send, Ident, StreamTypeOK
  <1>2. Frame(Len(requests) + 1, size) \in Seq(Bytes)
    BY <1>1, FrameShape
  <1>3. wire' \in Seq(Bytes)
    BY <1>2, ConcatProperties DEF Send, StreamTypeOK
  <1>4. requests' \in Seq(0..MaxPayload) /\ Len(requests') \leq MaxRequests
    BY StreamAssumption, AppendProperties DEF Send, StreamTypeOK
  <1> QED
    BY <1>3, <1>4 DEF Send, StreamTypeOK, FrameKnown, answerVars

LEMMA TypeGatewayTakes ==
    ASSUME StreamTypeOK, FrameKnown, GatewayTakes
    PROVE  StreamTypeOK' /\ FrameKnown'
  <1>1. Head(wire) \in Bytes /\ Tail(wire) \in Seq(Bytes)
    BY HeadTailProperties DEF GatewayTakes, StreamTypeOK
  <1> DEFINE b == Head(wire)
  <1>b. b.len \in Nat /\ b.ident \in Ident
    BY <1>1 DEF Bytes
  <1> HIDE DEF b
  <1>2. /\ need' \in Nat /\ frame' \in Bytes \cup {None}
        /\ taken' \subseteq Ident \X Nat
        /\ lost' \in BOOLEAN
    <2>1. CASE lost'
      <3>1. lost' = TRUE /\ UNCHANGED <<need, frame, taken>>
        BY <2>1 DEF GatewayTakes
      <3> QED
        BY <3>1 DEF StreamTypeOK
    <2>2. CASE ~lost'
      <3>1. /\ need' = IF need = 0 THEN b.len ELSE need - 1
            /\ frame' = IF need = 0 THEN b ELSE frame
            /\ taken' = IF need' = 0 THEN taken \cup {<<frame'.ident, frame'.len>>} ELSE taken
            /\ lost' = FALSE
        BY <2>2 DEF GatewayTakes, b
      <3>2. need' \in Nat
        BY <3>1, <1>b DEF StreamTypeOK
      <3>3. frame' \in Bytes
        BY <3>1, <1>1 DEF StreamTypeOK, FrameKnown, b
      <3>4. frame'.ident \in Ident /\ frame'.len \in Nat
        BY <3>3 DEF Bytes
      <3>5. taken' \subseteq Ident \X Nat
        <4>1. taken' = taken \/ taken' = taken \cup {<<frame'.ident, frame'.len>>}
          BY <3>1
        <4> QED
          BY <3>4, <4>1 DEF StreamTypeOK
      <3> QED
        BY <3>1, <3>2, <3>3, <3>5
    <2> QED
      BY <2>1, <2>2
  <1>3. FrameKnown'
    <2>1. CASE lost'
      BY <2>1 DEF GatewayTakes, FrameKnown
    <2>2. CASE ~lost'
      <3>1. /\ need' = IF need = 0 THEN b.len ELSE need - 1
            /\ frame' = IF need = 0 THEN b ELSE frame
        BY <2>2 DEF GatewayTakes, b
      <3> QED
        BY <3>1, <1>1 DEF FrameKnown, b
    <2> QED
      BY <2>1, <2>2
  <1>4. UNCHANGED <<requests, named, arrived, response, misread, breaks>> /\ wire' = Tail(wire)
    BY DEF GatewayTakes, answerVars
  <1> QED
    BY <1>1, <1>2, <1>3, <1>4 DEF StreamTypeOK

LEMMA TypeTransfer ==
    ASSUME StreamTypeOK, FrameKnown, Transfer
    PROVE  StreamTypeOK' /\ FrameKnown'
  <1>1. named \in Ident /\ arrived + 1 \in 1..AnswerBytes
    BY DEF Transfer, StreamTypeOK, AnswerBytes
  <1>2. Answer(named, arrived + 1) \in Ident \X (1..AnswerBytes)
    BY <1>1 DEF Answer
  <1>3. response' \in Seq(Ident \X (1..AnswerBytes))
    BY <1>2, AppendProperties DEF Transfer, StreamTypeOK
  <1>4. arrived' \in 0..AnswerBytes
    BY <1>1 DEF Transfer, AnswerBytes
  <1> QED
    BY <1>3, <1>4 DEF Transfer, StreamTypeOK, FrameKnown, sendVars

LEMMA TypeReconnect ==
    ASSUME StreamTypeOK, Reconnect, misread' \in BOOLEAN, breaks' \in Nat,
           response' \in Seq(Ident \X (1..AnswerBytes))
    PROVE  StreamTypeOK' /\ FrameKnown'
  <1>1. wire' \in Seq(Bytes) /\ 0 \in 0..AnswerBytes
    BY EmptySeq DEF Reconnect, AnswerBytes
  <1>2. requests' \in Seq(0..MaxPayload) /\ Len(requests') \leq MaxRequests
    BY DEF Reconnect, StreamTypeOK
  <1> QED
    BY <1>1, <1>2 DEF Reconnect, StreamTypeOK, FrameKnown

LEMMA TypeStep ==
    ASSUME StreamTypeOK, FrameKnown, [StreamNext]_streamVars
    PROVE  StreamTypeOK' /\ FrameKnown'
  <1>1. CASE \E size \in 0..MaxPayload : Send(size)
    BY <1>1, TypeSend
  <1>2. CASE GatewayTakes
    BY <1>2, TypeGatewayTakes
  <1>3. CASE GatewayAnswers
    <2>1. frame \in Bytes /\ frame.ident \in Ident
      BY <1>3 DEF GatewayAnswers, StreamTypeOK, Bytes
    <2> QED
      BY <1>3, <2>1 DEF GatewayAnswers, StreamTypeOK, FrameKnown, sendVars
  <1>4. CASE Transfer
    BY <1>4, TypeTransfer
  <1>5. CASE HandleAnswer
    <2>1. SubSeq(response, AnswerBytes + 1, Len(response)) \in Seq(Ident \X (1..AnswerBytes))
      BY SubSeqProperties, ElementOfSeq, LenProperties DEF StreamTypeOK, AnswerBytes
    <2>2. misread' \in BOOLEAN /\ breaks' \in Nat
      BY <1>5 DEF HandleAnswer, StreamTypeOK
    <2> QED
      BY <1>5, <2>1, <2>2, TypeReconnect DEF HandleAnswer
  <1>6. CASE Break
    <2>1. misread' \in BOOLEAN /\ breaks' \in Nat
      BY <1>6 DEF Break, StreamTypeOK
    <2>2. response' \in Seq(Ident \X (1..AnswerBytes))
      BY <1>6 DEF Break, StreamTypeOK
    <2> QED
      BY <1>6, <2>1, <2>2, TypeReconnect DEF Break
  <1>7. CASE UNCHANGED streamVars
    BY <1>7 DEF streamVars, sendVars, answerVars, StreamTypeOK, FrameKnown
  <1> QED
    BY <1>1, <1>2, <1>3, <1>4, <1>5, <1>6, <1>7 DEF StreamNext

\* The state of the stream has the types of the code's: identities that were
\* given out, bytes of frames and of answers.
THEOREM StreamTypeCorrect == StreamSpec => []StreamTypeOK
  <1>1. StreamInit => StreamTypeOK /\ FrameKnown
    BY TypeInit
  <1>2. (StreamTypeOK /\ FrameKnown) /\ [StreamNext]_streamVars => (StreamTypeOK /\ FrameKnown)'
    BY TypeStep
  <1> QED
    BY <1>1, <1>2, PTL DEF StreamSpec

-----------------------------------------------------------------------------
\* Frames.

LEMMA ByteLen ==
    ASSUME NEW w \in Seq(Bytes), NEW k \in DOMAIN w
    PROVE  w[k].len \in Nat
  <1>1. w[k] \in Bytes
    BY LenProperties, ElementOfSeq
  <1> QED
    BY <1>1 DEF Bytes

\* After position k of w come n units, and then a head or the end.
Block(w, k, n) ==
    /\ k + n \leq Len(w)
    /\ \A j \in (k + 1)..(k + n) : w[j].part = "unit"
    /\ k + n = Len(w) \/ w[k + n + 1].part = "head"

LEMMA BlockTail ==
    ASSUME NEW w \in Seq(Bytes), w # <<>>, NEW k \in Nat, NEW n \in Nat, Block(w, k + 1, n)
    PROVE  Block(Tail(w), k, n)
  <1> DEFINE len == Len(w)
  <1>1. /\ len \in Nat
        /\ Len(Tail(w)) = len - 1
        /\ \A j \in 1..(len - 1) : Tail(w)[j] = w[j + 1]
    BY HeadTailProperties, LenProperties
  <1>2. /\ k + 1 + n <= len
        /\ \A j \in (k + 1 + 1)..(k + 1 + n) : w[j].part = "unit"
        /\ k + 1 + n = len \/ w[k + 1 + n + 1].part = "head"
    BY DEF Block
  <1> HIDE DEF len
  <1>3. ASSUME NEW j \in (k + 1)..(k + n)
        PROVE  Tail(w)[j].part = "unit"
    <2>1. j + 1 \in (k + 1 + 1)..(k + 1 + n) /\ j \in 1..(len - 1)
      BY <1>1, <1>2
    <2> QED
      BY <1>1, <1>2, <2>1
  <1>4. k + n = len - 1 \/ Tail(w)[k + n + 1].part = "head"
    <2>1. CASE k + 1 + n = len
      BY <1>1, <2>1
    <2>2. CASE k + 1 + n # len
      <3>1. w[k + 1 + n + 1].part = "head" /\ k + 1 + n + 1 = (k + n + 1) + 1
        BY <1>2, <2>2
      <3>2. k + n + 1 \in 1..(len - 1)
        BY <1>1, <1>2, <2>2
      <3> QED
        BY <1>1, <3>1, <3>2
    <2> QED
      BY <2>1, <2>2
  <1>5. k + n <= len - 1
    BY <1>1, <1>2
  <1> QED
    BY <1>1, <1>3, <1>4, <1>5 DEF Block

\* One unit less.
LEMMA BlockDrop ==
    ASSUME NEW w \in Seq(Bytes), NEW n \in Nat, n # 0, Block(w, 0, n)
    PROVE  w # <<>> /\ Block(Tail(w), 0, n - 1)
  <1>1. Len(w) \in Nat /\ w # <<>>
    BY LenProperties, EmptySeq DEF Block
  <1>2. n - 1 \in Nat /\ 0 + 1 + (n - 1) = n
    OBVIOUS
  <1>3. Block(w, 0 + 1, n - 1)
    BY <1>1, <1>2 DEF Block
  <1> QED
    BY <1>1, <1>2, <1>3, BlockTail

\* What follows a whole frame does not change it.
LEMMA BlockBefore ==
    ASSUME NEW w \in Seq(Bytes), NEW v \in Seq(Bytes), v # <<>>, v[1].part = "head",
           NEW k \in Nat, NEW n \in Nat, Block(w, k, n)
    PROVE  Block(w \o v, k, n)
  <1>1. /\ Len(w) \in Nat /\ Len(v) \in Nat /\ Len(v) # 0
        /\ Len(w \o v) = Len(w) + Len(v)
        /\ \A j \in 1..(Len(w) + Len(v)) : (w \o v)[j] = IF j <= Len(w) THEN w[j] ELSE v[j - Len(w)]
    BY ConcatProperties, LenProperties, EmptySeq
  <1>2. ASSUME NEW j \in (k + 1)..(k + n)
        PROVE  (w \o v)[j].part = "unit"
    <2>1. j \in 1..(Len(w) + Len(v)) /\ j <= Len(w)
      BY <1>1 DEF Block
    <2> QED
      BY <1>1, <2>1 DEF Block
  <1>3. (w \o v)[k + n + 1].part = "head"
    <2>1. k + n + 1 \in 1..(Len(w) + Len(v))
      BY <1>1 DEF Block
    <2>2. CASE k + n = Len(w)
      <3>1. ~(k + n + 1 <= Len(w)) /\ k + n + 1 - Len(w) = 1
        BY <1>1, <2>2
      <3> QED
        BY <1>1, <2>1, <3>1
    <2>3. CASE k + n # Len(w)
      <3>1. k + n + 1 <= Len(w) /\ w[k + n + 1].part = "head"
        BY <1>1, <2>3 DEF Block
      <3> QED
        BY <1>1, <2>1, <3>1
    <2> QED
      BY <2>2, <2>3
  <1>4. k + n \leq Len(w \o v)
    BY <1>1 DEF Block
  <1> QED
    BY <1>2, <1>3, <1>4 DEF Block

\* The frame of a payload whose length fits: a head that says so, its units.
LEMMA FrameFits ==
    ASSUME NEW w \in Seq(Bytes), NEW i \in Ident, NEW size \in Nat, size < LengthModulus
    PROVE  /\ (w \o Frame(i, size))[Len(w) + 1] = FrameHead(i, size)
           /\ Block(w \o Frame(i, size), Len(w) + 1, size)
           /\ \A k \in (Len(w) + 2)..(Len(w) + 1 + size) : (w \o Frame(i, size))[k] = Unit(i)
           /\ Len(w \o Frame(i, size)) = Len(w) + 1 + size
  <1> DEFINE v == Frame(i, size)
  <1>1. size % LengthModulus = size
    BY StreamAssumption
  <1>2. /\ v \in Seq(Bytes) /\ Len(v) = size + 1
        /\ v[1] = FrameHead(i, size)
        /\ \A k \in 2..(size + 1) : v[k] = Unit(i)
    BY <1>1, FrameShape
  <1> HIDE DEF v
  <1>3. /\ Len(w) \in Nat
        /\ Len(w \o v) = Len(w) + 1 + size
        /\ \A j \in 1..(Len(w) + 1 + size) : (w \o v)[j] = IF j <= Len(w) THEN w[j] ELSE v[j - Len(w)]
    <2>1. Len(w) \in Nat /\ Len(w) + Len(v) = Len(w) + 1 + size
      BY <1>2, LenProperties
    <2> QED
      BY <1>2, <2>1, ConcatProperties
  <1>4. (w \o v)[Len(w) + 1] = FrameHead(i, size)
    <2>1. Len(w) + 1 \in 1..(Len(w) + 1 + size) /\ ~(Len(w) + 1 <= Len(w)) /\ Len(w) + 1 - Len(w) = 1
      BY <1>3
    <2> QED
      BY <1>2, <1>3, <2>1
  <1>5. ASSUME NEW k \in (Len(w) + 2)..(Len(w) + 1 + size)
        PROVE  (w \o v)[k] = Unit(i)
    <2>1. k \in 1..(Len(w) + 1 + size) /\ ~(k <= Len(w)) /\ k - Len(w) \in 2..(size + 1)
      BY <1>3
    <2> QED
      BY <1>2, <1>3, <2>1
  <1>6. Block(w \o v, Len(w) + 1, size)
    <2>1. ASSUME NEW j \in (Len(w) + 1 + 1)..(Len(w) + 1 + size)
          PROVE  (w \o v)[j].part = "unit"
      <3>1. j \in (Len(w) + 2)..(Len(w) + 1 + size)
        BY <1>3
      <3>2. (w \o v)[j] = Unit(i)
        BY <1>5, <3>1
      <3> QED
        BY <3>2 DEF Unit
    <2>2. Len(w) + 1 + size \leq Len(w \o v) /\ Len(w) + 1 + size = Len(w \o v)
      BY <1>3
    <2> QED
      BY <2>1, <2>2 DEF Block
  <1> QED
    BY <1>3, <1>4, <1>5, <1>6 DEF v

\* A request that was framed, with the size it was framed with.
Framed(rs, i, n) == i \in DOMAIN rs /\ rs[i] = n

Fits == \A i \in DOMAIN requests : requests[i] < LengthModulus

\* What stands on the wire while all payloads fit: the rest of the frame the
\* gateway is in, and then whole frames.
WholeFrames ==
    /\ ~lost
    /\ Block(wire, 0, need)
    /\ \A k \in DOMAIN wire : wire[k].part = "head" =>
          /\ Framed(requests, wire[k].ident, wire[k].len)
          /\ Block(wire, k, wire[k].len)
    /\ need # 0 => Framed(requests, frame.ident, frame.len)
    /\ \A t \in taken : Framed(requests, t[1], t[2])

FrameInv == Fits => WholeFrames

LEMMA FrameInit == StreamInit => FrameInv
  <1> SUFFICES ASSUME StreamInit
               PROVE  WholeFrames
    BY DEF FrameInv
  <1>1. Len(wire) = 0 /\ DOMAIN wire = {} /\ need = 0 /\ taken = {} /\ ~lost /\ frame = None
    BY EmptySeq DEF StreamInit
  <1>2. Block(wire, 0, need)
    BY <1>1 DEF Block
  <1> QED
    BY <1>1, <1>2 DEF WholeFrames

LEMMA FrameSend ==
    ASSUME StreamTypeOK, FrameInv, NEW size \in 0..MaxPayload, Send(size)
    PROVE  FrameInv'
  <1> SUFFICES ASSUME Fits'
               PROVE  WholeFrames'
    BY DEF FrameInv
  <1> DEFINE i == Len(requests) + 1
  <1>1. /\ i \in Ident /\ size \in Nat /\ Len(requests) \in Nat
        /\ wire \in Seq(Bytes)
        /\ wire' = wire \o Frame(i, size)
        /\ UNCHANGED <<need, frame, taken, lost>>
    BY StreamAssumption DEF Send, Ident, StreamTypeOK
  <1>2. /\ DOMAIN requests = 1..Len(requests)
        /\ DOMAIN requests' = 1..i
        /\ \A j \in 1..Len(requests) : requests'[j] = requests[j]
        /\ requests'[i] = size
    BY AppendProperties, LenProperties DEF Send, StreamTypeOK
  <1>3. Framed(requests', i, size) /\ \A j, n : Framed(requests, j, n) => Framed(requests', j, n)
    <2>1. \A j \in 1..Len(requests) : j \in 1..i
      BY <1>1
    <2>2. i \in 1..i
      BY <1>1
    <2> QED
      BY <1>2, <2>1, <2>2 DEF Framed
  <1>4. size < LengthModulus /\ Fits
    <2>1. i \in DOMAIN requests' /\ \A j \in 1..Len(requests) : j \in DOMAIN requests'
      BY <1>1, <1>2
    <2> QED
      BY <1>2, <2>1 DEF Fits
  <1>5. WholeFrames
    BY <1>4 DEF FrameInv
  <1>6. /\ wire'[Len(wire) + 1] = FrameHead(i, size)
        /\ Block(wire', Len(wire) + 1, size)
        /\ \A k \in (Len(wire) + 2)..(Len(wire) + 1 + size) : wire'[k] = Unit(i)
        /\ Len(wire') = Len(wire) + 1 + size
    BY <1>1, <1>4, FrameFits
  <1>7. /\ Frame(i, size) \in Seq(Bytes) /\ Frame(i, size) # <<>>
        /\ Frame(i, size)[1].part = "head"
    <2>1. /\ Frame(i, size) \in Seq(Bytes)
          /\ Len(Frame(i, size)) = size + 1
          /\ Frame(i, size)[1] = FrameHead(i, size % LengthModulus)
      BY <1>1, FrameShape
    <2>2. Frame(i, size) # <<>>
      BY <1>1, <2>1, EmptySeq
    <2> QED
      BY <2>1, <2>2 DEF FrameHead
  <1>8. /\ Len(wire) \in Nat /\ DOMAIN wire = 1..Len(wire)
        /\ wire' \in Seq(Bytes) /\ DOMAIN wire' = 1..Len(wire')
        /\ \A k \in 1..Len(wire) : wire'[k] = wire[k]
    BY <1>1, <1>6, <1>7, ConcatProperties, LenProperties
  <1> HIDE DEF i
  <1>9. \A k, n \in Nat : Block(wire, k, n) => Block(wire', k, n)
    BY <1>1, <1>7, BlockBefore
  <1>10. Block(wire', 0, need')
    BY <1>1, <1>5, <1>9 DEF WholeFrames, StreamTypeOK
  <1>11. ASSUME NEW k \in DOMAIN wire', wire'[k].part = "head"
         PROVE  Framed(requests', wire'[k].ident, wire'[k].len) /\ Block(wire', k, wire'[k].len)
    <2>1. CASE k \in 1..Len(wire)
      <3>1. wire'[k] = wire[k] /\ k \in DOMAIN wire /\ k \in Nat
        BY <1>8, <2>1
      <3>2. wire[k].len \in Nat
        BY <3>1, <1>1, ByteLen
      <3>3. Framed(requests, wire[k].ident, wire[k].len) /\ Block(wire, k, wire[k].len)
        BY <1>5, <1>11, <3>1 DEF WholeFrames
      <3> QED
        BY <1>3, <1>9, <3>1, <3>2, <3>3
    <2>2. CASE k = Len(wire) + 1
      BY <1>3, <1>6, <2>2 DEF FrameHead
    <2>3. CASE k \in (Len(wire) + 2)..(Len(wire) + 1 + size)
      BY <1>6, <1>11, <2>3 DEF Unit
    <2> QED
      BY <1>1, <1>6, <1>8, <2>1, <2>2, <2>3
  <1> QED
    BY <1>1, <1>3, <1>5, <1>10, <1>11 DEF WholeFrames

LEMMA FrameTakes ==
    ASSUME StreamTypeOK, FrameInv, GatewayTakes
    PROVE  FrameInv'
  <1> SUFFICES ASSUME Fits'
               PROVE  WholeFrames'
    BY DEF FrameInv
  <1> DEFINE b == Head(wire)
  <1>1. /\ wire \in Seq(Bytes) /\ wire # <<>> /\ wire' = Tail(wire) /\ UNCHANGED requests
        /\ need \in Nat
    BY DEF GatewayTakes, StreamTypeOK
  <1>2. WholeFrames
    BY <1>1 DEF Fits, FrameInv
  <1>3. /\ b = wire[1] /\ b \in Bytes /\ b.len \in Nat /\ 1 \in DOMAIN wire /\ Len(wire) \in Nat
        /\ DOMAIN wire = 1..Len(wire) /\ Len(wire) # 0
    <2>1. Len(wire) \in Nat /\ DOMAIN wire = 1..Len(wire) /\ Len(wire) # 0
      BY <1>1, LenProperties, EmptySeq
    <2>2. b = wire[1] /\ b \in Bytes
      BY <1>1, HeadTailProperties
    <2>3. 1 \in DOMAIN wire
      BY <2>1
    <2> QED
      BY <1>1, <2>1, <2>2, <2>3, ByteLen
  <1>4. /\ wire' \in Seq(Bytes) /\ DOMAIN wire' = 1..(Len(wire) - 1)
        /\ \A k \in 1..(Len(wire) - 1) : wire'[k] = wire[k + 1]
    BY <1>1, HeadTailProperties, LenProperties
  <1> DEFINE seen == IF need = 0 THEN b ELSE frame
             left == IF need = 0 THEN b.len ELSE need - 1
  <1>5. requests' = requests
    BY <1>1 DEF Framed
  <1>6. /\ ~(need = 0 /\ b.part = "unit")
        /\ Block(wire', 0, left)
        /\ Framed(requests, seen.ident, seen.len)
    <2>1. CASE need = 0
      <3>1. b.part = "head"
        BY <1>2, <1>3, <2>1 DEF WholeFrames, Block
      <3>2. Framed(requests, b.ident, b.len) /\ Block(wire, 0 + 1, b.len)
        BY <1>2, <1>3, <3>1 DEF WholeFrames
      <3>3. Block(wire', 0, b.len)
        BY <1>1, <1>3, <3>2, BlockTail
      <3> QED
        BY <1>3, <2>1, <3>1, <3>2, <3>3
    <2>2. CASE need # 0
      <3>1. Framed(requests, frame.ident, frame.len)
        BY <1>2, <2>2 DEF WholeFrames
      <3>2. Block(wire', 0, need - 1)
        BY <1>1, <1>2, <2>2, BlockDrop DEF WholeFrames
      <3> QED
        BY <2>2, <3>1, <3>2
    <2> QED
      BY <2>1, <2>2
  <1>7. /\ ~lost'
        /\ need' = left
        /\ frame' = seen
        /\ taken' = IF need' = 0 THEN taken \cup {<<seen.ident, seen.len>>} ELSE taken
    BY <1>6 DEF GatewayTakes
  <1> HIDE DEF b, seen, left
  <1>8. ASSUME NEW k \in DOMAIN wire', wire'[k].part = "head"
        PROVE  Framed(requests, wire'[k].ident, wire'[k].len) /\ Block(wire', k, wire'[k].len)
    <2>1. /\ wire'[k] = wire[k + 1] /\ k + 1 \in DOMAIN wire /\ k \in Nat
          /\ wire[k + 1].len \in Nat
      <3>1. wire'[k] = wire[k + 1] /\ k + 1 \in DOMAIN wire /\ k \in Nat
        BY <1>3, <1>4
      <3> QED
        BY <1>1, <3>1, ByteLen
    <2>2. Framed(requests, wire[k + 1].ident, wire[k + 1].len) /\ Block(wire, k + 1, wire[k + 1].len)
      BY <1>2, <1>8, <2>1 DEF WholeFrames
    <2> QED
      BY <1>1, <2>1, <2>2, BlockTail
  <1>9. ASSUME NEW t \in taken'
        PROVE  Framed(requests, t[1], t[2])
    BY <1>2, <1>6, <1>7, <1>9 DEF WholeFrames
  <1> QED
    BY <1>5, <1>6, <1>7, <1>8, <1>9 DEF WholeFrames

LEMMA FrameReconnect ==
    ASSUME FrameInv, Reconnect
    PROVE  FrameInv'
  <1> SUFFICES ASSUME Fits'
               PROVE  WholeFrames'
    BY DEF FrameInv
  <1>1. WholeFrames
    BY DEF Fits, FrameInv, Reconnect
  <1>2. Len(wire') = 0 /\ DOMAIN wire' = {} /\ need' = 0 /\ frame' = None
    BY EmptySeq DEF Reconnect
  <1>3. Block(wire', 0, need')
    BY <1>2 DEF Block
  <1>4. requests' = requests
    BY DEF Framed, Reconnect
  <1> QED
    BY <1>1, <1>2, <1>3, <1>4 DEF WholeFrames, Reconnect

LEMMA FrameStep ==
    ASSUME StreamTypeOK, FrameInv, [StreamNext]_streamVars
    PROVE  FrameInv'
  <1>1. CASE UNCHANGED sendVars
    BY <1>1 DEF sendVars, FrameInv, Fits, WholeFrames, Framed
  <1>2. CASE \E size \in 0..MaxPayload : Send(size)
    BY <1>2, FrameSend
  <1>3. CASE GatewayTakes
    BY <1>3, FrameTakes
  <1>4. CASE GatewayAnswers \/ Transfer \/ UNCHANGED streamVars
    BY <1>1, <1>4 DEF GatewayAnswers, Transfer, streamVars
  <1>5. CASE HandleAnswer \/ Break
    BY <1>5, FrameReconnect DEF HandleAnswer, Break
  <1> QED
    BY <1>2, <1>3, <1>4, <1>5 DEF StreamNext

\* As long as every payload is shorter than what the length can say, the
\* gateway finds each frame where the last ended and takes what was sent.
THEOREM FramesAlwaysInStep == StreamSpec => []FramesInStep
  <1>1. StreamInit => StreamTypeOK /\ FrameKnown /\ FrameInv
    BY TypeInit, FrameInit
  <1>2. (StreamTypeOK /\ FrameKnown /\ FrameInv) /\ [StreamNext]_streamVars
            => (StreamTypeOK /\ FrameKnown /\ FrameInv)'
    BY TypeStep, FrameStep
  <1>3. FrameInv => FramesInStep
    BY DEF FrameInv, FramesInStep, Fits, WholeFrames, Framed
  <1> QED
    BY <1>1, <1>2, <1>3, PTL DEF StreamSpec
=============================================================================
