----------------------------- MODULE ApnsStream -----------------------------
(***************************************************************************)
(* The bytes between a connection and Apple's gateway: the frames that     *)
(* detail/apns_request.cpp makes of the requests, and the six bytes of an  *)
(* answer, which detail/apns_connection.cpp reads into response_ and       *)
(* detail/apns_response.cpp takes apart.  The gateway is external.         *)
(*                                                                         *)
(* A frame is a head (command, identity, expiry, token and the length of   *)
(* the payload) and as many units as the payload has bytes.                *)
(***************************************************************************)
EXTENDS Integers, Sequences

CONSTANTS
    LengthModulus, \* what the 16 bits of the length hold, 2^16
    MaxPayload,    \* bound on the bytes of a payload
    MaxRequests,   \* bound on the requests
    MaxBreaks,     \* bound on broken connections
    None           \* no identity

AnswerBytes == 6

ASSUME StreamAssumption ==
    /\ LengthModulus \in Nat \ {0}
    /\ {MaxPayload, MaxRequests, MaxBreaks} \subseteq Nat
    /\ None \notin Nat

VARIABLES
    requests,  \* history: the size of each request; an identity is its index
    wire,      \* what was sent on the socket and not taken
    need,      \* units the gateway still takes for the frame it is in
    frame,     \* the head of the frame it took last
    taken,     \* history: the frames it took, <<identity, size>>
    lost,      \* history: it met no head where a frame should begin
    named,     \* the identity its answer names, after which it takes nothing
    arrived,   \* bytes of the answer the pending async_read has transferred
    response,  \* response_
    misread,   \* history: an answer was taken apart elsewhere than at its
               \* command
    breaks     \* connections that can still break

sendVars   == <<requests, wire, need, frame, taken, lost>>
answerVars == <<named, arrived, response, misread>>
streamVars == <<sendVars, answerVars, breaks>>

Ident == 1..MaxRequests
FrameHead(i, len) == [part |-> "head", ident |-> i, len |-> len]
Unit(i)       == [part |-> "unit", ident |-> i, len |-> 0]
Bytes == [part : {"head", "unit"}, ident : Ident, len : Nat]
Answer(i, k) == <<i, k>>   \* byte k of an answer that names i

StreamTypeOK ==
    /\ requests \in Seq(0..MaxPayload) /\ Len(requests) \leq MaxRequests
    /\ wire \in Seq(Bytes)
    /\ need \in Nat
    /\ frame \in Bytes \cup {None}
    /\ taken \subseteq Ident \X Nat
    /\ lost \in BOOLEAN
    /\ named \in Ident \cup {None}
    /\ arrived \in 0..AnswerBytes
    /\ response \in Seq(Ident \X (1..AnswerBytes))
    /\ misread \in BOOLEAN
    /\ breaks \in Nat

StreamInit ==
    /\ requests = <<>>
    /\ wire = <<>>
    /\ need = 0
    /\ frame = None
    /\ taken = {}
    /\ lost = FALSE
    /\ named = None
    /\ arrived = 0
    /\ response = <<>>
    /\ misread = FALSE
    /\ breaks = MaxBreaks

-----------------------------------------------------------------------------
\* apns_request: the length goes through an int16_t.  Slip: so does that of
\* a shorter payload.
FrameByte(i, size) == <<FrameHead(i, size % (LengthModulus \div 2))>> \o [k \in 1..size |-> Unit(i)]
Frame(i, size)     == <<FrameHead(i, size % LengthModulus)>> \o [k \in 1..size |-> Unit(i)]

Send(size) ==
    /\ Len(requests) < MaxRequests
    /\ requests' = Append(requests, size)
    /\ wire' = wire \o Frame(Len(requests) + 1, size)
    /\ UNCHANGED <<need, frame, taken, lost, answerVars, breaks>>

\* The gateway takes a head, or a unit of the frame it is in, and has taken
\* the frame when it needs no more of it.
GatewayTakes ==
    LET b == Head(wire)
    IN  /\ wire # <<>> /\ named = None /\ ~lost
        /\ wire' = Tail(wire)
        /\ lost' = (need = 0 /\ b.part = "unit")
        /\ IF lost' THEN UNCHANGED <<need, frame, taken>>
           ELSE /\ need' = IF need = 0 THEN b.len ELSE need - 1
                /\ frame' = IF need = 0 THEN b ELSE frame
                /\ taken' = IF need' = 0
                            THEN taken \cup {<<frame'.ident, frame'.len>>}
                            ELSE taken
        /\ UNCHANGED <<requests, answerVars, breaks>>

\* The gateway answers: the frame it took last is refused.
GatewayAnswers ==
    /\ named = None
    /\ frame # None /\ need = 0
    /\ named' = frame.ident
    /\ UNCHANGED <<sendVars, arrived, response, misread, breaks>>

-----------------------------------------------------------------------------
\* A new socket, and a gateway that knows nothing of the old.
Reconnect ==
    /\ wire' = <<>>
    /\ need' = 0
    /\ frame' = None
    /\ named' = None
    /\ arrived' = 0
    /\ UNCHANGED <<requests, taken, lost>>

\* A byte of the answer arrives.
Transfer ==
    /\ named # None
    /\ arrived < AnswerBytes
    /\ arrived' = arrived + 1
    /\ response' = Append(response, Answer(named, arrived + 1))
    /\ UNCHANGED <<sendVars, named, misread, breaks>>

\* handle_read_err with an answer, and restart().  apns_response takes the
\* first six bytes of response_ apart, the first as the command.
HandleAnswer ==
    /\ arrived = AnswerBytes
    /\ misread' = (misread \/ Head(response)[2] # 1)
    /\ response' = SubSeq(response, AnswerBytes + 1, Len(response))
    /\ Reconnect
    /\ UNCHANGED breaks

\* handle_read_err with an error: what has arrived of an answer stays.
Break ==
    /\ breaks > 0
    /\ arrived < AnswerBytes
    /\ breaks' = breaks - 1
    /\ Reconnect
    /\ UNCHANGED <<response, misread>>

StreamNext ==
    \/ \E size \in 0..MaxPayload : Send(size)
    \/ GatewayTakes
    \/ GatewayAnswers
    \/ Transfer
    \/ HandleAnswer
    \/ Break

StreamSpec == StreamInit /\ [][StreamNext]_streamVars

-----------------------------------------------------------------------------
\* As long as no payload reaches the length that 16 bits hold, the gateway
\* finds each frame where the last one ended, with the payload it was sent.
FramesInStep ==
    (\A i \in DOMAIN requests : requests[i] < LengthModulus) =>
        /\ ~lost
        /\ \A t \in taken : requests[t[1]] = t[2]

\* apns_response.cpp 30 of the first byte of an answer: "should always be 8".
\* Violated: nothing clears response_, so what had arrived of an answer when a
\* connection broke stands in front of the next one, and all that follow are
\* taken apart at the wrong place.
CommandIsEight == ~misread
=============================================================================
