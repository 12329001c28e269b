-------------------------- MODULE ServiceProperties --------------------------
(***************************************************************************)
(* What the lives of providers, pools and feedback readers promise, and    *)
(* what the repository says of them that the code does not keep.           *)
(***************************************************************************)
EXTENDS Service

\* The registry holds exactly the providers whose base class is alive: no
\* pointer to a destroyed provider stays, a provider that failed to register
\* does not unregister the one it met, and one that fails later in its
\* constructor leaves nothing behind.
RegistryTells ==
    \A p \in Provider :
        providers[KeyOf[p]] = p <=> life[p] \notin {"new", "gone"}

\* A constructor that throws after its pool's threads run leaves nothing that
\* could use what is destroyed then: no start that waits for the client's
\* io_service, no connection that connects or restarts.
FailedConstructorLeavesNothing ==
    \A u \in misuse : constructed[u[2]]

\* What a pool's thread does with a destroyed ssl_ctx_ it does before the pool
\* is stopped: no handler of a connection that restarts begins between stop
\* and the end of the join, nor after it.
StopEndsRestarts ==
    [][\A o \in Obj :
          <<"restart", o>> \in misuse' \ misuse => life[o] = "ctx_gone"]_vars

\* Every destructor ends: the threads it joins do end.
DestructionEnds ==
    \A o \in Obj : life[o] = "ctx_gone" ~> life[o] = "gone"

\* A connection that has lost its socket is established again, unless its
\* pool is stopped or its object destroyed.
ConnectionComesBack ==
    \A c \in Conn : op[c] \in {"connect", "handshake", "restart"} ~>
        (op[c] \in {"read", "over"} \/ stopped[c] \/ CtxGone(Owner(c)))

-----------------------------------------------------------------------------
\* Said in the repository, and violated.

\* apns_connection.hpp 77-79: "We just must be sure that the ssl context is
\* never destroyed before this instance": no connection that its pool still
\* runs makes its socket with a destroyed ssl_ctx_.
ContextOutlivesConnections ==
    \A o \in Obj : <<"restart", o>> \notin misuse

\* Packets of the feed that have arrived whole.
ArrivedWhole(c) == {k \in 1..MaxPackets : <<k, 2>> \in ToSet(response[c])}

\* apns_feedback_connection.cpp 36: "transfer and parse packet": when the
\* client is told that the stream is over it has been told every packet.
FeedToldBeforeShutdown ==
    \A c \in Feed \X Slot :
        <<"shutdown", 0>> \in ToSet(told[c]) =>
            \A k \in ArrivedWhole(c) : <<"token", k>> \in ToSet(told[c])
=============================================================================
