---------------------------- MODULE AsyncCondVar ----------------------------
(***************************************************************************)
(* detail/async_condition_variable.hpp: the list of handlers that wait for *)
(* a notification.  A connection has at most two entries in the list: the  *)
(* one its wait_handle_ stands for ("held") and, between async_wait and    *)
(* the assignment of the handle it returned, a newer one ("new").  The     *)
(* roles stand for the 64-bit identities that handle::ident_ compares.     *)
(* A notification posts the handler to the client's io_service, which      *)
(* forwards it to the strand of the connection: wake[c] counts the         *)
(* handlers on that way.                                                   *)
(***************************************************************************)
EXTENDS Naturals, Sequences, FiniteSets, SequencesExt

CONSTANT Conn

VARIABLES waiters,  \* waiters_, oldest first
          wake      \* handlers posted and not run yet, by connection

condVars == <<waiters, wake>>

Waiter == [conn : Conn, role : {"new", "held"}]

CondInit ==
    /\ waiters = <<>>
    /\ wake = [c \in Conn |-> 0]

\* async_wait: register the handler of c.
AsyncWait(c) ==
    /\ waiters' = Append(waiters, [conn |-> c, role |-> "new"])
    /\ UNCHANGED wake

\* The waiters without the one that the handle of c stands for, if a
\* notification has not taken it yet: ~handle and disconnect.
Disconnected(c) ==
    LET held == [conn |-> c, role |-> "held"]
    IN  IF held \in ToSet(waiters)
        THEN RemoveAt(waiters, CHOOSE i \in DOMAIN waiters : waiters[i] = held)
        ELSE waiters

\* The newest waiter of c becomes the one its handle stands for.
Assigned(c, ws) ==
    [i \in DOMAIN ws |->
       IF ws[i].conn = c THEN [ws[i] EXCEPT !.role = "held"] ELSE ws[i]]

\* wait_handle_ = <new handle>, and the old handle is destroyed.
\* Slips: the old handle is leaked; both waiters are disconnected.
AssignLeaking(c) ==
    /\ waiters' = Assigned(c, waiters)
    /\ UNCHANGED wake
AssignDeaf(c) ==
    /\ waiters' = SelectSeq(waiters, LAMBDA w : w.conn # c)
    /\ UNCHANGED wake
AssignHandle(c) ==
    /\ waiters' = Assigned(c, Disconnected(c))
    /\ UNCHANGED wake

\* notify_one: post the handler that has waited longest, if there is one.
NotifyOne ==
    IF waiters = <<>>
    THEN UNCHANGED condVars
    ELSE /\ wake' = [wake EXCEPT ![Head(waiters).conn] = @ + 1]
         /\ waiters' = Tail(waiters)

\* notify_all: post every handler.
NotifyAll ==
    /\ wake' = [c \in Conn |->
                  wake[c] + Cardinality({i \in DOMAIN waiters : waiters[i].conn = c})]
    /\ waiters' = <<>>

\* The handler of c starts to run.  Slip: it runs without a notification.
WokenSpuriously(c) ==
    /\ wake' = [wake EXCEPT ![c] = @ - 1]
    /\ UNCHANGED waiters
Woken(c) ==
    /\ wake[c] > 0
    /\ wake' = [wake EXCEPT ![c] = @ - 1]
    /\ UNCHANGED waiters

CondTypeOK ==
    /\ waiters \in Seq(Waiter)
    /\ wake \in [Conn -> Nat]
=============================================================================
