------------------------------ MODULE Formats ------------------------------
(***************************************************************************)
(* What goes over the wires, as texts and as frames, side by side: they    *)
(* share nothing, and a behaviour is one of a text or one of a stream.     *)
(***************************************************************************)
EXTENDS JsonText, ApnsStream

formatVars == <<textVars, streamVars>>

NoText == [kind |-> "none"]

TextAtRest ==
    /\ ReaderInit
    /\ doc = NoText /\ opt = [pretty |-> FALSE] /\ rest = <<>>

Init ==
    /\ StreamInit
    /\ TextInit \/ TextAtRest

Next ==
    \/ /\ doc # NoText
       /\ TextNext
       /\ UNCHANGED streamVars
    \/ /\ doc = NoText
       /\ StreamNext
       /\ UNCHANGED textVars

Spec == Init /\ [][Next]_formatVars
=============================================================================
