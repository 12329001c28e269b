------------------------------ MODULE MCService ------------------------------
(* Two providers that want the same key, for TLC. *)
EXTENDS ServiceProperties

CONSTANTS p1, p2

MCKeyOf == [p \in {p1, p2} |-> "apns"]

TwoConfigs == {[callback |-> TRUE, ca |-> TRUE], [callback |-> FALSE, ca |-> FALSE]}
Plain      == {[callback |-> TRUE, ca |-> FALSE]}
=============================================================================
