-------------------------------- MODULE MCGcm --------------------------------
(***************************************************************************)
(* GcmConnection for TLC: connections and jobs are interchangeable.        *)
(***************************************************************************)
EXTENDS GcmProperties

Symmetry == Permutations(Conn) \cup Permutations(Job)
=============================================================================
