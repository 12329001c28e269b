------------------------------- MODULE MCApns -------------------------------
(***************************************************************************)
(* ApnsConnection for TLC: connections and jobs are interchangeable.       *)
(***************************************************************************)
EXTENDS ApnsProperties

Symmetry == Permutations(Conn) \cup Permutations(Job)
=============================================================================
