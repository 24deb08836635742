------------------------------- MODULE MCFlows -------------------------------
(* Instances of Flows for TLC. *)
EXTENDS Flows, TLC

\* Ids are opaque.
Symmetry == Permutations(Projects) \cup Permutations(Threads)
=============================================================================
