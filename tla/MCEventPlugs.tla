---------------------------- MODULE MCEventPlugs ----------------------------
(* EventPlugs for TLC: model values for the ids, and their symmetry. *)
EXTENDS EventPlugs, TLC

Symmetry == Permutations(Requests) \cup Permutations(Plugs)

=============================================================================
