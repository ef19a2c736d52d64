---------------------------- MODULE MCPlugMedia ----------------------------
(* PlugMedia for TLC: model values for the ids, and their symmetry. *)
EXTENDS PlugMedia, TLC

Symmetry == Permutations(Requests) \cup Permutations(Files) \cup Permutations(Plugs)

=============================================================================
