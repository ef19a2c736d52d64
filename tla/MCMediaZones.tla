---------------------------- MODULE MCMediaZones ----------------------------
(* MediaZones for TLC: model values for the ids, and their symmetry. *)
EXTENDS MediaZones, TLC

Symmetry == Permutations(Requests) \cup Permutations(Zones)
                \cup Permutations(Media)

=============================================================================
