----------------------------- MODULE MCConfigAPI -----------------------------
(* Instances of ConfigAPI for TLC. *)
EXTENDS ConfigAPI, TLC

Symmetry == Permutations(Workers) \cup Permutations(Fields)

=============================================================================
