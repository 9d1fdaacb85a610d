------------------------- MODULE MCInstanceManager -------------------------
(* Instances of InstanceManager for TLC. *)
EXTENDS InstanceManager, TLC

\* Interchangeable: no definition singles out a member of these sets.  Ids are
\* both row ids and LoadAll's goroutines, which the permutations respect.
Symmetry == Permutations(Ids) \cup Permutations(Objs) \cup Permutations(Jids)
              \cup Permutations(Procs)

=============================================================================
