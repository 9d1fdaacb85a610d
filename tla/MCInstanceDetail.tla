-------------------------- MODULE MCInstanceDetail --------------------------
(* Instances of InstanceDetail for TLC. *)
EXTENDS InstanceDetail

=============================================================================
