-------------------------- MODULE MCInstancesPage --------------------------
(* Instances of InstancesPage for TLC. *)
EXTENDS InstancesPage

=============================================================================
