----------------------------- MODULE MCTokenCache -----------------------------
(* Instances of TokenCache for TLC. *)
EXTENDS TokenCache

=============================================================================
