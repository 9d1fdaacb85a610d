------------------------------ MODULE MCQRLogin ------------------------------
(* Instances of QRLogin for TLC. *)
EXTENDS QRLogin

=============================================================================
