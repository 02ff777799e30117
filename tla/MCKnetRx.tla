------------------------------ MODULE MCKnetRx ------------------------------
(* Small instances of KnetRx for TLC. *)
EXTENDS KnetRx

=============================================================================
