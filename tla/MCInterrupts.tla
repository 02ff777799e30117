---------------------------- MODULE MCInterrupts ----------------------------
(* Small instances of Interrupts for TLC. *)
EXTENDS Interrupts

=============================================================================
