------------------------------ MODULE MCKnetTx ------------------------------
(* Small instances of KnetTx for TLC. *)
EXTENDS KnetTx, TLC

Symmetry == Permutations(Skbs \ TsSkbs) \cup Permutations(Netifs)

=============================================================================
