----------------------------- MODULE MCDmaPool -----------------------------
(* Six blocks of kernel memory; and pools in high memory: one of six      *)
(* cache lines, at an address and with a size that are no multiples of the *)
(* line, and one of five.                                                  *)
EXTENDS DmaPool

MCRanges == {[addr |-> 3, size |-> 14], [addr |-> 8, size |-> 10]}
MCMemory == {4, 8, 12, 16, 24, 28}

=============================================================================
