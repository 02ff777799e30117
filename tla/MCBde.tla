------------------------------- MODULE MCBde --------------------------------
(* Two processes with a switch each; the second switch is plugged in later.*)
(* A run follows either the interrupts, with KNET and the SDK as callers   *)
(* and no process that attaches, or the processes, with the SDK as caller  *)
(* and INTx.                                                               *)
EXTENDS Bde

VARIABLE focus

MCInstances == {{0}, {1}}
MCDmaSize == [inst \in Instances |-> IF 0 \in inst THEN 1 ELSE 2]

MCInit ==
    /\ Init
    /\ \/ focus = "interrupts" /\ _dma_pool.total_size = 2
       \/ focus = "instances" /\ use_msi = "INTX"

MCNext ==
    /\ Next
    /\ focus = "interrupts" => UNCHANGED app
    /\ focus = "instances" => call'["knet"] = call["knet"]
    /\ UNCHANGED focus

MCSpec == MCInit /\ [][MCNext]_<<vars, focus>>

=============================================================================
