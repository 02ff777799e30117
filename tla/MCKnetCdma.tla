----------------------------- MODULE MCKnetCdma -----------------------------
(* A channel in Continuous DMA mode, of either direction.  The two share   *)
(* the handler, which serves the Rx channels first; DmaTxLatch has the     *)
(* time in between.                                                        *)
EXTENDS KnetCdmaTx, KnetCdmaRx

VARIABLE dir

NapiAndNot == {[napi |-> TRUE, budget |-> 2], [napi |-> FALSE, budget |-> MAX_RX_DCBS]}

(* The channel that is left out is at rest: a receive channel that had no  *)
(* memory for its first buffer has all its tokens, so it needs no tick.    *)
CdmaInit ==
    /\ CdmaTxInit /\ CdmaRxInit /\ dir \in {"tx", "rx"}
    /\ dir = "tx" => rxh.napi /\ rx.tokens = BURST
CdmaNext ==
    \/ dir = "tx" /\ CdmaTxNext /\ UNCHANGED <<rxvars, dir>>
    \/ dir = "rx" /\ CdmaRxNext /\ UNCHANGED <<txvars, dir>>

CdmaSpec ==
    CdmaInit /\ [][CdmaNext]_<<txvars, rxvars, dir>> /\ CdmaTxFairness /\ CdmaRxFairness
=============================================================================
