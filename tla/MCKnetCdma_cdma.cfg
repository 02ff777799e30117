\* One channel in Continuous DMA mode: Tx with two chains, or Rx in both
\* interrupt modes.
CONSTANTS
  MAX_TX_DCBS = 3
  Chains = {c1, c2}
  DCB_CNT = 2
  DRAIN_LIMIT = 2
  MAX_TX_RESETS = 1
  MAX_RX_DCBS = 3
  RX_RATE = 30
  RX_BURST = 5
  HZ = 10
  TOKEN_LIMIT = 16
  RxModes <- NapiAndNot
  MAX_NOMEM = 3
SPECIFICATION CdmaSpec
INVARIANTS CdmaTxOnPending CdmaRxOnFilled CdmaRxRate
PROPERTIES CdmaTxServed CdmaRxServed
\* A channel that has nothing to send, or waits for packets, stops.
CHECK_DEADLOCK FALSE
