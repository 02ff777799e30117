\* Three interfaces, two filters, two channels.
CONSTANTS
    Devs = {d1, d2, d3}
    NULL = NULL
    NDEVS_CHUNK = 3
    KCOM_FILTER_MAX = 3
    FilterSpecs <- MCFilterSpecs
    Packets <- MCPackets
    num_rx_prio = 1
    rx_chans = 2
    device_is_dnx = FALSE
    MAX_FAILURES = 1
SYMMETRY Symmetry
SPECIFICATION Spec
INVARIANTS LookupSound DeliveryAlive
PROPERTY FiltersInOrder
