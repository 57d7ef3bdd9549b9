\* One caller reading two adapters, one of which may show a bandwidth of 0.
\* Deadlock is not checked: after done() the library is unloaded.
CHECK_DEADLOCK FALSE
CONSTANTS
    Instances <- TwoInstances
    Bandwidths <- BandwidthValues
    Totals <- TotalValues
    MaxTicks = 2
    MaxComInits = 2
SPECIFICATION Spec
INVARIANT NetBusiest
