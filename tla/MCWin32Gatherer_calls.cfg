\* Any order of metric calls, failed reads and ticks, then JNI_OnUnload.
\* After done() the library is unloaded and no call comes: the only stop.
CONSTANTS
    Instances <- TwoInstances
    Bandwidths <- BandwidthValues
    Totals <- TotalValues
    MaxTicks = 2
    MaxComInits = 2
SPECIFICATION Spec
INVARIANT TypeOK
INVARIANT CpuLoadIsPercent
INVARIANT NetFallback
CHECK_DEADLOCK FALSE
