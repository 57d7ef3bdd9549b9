\* Any order of metric and process-load calls with failing COM set-up,
\* queries and reads, then JNI_OnUnload; after done() no call comes.
CONSTANTS
    Values <- PropertyValues
    Garbage <- StackValues
    MaxInstances = 2
    Bits <- ScaledBits
    FirstBase = 1
    BaseFactor = 2
    BaseSteps = 3
    Pids = {1}
    Processors = 2
    Loads <- LoadValues
    MaxComInits = 2
SPECIFICATION Spec
INVARIANT TypeOK
INVARIANT AggregateIsReference
INVARIANT MaxNetSpeedCovers
CHECK_DEADLOCK FALSE
