CONSTANTS
    o1 = o1
    o2 = o2
    o3 = o3
    d1 = d1
    d2 = d2
    Objects <- TwoObjects
    TagOf <- ChainTags
    SizeOf <- PairSizes
    RecOf <- PairRecs
    Drains <- OneDrain
    HalfBits = 4
    Jvmti = FALSE
    CanFindReceiver = TRUE
    Empty = Empty
    NoVal = NoVal
    MaxCapacity = 8
SPECIFICATION Spec
INVARIANT Conservation
