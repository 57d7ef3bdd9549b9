CONSTANTS
    o1 = o1
    o2 = o2
    o3 = o3
    d1 = d1
    d2 = d2
    Objects <- ThreeObjects
    TagOf <- SpreadTags
    SizeOf <- SpreadSizes
    RecOf <- SpreadRecs
    Drains <- TwoDrains
    HalfBits = 4
    Jvmti = TRUE
    CanFindReceiver = TRUE
    Empty = Empty
    NoVal = NoVal
    MaxCapacity = 8
SPECIFICATION FairSpec
INVARIANT TypeOK
INVARIANT Conservation
PROPERTY DrainedEventually
PROPERTY CounterRefinement
