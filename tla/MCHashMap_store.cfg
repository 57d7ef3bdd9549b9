\* The store as prevProcInfo and the aggregated unallocation map use it:
\* insert, in-place update and clear, no remove.
CONSTANTS
    Keys <- StoreKeys
    Vals = {1, 2}
    Empty = Empty
    NoVal = NoVal
    MaxCapacity = 16
SPECIFICATION StoreSpec
INVARIANT TypeOK
INVARIANT ProbeTerminates
PROPERTY MapRefinement
