\* Android build.  The process exits after JNI_OnUnload, or without it;
\* the exit is final.
CONSTANTS
    RecIds <- ProbeRecIds
    Sizes = {1}
    ThreadIds <- ProbeThreadIds
    Pids = {1}
    Android = TRUE
    MaxSize = 2
    Empty = Empty
    NoVal = NoVal
    MaxCapacity = 8
SPECIFICATION Spec
INVARIANT FreedExactlyOnce
CHECK_DEADLOCK FALSE
