CONSTANTS
    t1 = t1
    t2 = t2
    p1 = p1
    p2 = p2
    Threads <- OneThread
    Pids <- TwoPids
    Platform = "win32"
    MaxTicks = 3
    Width = 2
    MaxReuses = 0
SPECIFICATION Spec
INVARIANT LastLoadFinite
