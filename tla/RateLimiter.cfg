\* Two threads, nine calls, two requests a window, and time for hits to age out
\* twice: the bound is reached.
CONSTANTS
    t1 = t1  t2 = t2
    Threads <- TwoThreads
    MaxRequests = 2
    WindowSeconds = 1
    MaxClock = 4
    MaxCalls = 9
SYMMETRY AnyThread
SPECIFICATION Spec
INVARIANTS
    OvershootBounded
    RefusalJustified
CHECK_DEADLOCK FALSE
