SPECIFICATION Spec
CONSTANTS
    p1 = p1  p2 = p2
    Threads <- TwoThreads
    Sub = Sub  None = None
    UnadvertiseRaces = TRUE
    MaxCalls = 3
INVARIANT PublishHasHandle
CHECK_DEADLOCK FALSE
