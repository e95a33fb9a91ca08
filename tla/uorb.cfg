SPECIFICATION ShimSpec
CONSTANTS
    p1 = p1  p2 = p2
    Threads <- TwoThreads
    Sub = Sub  None = None
    UnadvertiseRaces = FALSE
    MaxCalls = 3
INVARIANTS ShimTypeOK AdvertsBalanced CallbackInLifetime MissedCountBounds NeverStale NoLostSample NeverUndercounts
SYMMETRY ThreadSymmetry
CHECK_DEADLOCK FALSE
