SPECIFICATION FairSpec
CONSTANTS
    p1 = p1  p2 = p2  p3 = p3  p4 = p4  w1 = w1  w2 = w2
    None = None
    Procs <- FourProcs
    Wakers <- TwoWakers
INVARIANTS SlotExclusive IdleIsWaiting
PROPERTY WakeHonoured
