SPECIFICATION FairSpec
CONSTANTS
    Sleeper = Sleeper  Hrt = Hrt  None = None
    Hosts = {"interrupt", "thread"}
    MayDrop = {"interrupt"}
    LongDelays = TRUE
    MaxSleeps = 3
INVARIANTS TypeOK NeverEarly CalloutInLifetime
PROPERTY Completes
CHECK_DEADLOCK FALSE
