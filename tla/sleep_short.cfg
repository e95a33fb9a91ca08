SPECIFICATION FairSpec
CONSTANTS
    Sleeper = Sleeper  Hrt = Hrt  None = None
    Hosts = {"interrupt", "thread"}
    MayDrop = {}
    LongDelays = FALSE
    MaxSleeps = 3
PROPERTY Completes
CHECK_DEADLOCK FALSE
