SPECIFICATION FairSpec
CONSTANTS
    Producer = Producer  Consumer = Consumer  Observer = Observer  None = None
    N = 2
    Width = 2
    LenCaller = Producer
    MaxSends = 6
INVARIANTS TypeOK SlotsDisjoint
PROPERTIES ImplementsQueue AllDelivered
CHECK_DEADLOCK FALSE
