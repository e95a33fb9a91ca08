SPECIFICATION FairSpec
CONSTANTS
    n1 = n1  n2 = n2  Waiter = Waiter  None = None
    Notifiers <- TwoNotifiers
    MaxNotifies = 4
INVARIANTS TypeOK NoLostNotify NoInventedNotify
PROPERTY PermitConsumed
