SPECIFICATION FairSpec
CONSTANTS
    c1 = c1  c2 = c2  t1 = t1  t2 = t2  q1 = q1  q2 = q2
    Cells <- TwoCells
    Threads <- OneThread
    Queues <- TwoQueues
    QueueOf <- OnTwoQueues
    Dedup = TRUE
    MaxSpawns <- ThreadSpawns
INVARIANTS TypeOK NoLostWake WakeFindsHandle
PROPERTY ImplementsTask
CHECK_DEADLOCK FALSE
