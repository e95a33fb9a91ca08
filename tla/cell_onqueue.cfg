SPECIFICATION YieldSpec
CONSTANTS
    c1 = c1  c2 = c2  t1 = t1  t2 = t2  q1 = q1  q2 = q2
    Cells <- TwoCells
    Threads <- TwoThreads
    Queues <- OneQueue
    QueueOf <- OnOneQueue
    Dedup = FALSE
    MaxSpawns <- QueueSpawns
INVARIANTS PollsLiveFuture NoFutureLeaked
PROPERTIES YieldResumes SiblingsRun
CHECK_DEADLOCK FALSE
