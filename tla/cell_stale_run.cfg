SPECIFICATION FairSpec
CONSTANTS
    c1 = c1  c2 = c2  t1 = t1  t2 = t2  q1 = q1  q2 = q2
    Cells <- OneCell
    Threads <- OneThread
    Queues <- OneQueue
    QueueOf <- OnOneQueue
    Dedup = FALSE
    MaxSpawns <- ThreadSpawns
INVARIANT PollsLiveFuture
CHECK_DEADLOCK FALSE
