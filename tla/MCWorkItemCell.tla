--------------------------- MODULE MCWorkItemCell ---------------------------
(* Instances of WorkItemCell for TLC. *)
EXTENDS WorkItemCell

CONSTANTS c1, c2, t1, t2, q1, q2

OneCell == {c1}
TwoCells == {c1, c2}
OneThread == {t1}
TwoThreads == {t1, t2}
OneQueue == {q1}
TwoQueues == {q1, q2}

OnOneQueue == [c \in Cells |-> q1]
OnTwoQueues == [c \in Cells |-> IF c = c1 THEN q1 ELSE q2]

\* Anybody spawns anything, once each; t1 may also spawn c1 again.
FreeSpawns ==
    [p \in Callers, c \in Cells |-> IF p = t1 /\ c = c1 THEN 2 ELSE 1]

\* t1 spawns each cell twice.
ThreadSpawns == [p \in Callers, c \in Cells |-> IF p = t1 THEN 2 ELSE 0]

\* t1 starts c1, once; every other spawn is made by a task of the same queue.
QueueSpawns ==
    [p \in Callers, c \in Cells |->
        IF p = q1 THEN 2 ELSE IF p = t1 /\ c = c1 THEN 1 ELSE 0]
=============================================================================
