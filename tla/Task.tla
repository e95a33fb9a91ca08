-------------------------------- MODULE Task --------------------------------
(***************************************************************************)
(* What a task of px4-workqueue is promised, whatever executes it.  This   *)
(* is the contract of core::future::Future as the crate documents it: a    *)
(* task is spawned at most once at a time, one poll runs at a time, only a *)
(* poll that returns Ready (or a spawn that fails) ends it, and a task     *)
(* that has been spawned or woken is polled again.  Polls nobody asked for *)
(* are allowed.  WorkItemCell implements this module; the modules of the   *)
(* synchronisation primitives build on it.                                 *)
(***************************************************************************)
CONSTANT Cells

VARIABLES
    live,       \* live[c]: a future is running in cell c
    owed,       \* owed[c]: c was spawned or woken and not polled since
    polling     \* polling[c]: a poll of c is in progress

vars == <<live, owed, polling>>

\* A task is live, has a poll owed to it, is being polled, or not.
TypeOK ==
    /\ live \in [Cells -> BOOLEAN]
    /\ owed \in [Cells -> BOOLEAN]
    /\ polling \in [Cells -> BOOLEAN]

Init ==
    /\ live = [c \in Cells |-> FALSE]
    /\ owed = [c \in Cells |-> FALSE]
    /\ polling = [c \in Cells |-> FALSE]

Spawn(c) ==
    /\ ~live[c]
    /\ live' = [live EXCEPT ![c] = TRUE]
    /\ owed' = [owed EXCEPT ![c] = TRUE]
    /\ UNCHANGED polling

\* The work item could not be allocated: the task ends before any poll.
SpawnFails(c) ==
    /\ live[c]
    /\ ~polling[c]
    /\ live' = [live EXCEPT ![c] = FALSE]
    /\ owed' = [owed EXCEPT ![c] = FALSE]
    /\ UNCHANGED polling

\* Wakers outlive their tasks: a wake of a task that is over does nothing.
Wake(c) ==
    /\ owed' = [owed EXCEPT ![c] = live[c]]
    /\ UNCHANGED <<live, polling>>

BeginPoll(c) ==
    /\ live[c]
    /\ ~polling[c]
    /\ owed' = [owed EXCEPT ![c] = FALSE]
    /\ polling' = [polling EXCEPT ![c] = TRUE]
    /\ UNCHANGED live

PollPending(c) ==
    /\ polling[c]
    /\ polling' = [polling EXCEPT ![c] = FALSE]
    /\ UNCHANGED <<live, owed>>

\* A wake that arrived during the last poll is void: the task is over.
PollReady(c) ==
    /\ polling[c]
    /\ live[c]
    /\ live' = [live EXCEPT ![c] = FALSE]
    /\ owed' = [owed EXCEPT ![c] = FALSE]
    /\ polling' = [polling EXCEPT ![c] = FALSE]

Next ==
    \E c \in Cells :
        \/ Spawn(c) \/ SpawnFails(c) \/ Wake(c)
        \/ BeginPoll(c) \/ PollPending(c) \/ PollReady(c)

\* A wake is never forgotten: a task that is owed a poll gets one, or is over.
NoWakeForgotten == \A c \in Cells : owed[c] ~> ~owed[c]

Spec == Init /\ [][Next]_vars /\ NoWakeForgotten
=============================================================================
