-------------------------------- MODULE Yield --------------------------------
(***************************************************************************)
(* yield_now() (yield_.rs) in the tasks of WorkItemCell.  A future may at  *)
(* any point of a poll await a new YieldNow: its first poll sets a flag,   *)
(* wakes the task it is part of and returns Pending, its second, which is  *)
(* the first thing the task's next poll does, is Ready.                    *)
(***************************************************************************)
EXTENDS WorkItemCell

VARIABLE yielded    \* yielded[c]: c's future awaits a YieldNow that has yielded

yieldVars == <<vars, yielded>>

YieldInit == Init /\ yielded = [c \in Cells |-> FALSE]

\* Queue q is in a poll that can only return Pending any more.
Yielding(q) == q \in Queues /\ run[q] = "poll" /\ yielded[item[q]]

-----------------------------------------------------------------------------

\* Seeded fault: Pending is returned without a wake.
YieldPollSilent(q) ==
    /\ run[q] = "poll" /\ MayCall(q)
    /\ ~yielded[item[q]]
    /\ yielded' = [yielded EXCEPT ![item[q]] = TRUE]
    /\ UNCHANGED vars

\* The first poll of a YieldNow: the flag, then wake_by_ref.
YieldPoll(q) ==
    /\ run[q] = "poll" /\ MayCall(q)
    /\ ~yielded[item[q]]
    /\ yielded' = [yielded EXCEPT ![item[q]] = TRUE]
    /\ WakeSetBit(q, item[q])

\* A poll begins; a YieldNow that has yielded is Ready at once.
BeginPoll(q) ==
    /\ RunClearBit(q)
    /\ yielded' = [yielded EXCEPT ![item[q]] = FALSE]

\* A new future has not yielded.
NewFuture(p) ==
    /\ SpawnWrite(p)
    /\ yielded' = [yielded EXCEPT ![arg[p]] = FALSE]

YieldContinue(p) ==
    \/ NewFuture(p)
    \/ Continue(p) /\ pc[p] # "write" /\ UNCHANGED yielded

PollEnds(q) ==
    \/ RunPollPending(q) /\ UNCHANGED yielded
    \/ ~Yielding(q) /\ RunPollReady(q) /\ UNCHANGED yielded

YieldRun(q) ==
    \/ BeginPoll(q) \/ PollEnds(q)
    \/ (RunRecv(q) \/ RunDropFuture(q) \/ RunStoreZero(q)) /\ UNCHANGED yielded

YieldNext ==
    \/ \E p \in Callers : ~Yielding(p) /\ Call(p) /\ UNCHANGED yielded
    \/ \E p \in Callers : YieldContinue(p)
    \/ \E q \in Queues : YieldPoll(q) \/ YieldRun(q)

\* As in WorkItemCell.  Whether a task yields is its own affair.
YieldSpec ==
    /\ YieldInit /\ [][YieldNext]_yieldVars
    /\ \A p \in Callers : WF_yieldVars(YieldContinue(p))
    /\ \A q \in Queues : WF_yieldVars(YieldRun(q)) /\ SF_yieldVars(PollEnds(q))

-----------------------------------------------------------------------------
(* Properties *)

\* A task that yields goes on, though nobody else wakes it.
YieldResumes == \A c \in Cells : yielded[c] ~> ~yielded[c]

\* Tasks that yield for ever do not starve a sibling on their queue ("re-queues
\* the WorkItem behind any sibling work", yield_.rs:24): an item in the FIFO is
\* run.
SiblingsRun == \A c \in Cells : Scheduled(c) ~> \E q \in Queues : run[q] = "clear" /\ item[q] = c
=============================================================================
