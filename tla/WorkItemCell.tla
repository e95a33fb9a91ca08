---------------------------- MODULE WorkItemCell ----------------------------
(***************************************************************************)
(* The executor of px4-workqueue: WorkItemCell (cell.rs), the waker of its *)
(* tasks (waker.rs) and the work queues that run them (ffi.rs).            *)
(*                                                                         *)
(* A cell is two atomics, the state bits and the work-item handle, and a   *)
(* slot that holds the future.  Threads call try_spawn and wake; a work    *)
(* queue is one thread that takes a work item from its FIFO and runs       *)
(* poll_once on the item's cell.  While it polls, the future's own code    *)
(* may call try_spawn and wake too, so a queue is also a caller.           *)
(*                                                                         *)
(* One action is one access to memory another thread can see.  Every such  *)
(* access in the code is an acquire, a release or both on one atomic, and  *)
(* the slot is only handed over through them, so interleaving the accesses *)
(* covers what the memory model allows.                                    *)
(***************************************************************************)
EXTENDS Naturals, Sequences

CONSTANTS
    Cells,          \* the static WorkItemCells
    Threads,        \* threads that are not work queues
    Queues,         \* PX4 work queues; the host mock has exactly one
    QueueOf,        \* QueueOf[c]: the queue that c's work item is bound to
    Dedup,          \* TRUE: the queue refuses an item it already holds
    MaxSpawns       \* bound: MaxSpawns[<<p, c>>] calls of try_spawn by p for c

Callers == Threads \union Queues

ASSUME ConstantsAssumption ==
    /\ Threads \intersect Queues = {}
    /\ QueueOf \in [Cells -> Queues]
    /\ Dedup \in BOOLEAN
    /\ MaxSpawns \in [Callers \X Cells -> Nat]

ASSUME CellsAssumption == Cells # {}

SPAWNED    == "SPAWNED"
RUN_QUEUED == "RUN_QUEUED"
Bits       == {SPAWNED, RUN_QUEUED}

VARIABLES
    state,      \* state[c]: the bits set in TaskStateBits.state
    handle,     \* handle[c]: TaskStateBits.handle is non-null
    future,     \* future[c]: what the future slot holds
    queue,      \* queue[q]: the FIFO of scheduled work items
    pc,         \* pc[p]: where caller p is inside try_spawn or wake
    arg,        \* arg[p]: the cell p's call is about
    run,        \* run[q]: where queue q's thread is inside poll_once
    item,       \* item[q]: the cell q runs
    wakerOut,   \* wakerOut[c]: a poll has handed out wakers of c
    spawns      \* spawns[<<p, c>>]: calls of try_spawn left, see MaxSpawns

cellVars   == <<state, handle, future>>
callVars   == <<pc, arg>>
runVars    == <<run, item, wakerOut>>
vars       == <<state, handle, future, queue, pc, arg, run, item, wakerOut, spawns>>

-----------------------------------------------------------------------------

\* The labels of try_spawn, of wake, of the wi_schedule_now they share, and
\* of poll_once.
SpawnLabels == {"write", "handle", "alloc", "undo_drop", "undo_store"}
CallLabels  == {"idle", "wake_handle", "schedule"} \union SpawnLabels
RunLabels   == {"recv", "clear", "poll", "drop", "store"}
Slot        == {"uninit", "live", "dropped"}

\* The bits of the state word, the handle, the future's slot and the queues.
TypeOK ==
    /\ state \in [Cells -> SUBSET Bits]
    /\ handle \in [Cells -> BOOLEAN]
    /\ future \in [Cells -> Slot]
    /\ queue \in [Queues -> Seq(Cells)]
    /\ pc \in [Callers -> CallLabels]
    /\ arg \in [Callers -> Cells]
    /\ run \in [Queues -> RunLabels]
    /\ item \in [Queues -> Cells]
    /\ wakerOut \in [Cells -> BOOLEAN]
    /\ spawns \in [Callers \X Cells -> Nat]

Init ==
    /\ state = [c \in Cells |-> {}]
    /\ handle = [c \in Cells |-> FALSE]
    /\ future = [c \in Cells |-> "uninit"]
    /\ queue = [q \in Queues |-> <<>>]
    /\ pc = [p \in Callers |-> "idle"]
    /\ arg = [p \in Callers |-> CHOOSE c \in Cells : TRUE]
    /\ run = [q \in Queues |-> "recv"]
    /\ item = [q \in Queues |-> CHOOSE c \in Cells : TRUE]
    /\ wakerOut = [c \in Cells |-> FALSE]
    /\ spawns = MaxSpawns

\* A thread may call at any time, a queue only from inside a poll.
MayCall(p) ==
    /\ pc[p] = "idle"
    /\ p \in Queues => run[p] = "poll"

Goto(p, label) == pc' = [pc EXCEPT ![p] = label]

-----------------------------------------------------------------------------
(* try_spawn *)

\* compare_exchange(0, SPAWNED | RUN_QUEUED) succeeds.
SpawnClaim(p, c) ==
    /\ MayCall(p)
    /\ spawns[<<p, c>>] > 0
    /\ state[c] = {}
    /\ state' = [state EXCEPT ![c] = {SPAWNED, RUN_QUEUED}]
    /\ spawns' = [spawns EXCEPT ![<<p, c>>] = @ - 1]
    /\ arg' = [arg EXCEPT ![p] = c]
    /\ Goto(p, "write")
    /\ UNCHANGED <<handle, future, queue, runVars>>

\* It fails: Err(SpawnError::Busy).
SpawnBusy(p, c) ==
    /\ MayCall(p)
    /\ spawns[<<p, c>>] > 0
    /\ state[c] # {}
    /\ spawns' = [spawns EXCEPT ![<<p, c>>] = @ - 1]
    /\ UNCHANGED <<cellVars, queue, callVars, runVars>>

\* The future is moved into the slot; what was there is not dropped.
SpawnWrite(p) ==
    /\ pc[p] = "write"
    /\ future' = [future EXCEPT ![arg[p]] = "live"]
    /\ Goto(p, "handle")
    /\ UNCHANGED <<state, handle, queue, arg, runVars, spawns>>

\* Only the first spawn finds no handle.
SpawnLoadHandle(p) ==
    /\ pc[p] = "handle"
    /\ Goto(p, IF handle[arg[p]] THEN "schedule" ELSE "alloc")
    /\ UNCHANGED <<cellVars, queue, arg, runVars, spawns>>

\* wi_new returned an item; only the store of the handle is visible.
SpawnAlloc(p) ==
    /\ pc[p] = "alloc"
    /\ handle' = [handle EXCEPT ![arg[p]] = TRUE]
    /\ Goto(p, "schedule")
    /\ UNCHANGED <<state, future, queue, arg, runVars, spawns>>

\* wi_new returned null: drop the future, then state.store(0), AllocFailed.
SpawnAllocFails(p) ==
    /\ pc[p] = "alloc"
    /\ Goto(p, "undo_drop")
    /\ UNCHANGED <<cellVars, queue, arg, runVars, spawns>>

SpawnUndoDrop(p) ==
    /\ pc[p] = "undo_drop"
    /\ future' = [future EXCEPT ![arg[p]] = "dropped"]
    /\ Goto(p, "undo_store")
    /\ UNCHANGED <<state, handle, queue, arg, runVars, spawns>>

SpawnUndoStore(p) ==
    /\ pc[p] = "undo_store"
    /\ state' = [state EXCEPT ![arg[p]] = {}]
    /\ Goto(p, "idle")
    /\ UNCHANGED <<handle, future, queue, arg, runVars, spawns>>

-----------------------------------------------------------------------------
(* waker_wake and waker_wake_by_ref *)

\* Seeded fault: fetch_add instead of fetch_or; the carry leaves the two bits.
WakeAddsBit(p, c) ==
    /\ MayCall(p)
    /\ wakerOut[c]
    /\ state' = [state EXCEPT ![c] =
           IF RUN_QUEUED \in @ THEN (@ \ {RUN_QUEUED}) \union {"carry"} ELSE @ \union {RUN_QUEUED}]
    /\ UNCHANGED <<handle, future, queue, callVars, runVars, spawns>>

\* fetch_or(RUN_QUEUED): the bit is set whatever the state was, the item is
\* scheduled only if the task is live and was not queued.
WakeSetBit(p, c) ==
    /\ MayCall(p)
    /\ wakerOut[c]
    /\ state' = [state EXCEPT ![c] = @ \union {RUN_QUEUED}]
    /\ IF SPAWNED \in state[c] /\ RUN_QUEUED \notin state[c]
       THEN /\ arg' = [arg EXCEPT ![p] = c]
            /\ Goto(p, "wake_handle")
       ELSE UNCHANGED callVars
    /\ UNCHANGED <<handle, future, queue, runVars, spawns>>

\* A null handle ends the wake without scheduling anything.
WakeLoadHandle(p) ==
    /\ pc[p] = "wake_handle"
    /\ Goto(p, IF handle[arg[p]] THEN "schedule" ELSE "idle")
    /\ UNCHANGED <<cellVars, queue, arg, runVars, spawns>>

-----------------------------------------------------------------------------
(* The work queue *)

\* Is work item c in the FIFO of its queue?
Scheduled(c) == \E i \in 1..Len(queue[QueueOf[c]]) : queue[QueueOf[c]][i] = c

\* Seeded fault: an item that is being run is not queued again.
ScheduleUnlessRunning(p) ==
    /\ pc[p] = "schedule"
    /\ queue' = IF \E q \in Queues : run[q] # "recv" /\ item[q] = arg[p]
                THEN queue
                ELSE [queue EXCEPT ![QueueOf[arg[p]]] = Append(@, arg[p])]
    /\ Goto(p, "idle")
    /\ UNCHANGED <<cellVars, arg, runVars, spawns>>

\* Seeded fault: the newest item is run first.
ScheduleNowFirst(p) ==
    /\ pc[p] = "schedule"
    /\ queue' = IF Dedup /\ Scheduled(arg[p])
                THEN queue
                ELSE [queue EXCEPT ![QueueOf[arg[p]]] = <<arg[p]>> \o @]
    /\ Goto(p, "idle")
    /\ UNCHANGED <<cellVars, arg, runVars, spawns>>

\* wi_schedule_now.  The mock's mpsc channel takes every item; PX4's
\* intrusive queue ignores one that it already holds.
ScheduleNow(p) ==
    /\ pc[p] = "schedule"
    /\ queue' = IF Dedup /\ Scheduled(arg[p])
                THEN queue
                ELSE [queue EXCEPT ![QueueOf[arg[p]]] = Append(@, arg[p])]
    /\ Goto(p, "idle")
    /\ UNCHANGED <<cellVars, arg, runVars, spawns>>

\* The queue's thread takes the oldest item and enters run_trampoline.
RunRecv(q) ==
    /\ run[q] = "recv"
    /\ queue[q] # <<>>
    /\ item' = [item EXCEPT ![q] = Head(queue[q])]
    /\ queue' = [queue EXCEPT ![q] = Tail(@)]
    /\ run' = [run EXCEPT ![q] = "clear"]
    /\ UNCHANGED <<cellVars, callVars, wakerOut, spawns>>

\* Seeded fault: a stale run is not told from a real one.
RunClearBitAlwaysPolls(q) ==
    /\ run[q] = "clear"
    /\ state' = [state EXCEPT ![item[q]] = @ \ {RUN_QUEUED}]
    /\ run' = [run EXCEPT ![q] = "poll"]
    /\ wakerOut' = [wakerOut EXCEPT ![item[q]] = TRUE]
    /\ UNCHANGED <<handle, future, queue, callVars, item, spawns>>

\* poll_once: fetch_and(!RUN_QUEUED), and return if no task is live.
RunClearBit(q) ==
    /\ run[q] = "clear"
    /\ state' = [state EXCEPT ![item[q]] = @ \ {RUN_QUEUED}]
    /\ IF SPAWNED \in state[item[q]]
       THEN /\ run' = [run EXCEPT ![q] = "poll"]
            /\ wakerOut' = [wakerOut EXCEPT ![item[q]] = TRUE]
       ELSE /\ run' = [run EXCEPT ![q] = "recv"]
            /\ UNCHANGED wakerOut
    /\ UNCHANGED <<handle, future, queue, callVars, item, spawns>>

\* Seeded fault: RUN_QUEUED is cleared after the poll as well.
RunPollPendingClears(q) ==
    /\ run[q] = "poll"
    /\ pc[q] = "idle"
    /\ state' = [state EXCEPT ![item[q]] = @ \ {RUN_QUEUED}]
    /\ run' = [run EXCEPT ![q] = "recv"]
    /\ UNCHANGED <<handle, future, queue, callVars, item, wakerOut, spawns>>

\* The future's poll returned; what it returns is the future's business.
RunPollPending(q) ==
    /\ run[q] = "poll"
    /\ pc[q] = "idle"
    /\ run' = [run EXCEPT ![q] = "recv"]
    /\ UNCHANGED <<cellVars, queue, callVars, item, wakerOut, spawns>>

\* Seeded fault: the resolved future is not dropped.
RunPollReadyForgets(q) ==
    /\ run[q] = "poll"
    /\ pc[q] = "idle"
    /\ run' = [run EXCEPT ![q] = "store"]
    /\ UNCHANGED <<cellVars, queue, callVars, item, wakerOut, spawns>>

RunPollReady(q) ==
    /\ run[q] = "poll"
    /\ pc[q] = "idle"
    /\ run' = [run EXCEPT ![q] = "drop"]
    /\ UNCHANGED <<cellVars, queue, callVars, item, wakerOut, spawns>>

RunDropFuture(q) ==
    /\ run[q] = "drop"
    /\ future' = [future EXCEPT ![item[q]] = "dropped"]
    /\ run' = [run EXCEPT ![q] = "store"]
    /\ UNCHANGED <<state, handle, queue, callVars, item, wakerOut, spawns>>

\* Seeded fault: the handle is given up with the task.
RunStoreZeroAndHandle(q) ==
    /\ run[q] = "store"
    /\ state' = [state EXCEPT ![item[q]] = {}]
    /\ handle' = [handle EXCEPT ![item[q]] = FALSE]
    /\ run' = [run EXCEPT ![q] = "recv"]
    /\ UNCHANGED <<future, queue, callVars, item, wakerOut, spawns>>

\* state.store(0) also erases a RUN_QUEUED set since the poll began.
RunStoreZero(q) ==
    /\ run[q] = "store"
    /\ state' = [state EXCEPT ![item[q]] = {}]
    /\ run' = [run EXCEPT ![q] = "recv"]
    /\ UNCHANGED <<handle, future, queue, callVars, item, wakerOut, spawns>>

-----------------------------------------------------------------------------

Call(p) == \E c \in Cells : SpawnClaim(p, c) \/ SpawnBusy(p, c) \/ WakeSetBit(p, c)

\* The rest of a call once it has begun.
Continue(p) ==
    \/ SpawnWrite(p) \/ SpawnLoadHandle(p) \/ SpawnAlloc(p) \/ SpawnAllocFails(p)
    \/ SpawnUndoDrop(p) \/ SpawnUndoStore(p)
    \/ WakeLoadHandle(p) \/ ScheduleNow(p)

Run(q) ==
    \/ RunRecv(q) \/ RunClearBit(q) \/ RunPollPending(q) \/ RunPollReady(q)
    \/ RunDropFuture(q) \/ RunStoreZero(q)

Next ==
    \/ \E p \in Callers : Call(p) \/ Continue(p)
    \/ \E q \in Queues : Run(q)

Spec == Init /\ [][Next]_vars

\* Threads are scheduled and queues run while they hold items.  A poll returns
\* however often it calls wake, hence the strong fairness.  Nobody is obliged
\* to call.
Fairness ==
    /\ \A p \in Callers : WF_vars(Continue(p))
    /\ \A q \in Queues : WF_vars(Run(q))
    /\ \A q \in Queues : SF_vars(RunPollPending(q) \/ RunPollReady(q))

FairSpec == Spec /\ Fairness

-----------------------------------------------------------------------------
(* Properties *)

\* Somebody is on the way to running c's poll, or to undoing its spawn.
Committed(c) ==
    \/ Scheduled(c)
    \/ \E q \in Queues : run[q] = "clear" /\ item[q] = c
    \/ \E p \in Callers : pc[p] # "idle" /\ arg[p] = c

\* No wake is lost.  Every wake that finds RUN_QUEUED set schedules nothing
\* (waker.rs:34) because whoever set the bit will have the task run: while a
\* live cell has the bit, the item is in the FIFO, or its queue is about to
\* clear the bit, or some caller is still between setting it and scheduling.
NoLostWake == \A c \in Cells : Bits \subseteq state[c] => Committed(c)

\* A wake that has to schedule always finds the handle: the silent null check
\* of waker.rs:36, which would leave RUN_QUEUED set with nothing queued, never
\* triggers although a spawn publishes SPAWNED before it stores the handle.
WakeFindsHandle == \A p \in Callers : pc[p] = "wake_handle" => handle[arg[p]]

\* poll_once only polls an initialised future (the SAFETY comment at
\* cell.rs:172).
PollsLiveFuture == \A q \in Queues : run[q] \in {"poll", "drop"} => future[item[q]] = "live"

\* A future never outlives its task unseen: the slot holds a live future only
\* while SPAWNED is set, so try_spawn never overwrites one without dropping it
\* (the SAFETY comment at cell.rs:96).
NoFutureLeaked == \A c \in Cells : future[c] = "live" => SPAWNED \in state[c]

\* The executor keeps the promise of Task: one task and one poll at a time per
\* cell, tasks end only by Ready or a failed spawn, and every spawn and every
\* wake of a live task is followed by a poll.
Abstract == INSTANCE Task WITH
    live <- [c \in Cells |-> SPAWNED \in state[c]],
    owed <- [c \in Cells |-> Bits \subseteq state[c]],
    polling <- [c \in Cells |->
        \E q \in Queues : run[q] \in {"poll", "drop", "store"} /\ item[q] = c]

ImplementsTask == Abstract!Spec

\* SpawnError::Busy promises "Respawn will succeed after its future resolves"
\* (cell.rs:229): a cell without a task is eventually free to be claimed.
RespawnSucceeds ==
    \A c \in Cells : SPAWNED \notin state[c] ~> (state[c] = {} \/ SPAWNED \in state[c])
=============================================================================
