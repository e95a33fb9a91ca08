------------------------------- MODULE Notify -------------------------------
(***************************************************************************)
(* Notify (notify.rs): a permit and an AtomicWaker.  One task runs         *)
(*     loop { notify.notified().await }                                    *)
(* on its work queue while any number of threads call notify().  The task  *)
(* is executed as Task promises, so it may also be polled for reasons of   *)
(* its own; Notified has no state, so a Notified that is dropped and       *)
(* rebuilt between two polls is the same as one that is polled again.      *)
(***************************************************************************)
EXTENDS Naturals

CONSTANTS
    Waiter,         \* the waiting task; also its waker and its thread
    Notifiers,      \* the threads that call notify()
    None,
    MaxNotifies     \* bound: calls of notify() in a behaviour

ASSUME NotifyAssumption ==
    /\ Waiter \notin Notifiers
    /\ None # Waiter
    /\ MaxNotifies \in Nat

Procs == Notifiers \union {Waiter}

VARIABLES
    permit,                         \* Notify.permit
    wstate, slot, wpc, held,        \* Notify.waker, see AtomicWaker
    live, owed, polling,            \* the waiting task, see Task
    fpc,                            \* where the task is inside Notified::poll
    npc,                            \* npc[n] = "wake": notify() has stored the permit
    calls,                          \* calls of notify() so far
    completions                     \* awaits that returned so far

wakerVars == <<wstate, slot, wpc, held>>
taskVars  == <<live, owed, polling>>
countVars == <<calls, completions>>
vars == <<permit, wakerVars, taskVars, fpc, npc, countVars>>

W == INSTANCE AtomicWaker WITH Wakers <- {Waiter}, state <- wstate, pc <- wpc
T == INSTANCE Task WITH Cells <- {Waiter}

\* The permit, the waker it wakes, and where the future and each notifier are.
TypeOK ==
    /\ permit \in BOOLEAN
    /\ W!TypeOK
    /\ T!TypeOK
    /\ fpc \in {"parked", "first", "register", "second", "pending"}
    /\ npc \in [Notifiers -> {"idle", "wake"}]
    /\ calls \in 0..MaxNotifies
    /\ completions \in Nat

\* The task has been spawned and awaits its first poll.
Init ==
    /\ permit = FALSE
    /\ W!Init
    /\ live = [c \in {Waiter} |-> TRUE]
    /\ owed = [c \in {Waiter} |-> TRUE]
    /\ polling = [c \in {Waiter} |-> FALSE]
    /\ fpc = "parked"
    /\ npc = [n \in Notifiers |-> "idle"]
    /\ calls = 0
    /\ completions = 0

-----------------------------------------------------------------------------
(* notify() *)

NotifyStore(n) ==
    /\ npc[n] = "idle"
    /\ wpc[n] = "idle"
    /\ calls < MaxNotifies
    /\ permit' = TRUE
    /\ npc' = [npc EXCEPT ![n] = "wake"]
    /\ calls' = calls + 1
    /\ UNCHANGED <<wakerVars, taskVars, fpc, completions>>

NotifyWake(n) ==
    /\ npc[n] = "wake"
    /\ W!WakeBegin(n)
    /\ npc' = [npc EXCEPT ![n] = "idle"]
    /\ UNCHANGED <<permit, taskVars, fpc, countVars>>

-----------------------------------------------------------------------------
(* Notified::poll, in the loop of the waiting task *)

PollBegin ==
    /\ fpc = "parked"
    /\ T!BeginPoll(Waiter)
    /\ fpc' = "first"
    /\ UNCHANGED <<permit, wakerVars, npc, countVars>>

\* Seeded fault: permit.load() where the code swaps.
SwapKeepsPermit(otherwise) ==
    /\ fpc' = IF permit THEN "first" ELSE otherwise
    /\ completions' = IF permit THEN completions + 1 ELSE completions
    /\ UNCHANGED <<permit, wakerVars, taskVars, npc, calls>>

\* permit.swap(false): Ready goes round the loop within the same poll.
Swap(otherwise) ==
    /\ permit' = FALSE
    /\ fpc' = IF permit THEN "first" ELSE otherwise
    /\ completions' = IF permit THEN completions + 1 ELSE completions
    /\ UNCHANGED <<wakerVars, taskVars, npc, calls>>

CheckFirst ==
    /\ fpc = "first"
    /\ Swap("register")

RegisterWaker ==
    /\ fpc = "register"
    /\ W!Register(Waiter, Waiter)
    /\ fpc' = "second"
    /\ UNCHANGED <<permit, taskVars, npc, countVars>>

\* Seeded fault: no second look at the permit after registering.
CheckSecondMissing ==
    /\ fpc = "second"
    /\ wpc[Waiter] = "idle"
    /\ fpc' = "pending"
    /\ UNCHANGED <<permit, wakerVars, taskVars, npc, countVars>>

CheckSecond ==
    /\ fpc = "second"
    /\ wpc[Waiter] = "idle"
    /\ Swap("pending")

PollEnd ==
    /\ fpc = "pending"
    /\ T!PollPending(Waiter)
    /\ fpc' = "parked"
    /\ UNCHANGED <<permit, wakerVars, npc, countVars>>

-----------------------------------------------------------------------------

\* The steps of AtomicWaker between its first and its last.
WakerStep(p) ==
    /\ W!Continue(p)
    /\ UNCHANGED <<permit, taskVars, fpc, npc, countVars>>

\* The waker that was taken is called.
InvokeWaker(p) ==
    /\ W!Invoke(p)
    /\ T!Wake(held[p])
    /\ UNCHANGED <<permit, fpc, npc, countVars>>

\* Somebody else holds a waker of the task and calls it.
OtherWake ==
    /\ T!Wake(Waiter)
    /\ UNCHANGED <<permit, wakerVars, fpc, npc, countVars>>

Poll == PollBegin \/ CheckFirst \/ RegisterWaker \/ CheckSecond \/ PollEnd

Next ==
    \/ \E n \in Notifiers : NotifyStore(n) \/ NotifyWake(n)
    \/ \E p \in Procs : WakerStep(p) \/ InvokeWaker(p)
    \/ Poll
    \/ OtherWake

Spec == Init /\ [][Next]_vars

\* A notify() that began returns, and the executor polls a task it owes a
\* poll; polls nobody asked for need not happen.
Fairness ==
    /\ \A n \in Notifiers : WF_vars(NotifyWake(n))
    /\ \A p \in Procs : WF_vars(WakerStep(p) \/ InvokeWaker(p))
    /\ WF_vars(Poll /\ (fpc = "parked" => owed[Waiter]))

FairSpec == Spec /\ Fairness

-----------------------------------------------------------------------------
(* Properties *)

\* No notification is lost: the task sleeps over a stored permit only while
\* some notify() has not returned yet.  (The re-check of notify.rs:98 closes
\* the window between the first swap and the registration.)
NoLostNotify ==
    permit /\ fpc = "parked" /\ ~owed[Waiter]
        => \E n \in Notifiers : npc[n] = "wake" \/ wpc[n] # "idle"

\* Notifications coalesce and are never invented: every await that returned
\* used up a permit of its own.
NoInventedNotify == completions <= calls

\* A stored permit is consumed: notify() leads to a return of notified().
PermitConsumed == permit ~> ~permit
=============================================================================
