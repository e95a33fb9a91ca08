----------------------------- MODULE AtomicWaker -----------------------------
(***************************************************************************)
(* The one-slot, lock-free waker store of atomic_waker.rs.                 *)
(*                                                                         *)
(* `state` is two bits; whoever moves it away from WAITING owns the slot.  *)
(* One action is one access to `state` or to the slot, so two owners of    *)
(* the slot would be seen.  A thread that ends up with a waker to call is  *)
(* at label "invoke"; Invoke is the call, and the modules that use an      *)
(* AtomicWaker conjoin it with the wake of the task.                       *)
(***************************************************************************)
CONSTANTS
    Procs,      \* the threads that call register, wake and take
    Wakers,     \* the wakers that are registered, one per task
    None        \* Option::None

ASSUME NoneAssumption == None \notin Wakers

REGISTERING == "REGISTERING"
WAKING      == "WAKING"
WAITING     == {}                \* no bit set

VARIABLES
    state,      \* AtomicWaker.state, as the set of its bits
    slot,       \* AtomicWaker.waker
    pc,         \* pc[p]: where p is inside register or wake
    held        \* held[p]: the waker p registers, or has taken

vars == <<state, slot, pc, held>>

RegisterLabels == {"store", "release", "drain", "unlock"}
TakeLabels     == {"take", "clear"}
Labels         == {"idle", "invoke"} \union RegisterLabels \union TakeLabels

\* The two bits of the state word, the waker in the slot and the one each
\* thread has taken out of it.
TypeOK ==
    /\ state \in SUBSET {REGISTERING, WAKING}
    /\ slot \in Wakers \union {None}
    /\ pc \in [Procs -> Labels]
    /\ held \in [Procs -> Wakers \union {None}]

Init ==
    /\ state = WAITING
    /\ slot = None
    /\ pc = [p \in Procs |-> "idle"]
    /\ held = [p \in Procs |-> None]

Goto(p, label) == pc' = [pc EXCEPT ![p] = label]
Hold(p, w)     == held' = [held EXCEPT ![p] = w]

-----------------------------------------------------------------------------
(* register *)

\* Seeded fault: fetch_or(REGISTERING), which succeeds during a wake.
RegisterClaimAnyway(p, w) ==
    /\ pc[p] = "idle"
    /\ REGISTERING \notin state
    /\ state' = state \union {REGISTERING}
    /\ Hold(p, w)
    /\ Goto(p, "store")
    /\ UNCHANGED slot

\* compare_exchange(WAITING, REGISTERING) succeeds: the slot is ours.
RegisterClaim(p, w) ==
    /\ pc[p] = "idle"
    /\ state = WAITING
    /\ state' = {REGISTERING}
    /\ Hold(p, w)
    /\ Goto(p, "store")
    /\ UNCHANGED slot

\* Seeded fault: the registration is given up and the waker not called.
RegisterDuringWakeSilent(p, w) ==
    /\ pc[p] = "idle"
    /\ state = {WAKING}
    /\ UNCHANGED vars

\* It fails with WAKING: a wake is in flight, so call the waker at once.
RegisterDuringWake(p, w) ==
    /\ pc[p] = "idle"
    /\ state = {WAKING}
    /\ Hold(p, w)
    /\ Goto(p, "invoke")
    /\ UNCHANGED <<state, slot>>

\* It fails with REGISTERING set: another registration owns the slot, and
\* this one is given up.
RegisterRaced(p, w) ==
    /\ pc[p] = "idle"
    /\ REGISTERING \in state
    /\ UNCHANGED vars

RegisterStore(p) ==
    /\ pc[p] = "store"
    /\ slot' = held[p]
    /\ Goto(p, "release")
    /\ UNCHANGED <<state, held>>

\* Seeded fault: store(WAITING), which erases a WAKING set meanwhile.
RegisterReleaseStores(p) ==
    /\ pc[p] = "release"
    /\ state' = WAITING
    /\ Hold(p, None)
    /\ Goto(p, "idle")
    /\ UNCHANGED slot

\* compare_exchange(REGISTERING, WAITING); it fails if a wake set WAKING.
RegisterRelease(p) ==
    /\ pc[p] = "release"
    /\ \/ /\ state = {REGISTERING}
          /\ state' = WAITING
          /\ Hold(p, None)
          /\ Goto(p, "idle")
       \/ /\ state # {REGISTERING}
          /\ Goto(p, "drain")
          /\ UNCHANGED <<state, held>>
    /\ UNCHANGED slot

RegisterDrain(p) ==
    /\ pc[p] = "drain"
    /\ Hold(p, slot)
    /\ slot' = None
    /\ Goto(p, "unlock")
    /\ UNCHANGED state

\* Seeded fault: fetch_and(!REGISTERING), which leaves WAKING set.
RegisterUnlockOwnBit(p) ==
    /\ pc[p] = "unlock"
    /\ state' = state \ {REGISTERING}
    /\ Goto(p, IF held[p] # None THEN "invoke" ELSE "idle")
    /\ UNCHANGED <<slot, held>>

\* swap(WAITING), then call the waker that was drained.
RegisterUnlock(p) ==
    /\ pc[p] = "unlock"
    /\ state' = WAITING
    /\ Goto(p, IF held[p] # None THEN "invoke" ELSE "idle")
    /\ UNCHANGED <<slot, held>>

-----------------------------------------------------------------------------
(* wake, which is take and a call of what it returns *)

\* Seeded fault: fetch_add(WAKING), which carries when two wakes meet.
WakeBeginAdds(p) ==
    /\ pc[p] = "idle"
    /\ state' = IF WAKING \in state THEN (state \ {WAKING}) \union {"carry"}
                ELSE state \union {WAKING}
    /\ Goto(p, IF state = WAITING THEN "take" ELSE "idle")
    /\ UNCHANGED <<slot, held>>

\* fetch_or(WAKING): only from WAITING does it give the slot.
WakeBegin(p) ==
    /\ pc[p] = "idle"
    /\ state' = state \union {WAKING}
    /\ Goto(p, IF state = WAITING THEN "take" ELSE "idle")
    /\ UNCHANGED <<slot, held>>

WakeTake(p) ==
    /\ pc[p] = "take"
    /\ Hold(p, slot)
    /\ slot' = None
    /\ Goto(p, "clear")
    /\ UNCHANGED state

\* fetch_and(!WAKING)
WakeClear(p) ==
    /\ pc[p] = "clear"
    /\ state' = state \ {WAKING}
    /\ Goto(p, IF held[p] # None THEN "invoke" ELSE "idle")
    /\ UNCHANGED <<slot, held>>

Invoke(p) ==
    /\ pc[p] = "invoke"
    /\ Hold(p, None)
    /\ Goto(p, "idle")
    /\ UNCHANGED <<state, slot>>

-----------------------------------------------------------------------------

Register(p, w) == RegisterClaim(p, w) \/ RegisterDuringWake(p, w) \/ RegisterRaced(p, w)

\* The rest of a call but for Invoke.
Continue(p) ==
    \/ RegisterStore(p) \/ RegisterRelease(p) \/ RegisterDrain(p) \/ RegisterUnlock(p)
    \/ WakeTake(p) \/ WakeClear(p)

Next ==
    \E p \in Procs :
        \/ \E w \in Wakers : Register(p, w)
        \/ WakeBegin(p)
        \/ Continue(p)
        \/ Invoke(p)

Spec == Init /\ [][Next]_vars

\* A call that has begun is scheduled until it returns.
FairSpec == Spec /\ \A p \in Procs : WF_vars(Continue(p) \/ Invoke(p))

-----------------------------------------------------------------------------
(* Properties *)

\* The slot, an UnsafeCell, is never accessed by two threads at once (the
\* SAFETY comments at atomic_waker.rs:39, 67, 83 and 116).
TouchesSlot(p) == pc[p] \in {"store", "drain", "take"}
SlotExclusive == \A p, q \in Procs : TouchesSlot(p) /\ TouchesSlot(q) => p = q

\* A bit never outlives the call that set it: once nobody is inside register
\* or take the store is WAITING again, so a later register is stored and a
\* later wake finds it.
IdleIsWaiting == (\A p \in Procs : pc[p] \in {"idle", "invoke"}) => state = WAITING

\* A wake that lands in the middle of a registration, and itself returns
\* nothing (atomic_waker.rs:122), is honoured by the registering thread: the
\* waker that is being registered is called.
WakeHonoured ==
    \A p \in Procs, w \in Wakers :
        (pc[p] \in RegisterLabels /\ held[p] = w /\ WAKING \in state)
            ~> (pc[p] = "invoke" /\ held[p] = w)
=============================================================================
