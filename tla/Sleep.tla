-------------------------------- MODULE Sleep --------------------------------
(***************************************************************************)
(* sleep() (timer.rs) and the high-resolution timer that completes it      *)
(* (hrt.rs).  One task awaits one Sleep after another.  They follow each   *)
(* other at one address, the slot the compiler gave the Sleep in the       *)
(* task's future, so `gen` tells them apart: a timer entry carries only    *)
(* the address.  The task may drop a Sleep before it completes, as         *)
(* select! does.                                                           *)
(*                                                                         *)
(* The HRT runs a callout in one of two ways.  The host mock has a worker  *)
(* thread that unlocks its queue before the callout.  On a flight          *)
(* controller the callout is an interrupt: the task does not run until it  *)
(* has returned.                                                           *)
(***************************************************************************)
EXTENDS Naturals

CONSTANTS
    Sleeper,        \* the sleeping task; also its waker and its thread
    Hrt,            \* the thread, or the interrupt, that runs callouts
    None,
    Hosts,          \* the ways a callout may run, from AllHosts
    MayDrop,        \* the hosts on which a Sleep may be dropped before it completes
    LongDelays,     \* TRUE: no delay is over before the poll that armed it is
    MaxSleeps       \* bound: Sleeps the task creates

AllHosts == {"interrupt", "thread"}

ASSUME SleepAssumption ==
    /\ Sleeper # Hrt
    /\ None # Sleeper
    /\ Hosts \subseteq AllHosts /\ Hosts # {}
    /\ MayDrop \subseteq Hosts
    /\ LongDelays \in BOOLEAN
    /\ MaxSleeps \in Nat \ {0}

Procs == {Sleeper, Hrt}
Gens  == 1..MaxSleeps

VARIABLES
    host,                           \* how callouts run, chosen once
    state,                          \* Sleep.state
    wstate, slot, wpc, held,        \* Sleep.waker, see AtomicWaker
    cancelled,                      \* HrtCall.cancelled
    gen,                            \* the Sleep at the address is the gen-th
    live, owed, polling,            \* the task, see Task
    fpc,                            \* where the task is inside poll or drop
    heap,                           \* the timer queue: the Sleeps with an entry
    expired,                        \* the Sleeps whose deadline has passed
    hpc, hgen,                      \* where the HRT is, and for which Sleep
    completed                       \* the Sleeps whose poll returned Ready

wakerVars == <<wstate, slot, wpc, held>>
taskVars  == <<live, owed, polling>>
hrtVars   == <<hpc, hgen>>
vars == <<host, state, wakerVars, cancelled, gen, taskVars, fpc, heap, expired, hrtVars, completed>>

W == INSTANCE AtomicWaker WITH Wakers <- {Sleeper}, state <- wstate, pc <- wpc
T == INSTANCE Task WITH Cells <- {Sleeper}

\* state is one of timer.rs's three values; the HRT holds Sleeps by generation.
TypeOK ==
    /\ host \in Hosts
    /\ state \in {"IDLE", "ARMED", "FIRED"}
    /\ W!TypeOK
    /\ T!TypeOK
    /\ cancelled \in BOOLEAN
    /\ gen \in Gens
    /\ fpc \in {"parked", "load", "register", "call_after", "store_armed", "re_register",
                "re_check", "pending", "drop", "cancel", "evict", "new", "over"}
    /\ heap \subseteq Gens
    /\ expired \subseteq Gens
    /\ hpc \in {"wait", "check", "fire", "wake", "return"}
    /\ hgen \in Gens
    /\ completed \subseteq Gens

\* Sleep::new; the HrtCall is not initialised, `cancelled` keeps its old byte.
NewSleep ==
    /\ state' = "IDLE"
    /\ wstate' = W!WAITING
    /\ slot' = None

Init ==
    /\ host \in Hosts
    /\ state = "IDLE"
    /\ W!Init
    /\ cancelled \in BOOLEAN
    /\ gen = 1
    /\ live = [c \in {Sleeper} |-> TRUE]
    /\ owed = [c \in {Sleeper} |-> TRUE]
    /\ polling = [c \in {Sleeper} |-> FALSE]
    /\ fpc = "parked"
    /\ heap = {} /\ expired = {}
    /\ hpc = "wait" /\ hgen = 1
    /\ completed = {}

\* The address holds a Sleep: between drop and the next new it does not.
Occupied == fpc \notin {"new", "over"}

\* Its HrtCall has been initialised by call_after.
HrtInitialised == Occupied /\ (state # "IDLE" \/ fpc = "store_armed")

-----------------------------------------------------------------------------
(* The task.  An interrupt keeps it from running. *)

MayRun == host = "interrupt" => hpc = "wait"

PollBegin ==
    /\ MayRun
    /\ fpc = "parked"
    /\ T!BeginPoll(Sleeper)
    /\ fpc' = "load"
    /\ UNCHANGED <<state, wakerVars, cancelled, gen, heap, expired, hrtVars, completed>>

\* Seeded fault: ARMED is taken for FIRED.
LoadArmedIsReady ==
    /\ MayRun
    /\ fpc = "load"
    /\ fpc' = IF state = "IDLE" THEN "register" ELSE "drop"
    /\ completed' = IF state = "IDLE" THEN completed ELSE completed \union {gen}
    /\ UNCHANGED <<state, wakerVars, cancelled, gen, taskVars, heap, expired, hrtVars>>

\* Sleep::poll reads its state; FIRED is Ready, and the await drops the Sleep.
Load ==
    /\ MayRun
    /\ fpc = "load"
    /\ fpc' = CASE state = "FIRED" -> "drop"
                [] state = "ARMED" -> "re_register"
                [] state = "IDLE"  -> "register"
    /\ completed' = IF state = "FIRED" THEN completed \union {gen} ELSE completed
    /\ UNCHANGED <<state, wakerVars, cancelled, gen, taskVars, heap, expired, hrtVars>>

\* Another branch of the task's select! won.
DropEarly ==
    /\ MayRun
    /\ host \in MayDrop
    /\ fpc = "load"
    /\ fpc' = "drop"
    /\ UNCHANGED <<state, wakerVars, cancelled, gen, taskVars, heap, expired, hrtVars, completed>>

\* The register of the first poll, and of a later one.
Register ==
    /\ MayRun
    /\ fpc \in {"register", "re_register"}
    /\ W!Register(Sleeper, Sleeper)
    /\ fpc' = IF fpc = "register" THEN "call_after" ELSE "re_check"
    /\ UNCHANGED <<state, cancelled, gen, taskVars, heap, expired, hrtVars, completed>>

\* hrt::call_after: clear the flag, push the entry.
CallAfter ==
    /\ MayRun
    /\ fpc = "call_after"
    /\ wpc[Sleeper] = "idle"
    /\ cancelled' = FALSE
    /\ heap' = heap \union {gen}
    /\ fpc' = "store_armed"
    /\ UNCHANGED <<state, wakerVars, gen, taskVars, expired, hrtVars, completed>>

StoreArmed ==
    /\ MayRun
    /\ fpc = "store_armed"
    /\ state' = "ARMED"
    /\ fpc' = "pending"
    /\ UNCHANGED <<wakerVars, cancelled, gen, taskVars, heap, expired, hrtVars, completed>>

\* Seeded fault: Pending right after registering, without a second look.
ReCheckMissing ==
    /\ MayRun
    /\ fpc = "re_check"
    /\ wpc[Sleeper] = "idle"
    /\ fpc' = "pending"
    /\ UNCHANGED <<state, wakerVars, cancelled, gen, taskVars, heap, expired, hrtVars, completed>>

ReCheck ==
    /\ MayRun
    /\ fpc = "re_check"
    /\ wpc[Sleeper] = "idle"
    /\ fpc' = IF state = "FIRED" THEN "drop" ELSE "pending"
    /\ completed' = IF state = "FIRED" THEN completed \union {gen} ELSE completed
    /\ UNCHANGED <<state, wakerVars, cancelled, gen, taskVars, heap, expired, hrtVars>>

PollEnd ==
    /\ MayRun
    /\ fpc = "pending"
    /\ T!PollPending(Sleeper)
    /\ fpc' = "parked"
    /\ UNCHANGED <<state, wakerVars, cancelled, gen, heap, expired, hrtVars, completed>>

\* Seeded fault: no cancel.
DropWithoutCancel ==
    /\ MayRun
    /\ fpc = "drop"
    /\ fpc' = "new"
    /\ UNCHANGED <<state, wakerVars, cancelled, gen, taskVars, heap, expired, hrtVars, completed>>

\* Drop for Sleep: nothing to cancel if the timer was never armed.
Drop ==
    /\ MayRun
    /\ fpc = "drop"
    /\ fpc' = IF state # "IDLE" THEN "cancel" ELSE "new"
    /\ UNCHANGED <<state, wakerVars, cancelled, gen, taskVars, heap, expired, hrtVars, completed>>

\* hrt::cancel: set the flag, then evict every entry with this address.
CancelFlag ==
    /\ MayRun
    /\ fpc = "cancel"
    /\ cancelled' = TRUE
    /\ fpc' = "evict"
    /\ UNCHANGED <<state, wakerVars, gen, taskVars, heap, expired, hrtVars, completed>>

\* Seeded fault: cancel only sets the flag.
CancelKeepsEntry ==
    /\ MayRun
    /\ fpc = "evict"
    /\ fpc' = "new"
    /\ UNCHANGED <<state, wakerVars, cancelled, gen, taskVars, heap, expired, hrtVars, completed>>

CancelEvict ==
    /\ MayRun
    /\ fpc = "evict"
    /\ heap' = {}
    /\ fpc' = "new"
    /\ UNCHANGED <<state, wakerVars, cancelled, gen, taskVars, expired, hrtVars, completed>>

\* The task goes on to its next sleep(), or ends.
NextSleep ==
    /\ MayRun
    /\ fpc = "new"
    /\ \/ /\ gen < MaxSleeps
          /\ NewSleep
          /\ gen' = gen + 1
          /\ fpc' = "load"
          /\ UNCHANGED <<wpc, held, taskVars>>
       \/ /\ gen = MaxSleeps
          /\ T!PollReady(Sleeper)
          /\ fpc' = "over"
          /\ UNCHANGED <<state, wakerVars, gen>>
    /\ UNCHANGED <<cancelled, heap, expired, hrtVars, completed>>

-----------------------------------------------------------------------------
(* The HRT: run_worker and sleep_callout *)

\* A deadline passes.
Expire(g) ==
    /\ g \in heap \ expired
    /\ LongDelays => fpc \notin {"store_armed", "pending"}
    /\ expired' = expired \union {g}
    /\ UNCHANGED <<state, wakerVars, cancelled, gen, taskVars, fpc, heap, hrtVars, completed>>

\* Pop an expired entry and unlock the queue.
Pop ==
    /\ hpc = "wait"
    /\ \E g \in heap \intersect expired :
        /\ heap' = heap \ {g}
        /\ hgen' = g
    /\ hpc' = "check"
    /\ UNCHANGED <<state, wakerVars, cancelled, gen, taskVars, fpc, expired, completed>>

\* Read `cancelled` through the entry's address.  Where no HrtCall of a live
\* Sleep is, the byte can be anything.
CheckCancelled ==
    /\ hpc = "check"
    /\ \E flag \in IF HrtInitialised THEN {cancelled} ELSE BOOLEAN :
          hpc' = IF flag THEN "wait" ELSE "fire"
    /\ UNCHANGED <<state, wakerVars, cancelled, gen, taskVars, fpc, heap, expired, hgen, completed>>

\* Seeded fault: fetch_or(FIRED) on an ARMED state, which is neither.
FireOrs ==
    /\ hpc = "fire"
    /\ state' = IF state = "ARMED" THEN "ARMED|FIRED" ELSE "FIRED"
    /\ hpc' = "wake"
    /\ UNCHANGED <<wakerVars, cancelled, gen, taskVars, fpc, heap, expired, hgen, completed>>

\* state.store(FIRED) through the same address.
Fire ==
    /\ hpc = "fire"
    /\ state' = IF Occupied THEN "FIRED" ELSE state
    /\ hpc' = "wake"
    /\ UNCHANGED <<wakerVars, cancelled, gen, taskVars, fpc, heap, expired, hgen, completed>>

\* Seeded fault: the callout wakes nobody.
FireWakeMissing ==
    /\ hpc = "wake"
    /\ hpc' = "return"
    /\ UNCHANGED <<state, wakerVars, cancelled, gen, taskVars, fpc, heap, expired, hgen, completed>>

FireWake ==
    /\ hpc = "wake"
    /\ W!WakeBegin(Hrt)
    /\ hpc' = "return"
    /\ UNCHANGED <<state, cancelled, gen, taskVars, fpc, heap, expired, hgen, completed>>

FireReturn ==
    /\ hpc = "return"
    /\ wpc[Hrt] = "idle"
    /\ hpc' = "wait"
    /\ UNCHANGED <<state, wakerVars, cancelled, gen, taskVars, fpc, heap, expired, hgen, completed>>

-----------------------------------------------------------------------------

WakerStep(p) ==
    /\ p = Sleeper => MayRun
    /\ \/ W!Continue(p) /\ UNCHANGED taskVars
       \/ W!Invoke(p) /\ T!Wake(held[p])
    /\ UNCHANGED <<state, cancelled, gen, fpc, heap, expired, hrtVars, completed>>

\* A waker of the task that somebody else holds is called.
OtherWake ==
    /\ MayRun
    /\ T!Wake(Sleeper)
    /\ UNCHANGED <<state, wakerVars, cancelled, gen, fpc, heap, expired, hrtVars, completed>>

TaskStep ==
    \/ PollBegin \/ Load \/ DropEarly \/ Register \/ CallAfter \/ StoreArmed \/ ReCheck
    \/ PollEnd \/ Drop \/ CancelFlag \/ CancelEvict \/ NextSleep

Timer == Pop \/ CheckCancelled \/ Fire \/ FireWake \/ FireReturn

Next ==
    /\ \/ TaskStep
       \/ Timer
       \/ \E g \in Gens : Expire(g)
       \/ \E p \in Procs : WakerStep(p)
       \/ OtherWake
    /\ UNCHANGED host

Spec == Init /\ [][Next]_vars

\* Time passes, the HRT serves expired entries, running code is scheduled, and
\* the executor polls a task it owes a poll.
Fairness ==
    /\ WF_vars(TaskStep /\ UNCHANGED host /\ (fpc = "parked" => owed[Sleeper]))
    /\ WF_vars(Timer /\ UNCHANGED host)
    /\ \A g \in Gens : WF_vars(Expire(g) /\ UNCHANGED host)
    /\ \A p \in Procs : WF_vars(WakerStep(p) /\ UNCHANGED host)

FairSpec == Spec /\ Fairness

-----------------------------------------------------------------------------
(* Properties *)

\* sleep() "completes after `duration` has elapsed" (timer.rs:83): not before,
\* also when an earlier Sleep at the same address was dropped.
NeverEarly == completed \subseteq expired

\* ... and it does complete: once the deadline has passed the task does not
\* stay with that Sleep for ever.
Completes == \A g \in Gens : (g \in expired /\ gen = g) ~> (gen # g \/ fpc = "over")

\* On a flight controller a callout only touches the Sleep it was armed for,
\* and only while that Sleep exists ("the storage outlives any pending
\* callback", hrt.rs:154).
CalloutInLifetime ==
    host = "interrupt" /\ hpc # "wait" /\ ~(hpc = "return" /\ wpc[Hrt] \in {"idle", "invoke"})
        => Occupied /\ gen = hgen
=============================================================================
