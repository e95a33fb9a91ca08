----------------------------- MODULE SleepProofs -----------------------------
(***************************************************************************)
(* Sleep never completes early, and an interrupt only touches the Sleep it *)
(* was armed for, for any number of Sleeps at one address and delays of    *)
(* any length.                                                             *)
(*                                                                         *)
(* Neither is inductive.  That FIRED means the deadline of this Sleep has  *)
(* passed rests on where the timer's entry can be: the queue and the HRT   *)
(* hold at most one between them, always that of the Sleep at the address, *)
(* and only between call_after and cancel.  Where callouts run in a thread *)
(* this needs that no Sleep is dropped before it completes; dropping one   *)
(* there lets its callout reach the next Sleep.                            *)
(***************************************************************************)
EXTENDS Sleep, TLAPS

\* Sleep::poll has armed the timer, and its Drop has not returned.
TimerArmed ==
    \/ fpc = "store_armed" /\ state = "IDLE"
    \/ /\ state = "ARMED"
       /\ fpc \in {"pending", "parked", "load", "re_register", "re_check",
                   "drop", "cancel", "evict"}

\* The entry of the Sleep at the address is in the queue, ...
EntryQueued == heap \subseteq {gen} /\ (heap # {} => TimerArmed)

\* ... or the HRT has popped it and not fired yet, ...
EntryPopped == hpc \in {"check", "fire"} => heap = {} /\ hgen = gen /\ gen \in expired /\ TimerArmed

\* ... or its deadline has passed.
FiredInTime == state = "FIRED" => gen \in expired

\* What `state` can be where the task is.
StateAt ==
    /\ fpc \in {"register", "call_after"} => state = "IDLE"
    /\ fpc \in {"pending", "re_register", "re_check", "cancel", "evict"} => state # "IDLE"
    /\ host = "thread" /\ fpc \in {"drop", "cancel", "evict"} => state = "FIRED"

\* An interrupt keeps the task where it is.
InterruptHolds == host = "interrupt" /\ hpc # "wait" => Occupied /\ gen = hgen

\* The hosts on which a popped entry still has its Sleep.
Orderly == host = "interrupt" \/ "thread" \notin MayDrop

Entries == EntryQueued /\ EntryPopped /\ FiredInTime /\ StateAt /\ InterruptHolds

IInv == TypeOK /\ (Orderly => Entries /\ NeverEarly)

-----------------------------------------------------------------------------

\* The variables keep their types through every action of Sleep and the HRT.
LEMMA TypeOKStep == TypeOK /\ [Next]_vars => TypeOK'
<1> SUFFICES ASSUME TypeOK, [Next]_vars PROVE TypeOK'
  OBVIOUS
<1> USE SleepAssumption DEF TypeOK, W!TypeOK, T!TypeOK, W!Labels, W!RegisterLabels, W!TakeLabels,
        W!REGISTERING, W!WAKING, W!WAITING, W!Goto, W!Hold, Procs, Gens,
        wakerVars, taskVars, hrtVars
<1>1. CASE UNCHANGED vars
  BY <1>1 DEF vars
<1>2. ASSUME TaskStep, UNCHANGED host PROVE TypeOK'
  <2>1. CASE PollBegin
    BY <1>2, <2>1 DEF PollBegin, T!BeginPoll
  <2>2. CASE Load
    BY <1>2, <2>2 DEF Load
  <2>3. CASE DropEarly
    BY <1>2, <2>3 DEF DropEarly
  <2>4. CASE Register
    <3>1. /\ fpc' \in {"call_after", "re_check"}
          /\ UNCHANGED <<host, state, cancelled, gen, taskVars, heap, expired, hrtVars, completed>>
      BY <1>2, <2>4 DEF Register
    <3>2. W!TypeOK'
      <4>1. CASE W!RegisterClaim(Sleeper, Sleeper)
        BY <4>1 DEF W!RegisterClaim
      <4>2. CASE W!RegisterDuringWake(Sleeper, Sleeper)
        BY <4>2 DEF W!RegisterDuringWake
      <4>3. CASE W!RegisterRaced(Sleeper, Sleeper)
        BY <4>3 DEF W!RegisterRaced, W!vars
      <4> QED BY <2>4, <4>1, <4>2, <4>3 DEF Register, W!Register
    <3> QED BY <3>1, <3>2
  <2>5. CASE CallAfter
    BY <1>2, <2>5 DEF CallAfter
  <2>6. CASE StoreArmed
    BY <1>2, <2>6 DEF StoreArmed
  <2>7. CASE ReCheck
    BY <1>2, <2>7 DEF ReCheck
  <2>8. CASE PollEnd
    BY <1>2, <2>8 DEF PollEnd, T!PollPending
  <2>9. CASE Drop
    BY <1>2, <2>9 DEF Drop
  <2>10. CASE CancelFlag
    BY <1>2, <2>10 DEF CancelFlag
  <2>11. CASE CancelEvict
    BY <1>2, <2>11 DEF CancelEvict
  <2>12. CASE NextSleep
    <3>1. CASE gen < MaxSleeps
      <4>1. gen' \in Gens
        BY <2>12, <3>1 DEF NextSleep
      <4> QED BY <1>2, <2>12, <3>1, <4>1 DEF NextSleep, NewSleep
    <3>2. CASE gen = MaxSleeps
      <4>1. /\ fpc' = "over" /\ UNCHANGED <<state, wstate, slot, wpc, held, gen>>
            /\ UNCHANGED <<cancelled, heap, expired, hpc, hgen, completed>>
        BY <2>12, <3>2 DEF NextSleep
      <4>2. T!TypeOK'
        BY <2>12, <3>2 DEF NextSleep, T!PollReady
      <4> QED BY <1>2, <4>1, <4>2
    <3> QED BY <2>12, <3>1, <3>2 DEF NextSleep
  <2> QED BY <1>2, <2>1, <2>2, <2>3, <2>4, <2>5, <2>6, <2>7, <2>8, <2>9, <2>10, <2>11, <2>12 DEF TaskStep
<1>3. ASSUME Timer, UNCHANGED host PROVE TypeOK'
  <2>1. CASE Pop
    BY <1>3, <2>1 DEF Pop
  <2>2. CASE CheckCancelled
    BY <1>3, <2>2 DEF CheckCancelled
  <2>3. CASE Fire
    BY <1>3, <2>3 DEF Fire
  <2>4. CASE FireWake
    BY <1>3, <2>4 DEF FireWake, W!WakeBegin
  <2>5. CASE FireReturn
    BY <1>3, <2>5 DEF FireReturn
  <2> QED BY <1>3, <2>1, <2>2, <2>3, <2>4, <2>5 DEF Timer
<1>4. ASSUME NEW g \in Gens, Expire(g), UNCHANGED host PROVE TypeOK'
  BY <1>4 DEF Expire
<1>5. ASSUME NEW p \in Procs, WakerStep(p), UNCHANGED host PROVE TypeOK'
  <2>1. CASE W!Continue(p)
    <3>0. UNCHANGED <<live, owed, polling, state, cancelled, gen, fpc, heap, expired, hpc, hgen, completed>>
      BY <1>5, <2>1 DEF WakerStep, W!Continue, W!RegisterStore, W!RegisterRelease,
         W!RegisterDrain, W!RegisterUnlock, W!WakeTake, W!WakeClear, W!Invoke
    <3>1. CASE W!RegisterStore(p)
      BY <1>5, <3>0, <3>1 DEF W!RegisterStore
    <3>2. CASE W!RegisterRelease(p)
      <4>1. CASE wpc' = [wpc EXCEPT ![p] = "idle"] /\ held' = [held EXCEPT ![p] = None]
                 /\ wstate' = {} /\ UNCHANGED slot
        BY <1>5, <3>0, <4>1
      <4>2. CASE wpc' = [wpc EXCEPT ![p] = "drain"] /\ UNCHANGED <<wstate, held, slot>>
        BY <1>5, <3>0, <4>2
      <4> QED BY <3>2, <4>1, <4>2 DEF W!RegisterRelease
    <3>3. CASE W!RegisterDrain(p)
      BY <1>5, <3>0, <3>3 DEF W!RegisterDrain
    <3>4. CASE W!RegisterUnlock(p)
      BY <1>5, <3>0, <3>4 DEF W!RegisterUnlock
    <3>5. CASE W!WakeTake(p)
      BY <1>5, <3>0, <3>5 DEF W!WakeTake
    <3>6. CASE W!WakeClear(p)
      BY <1>5, <3>0, <3>6 DEF W!WakeClear
    <3> QED BY <2>1, <3>1, <3>2, <3>3, <3>4, <3>5, <3>6 DEF W!Continue
  <2>2. CASE W!Invoke(p)
    BY <1>5, <2>2 DEF WakerStep, W!Invoke, T!Wake
  <2> QED BY <1>5, <2>1, <2>2 DEF WakerStep
<1>6. ASSUME OtherWake, UNCHANGED host PROVE TypeOK'
  BY <1>6 DEF OtherWake, T!Wake
<1> QED BY <1>1, <1>2, <1>3, <1>4, <1>5, <1>6 DEF Next

\* Every step keeps the timer's entry where Entries says it is.
LEMMA EntriesStep ==
    ASSUME TypeOK, Orderly, Entries, NeverEarly, [Next]_vars
    PROVE  Entries' /\ NeverEarly'
<1>t. /\ gen \in Gens /\ hgen \in Gens /\ heap \subseteq Gens
      /\ state \in {"IDLE", "ARMED", "FIRED"} /\ host \in AllHosts
  BY SleepAssumption DEF TypeOK
<1> USE <1>t DEF Entries, EntryQueued, EntryPopped, FiredInTime, StateAt, InterruptHolds, TimerArmed,
        NeverEarly, Occupied, Orderly, MayRun, Gens, AllHosts, wakerVars, taskVars, hrtVars
<1>1. CASE UNCHANGED vars
  BY <1>1 DEF vars
<1>2. ASSUME TaskStep, UNCHANGED host PROVE Entries' /\ NeverEarly'
  <2>1. CASE PollBegin
    BY <1>2, <2>1 DEF PollBegin
  <2>2. CASE Load
    BY <1>2, <2>2 DEF Load
  <2>3. CASE DropEarly
    BY <1>2, <2>3 DEF DropEarly
  <2>4. CASE Register
    BY <1>2, <2>4 DEF Register
  <2>5. CASE CallAfter
    BY <1>2, <2>5 DEF CallAfter
  <2>6. CASE StoreArmed
    BY <1>2, <2>6 DEF StoreArmed
  <2>7. CASE ReCheck
    BY <1>2, <2>7 DEF ReCheck
  <2>8. CASE PollEnd
    BY <1>2, <2>8 DEF PollEnd
  <2>9. CASE Drop
    BY <1>2, <2>9 DEF Drop
  <2>10. CASE CancelFlag
    BY <1>2, <2>10 DEF CancelFlag
  <2>11. CASE CancelEvict
    BY <1>2, <2>11 DEF CancelEvict
  <2>12. CASE NextSleep
    BY <1>2, <2>12 DEF NextSleep, NewSleep
  <2> QED BY <1>2, <2>1, <2>2, <2>3, <2>4, <2>5, <2>6, <2>7, <2>8, <2>9, <2>10, <2>11, <2>12 DEF TaskStep
<1>3. ASSUME Timer, UNCHANGED host PROVE Entries' /\ NeverEarly'
  <2>1. CASE Pop
    BY <1>3, <2>1 DEF Pop
  <2>2. CASE CheckCancelled
    BY <1>3, <2>2 DEF CheckCancelled
  <2>3. CASE Fire
    BY <1>3, <2>3 DEF Fire
  <2>4. CASE FireWake
    BY <1>3, <2>4 DEF FireWake
  <2>5. CASE FireReturn
    BY <1>3, <2>5 DEF FireReturn
  <2> QED BY <1>3, <2>1, <2>2, <2>3, <2>4, <2>5 DEF Timer
<1>4. ASSUME NEW g \in Gens, Expire(g), UNCHANGED host PROVE Entries' /\ NeverEarly'
  BY <1>4 DEF Expire
<1>5. ASSUME NEW p \in Procs, WakerStep(p), UNCHANGED host PROVE Entries' /\ NeverEarly'
  BY <1>5 DEF WakerStep
<1>6. ASSUME OtherWake, UNCHANGED host PROVE Entries' /\ NeverEarly'
  BY <1>6 DEF OtherWake
<1> QED BY <1>1, <1>2, <1>3, <1>4, <1>5, <1>6 DEF Next

\* IInv holds in every reachable state of timer.rs and hrt.rs.
LEMMA IInvHolds == Spec => []IInv
<1>1. Init => IInv
  <2> SUFFICES ASSUME Init PROVE IInv
    OBVIOUS
  <2> USE SleepAssumption DEF Init, W!Init
  <2>1. TypeOK
    BY DEF TypeOK, W!TypeOK, T!TypeOK, W!Labels, W!WAITING, Gens
  <2>2. Entries /\ NeverEarly
    BY DEF Entries, EntryQueued, EntryPopped, FiredInTime, StateAt, InterruptHolds, TimerArmed, NeverEarly
  <2> QED BY <2>1, <2>2 DEF IInv
<1>2. IInv /\ [Next]_vars => IInv'
  <2>1. [Next]_vars => (Orderly' <=> Orderly)
    BY DEF Next, vars, Orderly
  <2> QED BY <2>1, TypeOKStep, EntriesStep DEF IInv
<1> QED BY <1>1, <1>2, PTL DEF Spec

\* The variables of Sleep, its waker's and its task's included, keep their
\* types.
THEOREM SleepTypeCorrect == Spec => []TypeOK
BY IInvHolds, PTL DEF IInv

\* A callout that runs as an interrupt only touches the Sleep it was armed for,
\* and only while that Sleep exists, also when Sleeps are dropped at any time
\* (hrt.rs:154).
THEOREM CalloutsInLifetime == Spec => []CalloutInLifetime
<1>1. IInv => CalloutInLifetime
  BY DEF IInv, Orderly, Entries, InterruptHolds, CalloutInLifetime
<1> QED BY <1>1, IInvHolds, PTL

\* No Sleep completes before its deadline (timer.rs:83), be it that callouts
\* are interrupts or that no Sleep is dropped early where they run in a thread.
THEOREM CompletesInTime ==
    ASSUME "thread" \notin MayDrop
    PROVE  Spec => []NeverEarly
<1>1. IInv => NeverEarly
  BY DEF IInv, Orderly
<1> QED BY <1>1, IInvHolds, PTL
=============================================================================
