---------------------------- MODULE NotifyProofs ----------------------------
(***************************************************************************)
(* Notify loses no notification and invents none, for any number of        *)
(* notifying threads and of notifications.                                 *)
(*                                                                         *)
(* Notify only uses its AtomicWaker as AtomicWaker allows (WakerUsed), so  *)
(* the owner of the slot is what AtomicWakerProofs says it is.  On top of  *)
(* that, a waiter that has looked twice is armed: its waker is in the      *)
(* slot, or on its way through the hands of a notifier, or has been        *)
(* called.                                                                 *)
(***************************************************************************)
EXTENDS Notify, TLAPS

\* The theorems about AtomicWaker, for the one inside Notify.
WP == INSTANCE AtomicWakerProofs WITH Wakers <- {Waiter}, state <- wstate, pc <- wpc

USE DEF W!REGISTERING, W!WAKING, W!WAITING, WP!REGISTERING, WP!WAKING, WP!WAITING

-----------------------------------------------------------------------------
(* The inductive invariant *)

\* The waiter only registers, the notifiers only wake, one call at a time.
Roles ==
    /\ live[Waiter]
    /\ wpc[Waiter] \in {"idle", "invoke", "store", "release", "drain", "unlock"}
    /\ wpc[Waiter] # "idle" => fpc = "second"
    /\ \A n \in Notifiers : wpc[n] \in {"idle", "invoke", "take", "clear"}

\* Where the waiter's waker is during register and wake.
WakerPlace ==
    /\ wpc[Waiter] \in {"store", "unlock"} => held[Waiter] = Waiter
    /\ wpc[Waiter] \in {"release", "drain"} => slot = Waiter
    /\ \A p \in Procs : wpc[p] = "invoke" => held[p] = Waiter
    /\ \A n \in Notifiers : wpc[n] = "clear" => slot = None

\* The waker is stored, taken by a notifier that will call it, or was called.
Armed ==
    \/ slot = Waiter
    \/ owed[Waiter]
    \/ \E n \in Notifiers : wpc[n] \in {"clear", "invoke"} /\ held[n] = Waiter

\* A waiter that has registered is armed.
WaiterArmed ==
    (fpc = "second" /\ wpc[Waiter] = "idle") \/ fpc \in {"pending", "parked"} => Armed

\* NoLostNotify from the second look at the permit on.
PermitSeen ==
    fpc \in {"pending", "parked"} /\ permit /\ ~owed[Waiter]
        => \E n \in Notifiers : npc[n] = "wake" \/ wpc[n] # "idle"

\* A stored permit has not been counted as a completion yet.
PermitsCounted == completions + (IF permit THEN 1 ELSE 0) <= calls

IInv == TypeOK /\ WP!OwnerInv /\ Roles /\ WakerPlace /\ WaiterArmed /\ PermitSeen /\ PermitsCounted

-----------------------------------------------------------------------------
\* The rest of a register or a wake is the same in both instances.
LEMMA SameContinue == \A p : W!Continue(p) <=> WP!Continue(p)
BY DEF W!Continue, WP!Continue, W!RegisterStore, W!RegisterRelease, W!RegisterDrain,
   W!RegisterUnlock, W!WakeTake, W!WakeClear, W!Goto, W!Hold,
   WP!RegisterStore, WP!RegisterRelease, WP!RegisterDrain,
   WP!RegisterUnlock, WP!WakeTake, WP!WakeClear, WP!Goto, WP!Hold

\* Notify only uses its waker as AtomicWaker allows: notified() registers,
\* notify() wakes, each one call at a time.
LEMMA WakerUsed == [Next]_vars => [WP!Next]_(WP!vars)
<1> SUFFICES ASSUME [Next]_vars PROVE [WP!Next]_(WP!vars)
  OBVIOUS
<1>1. CASE UNCHANGED vars
  BY <1>1 DEF vars, wakerVars, WP!vars
<1>2. ASSUME NEW n \in Notifiers, NotifyStore(n) PROVE UNCHANGED WP!vars
  BY <1>2 DEF NotifyStore, wakerVars, WP!vars
<1>3. ASSUME NEW n \in Notifiers, NotifyWake(n) PROVE WP!Next
  BY <1>3 DEF NotifyWake, Procs, W!WakeBegin, W!Goto, WP!WakeBegin, WP!Goto, WP!Next
<1>4. ASSUME NEW p \in Procs, WakerStep(p) PROVE WP!Next
  BY <1>4, SameContinue DEF WakerStep, WP!Next
<1>5. ASSUME NEW p \in Procs, InvokeWaker(p) PROVE WP!Next
  BY <1>5 DEF InvokeWaker, WP!Next, W!Invoke, WP!Invoke, W!Goto, W!Hold, WP!Goto, WP!Hold
<1>6. CASE Poll
  <2>1. CASE RegisterWaker
    BY <2>1 DEF RegisterWaker, W!Register, W!RegisterClaim, W!RegisterDuringWake, W!RegisterRaced, W!vars,
      W!Goto, W!Hold, WP!Goto, WP!Hold, 
      WP!Register, WP!RegisterClaim, WP!RegisterDuringWake, WP!RegisterRaced, WP!vars, WP!Next, Procs
  <2>2. CASE PollBegin \/ CheckFirst \/ CheckSecond \/ PollEnd
    BY <2>2 DEF PollBegin, CheckFirst, CheckSecond, PollEnd, Swap, wakerVars, WP!vars
  <2> QED BY <1>6, <2>1, <2>2 DEF Poll
<1>7. CASE OtherWake
  BY <1>7 DEF OtherWake, wakerVars, WP!vars
<1> QED BY <1>1, <1>2, <1>3, <1>4, <1>5, <1>6, <1>7 DEF Next

-----------------------------------------------------------------------------
(* The invariant holds *)

\* Every step of Notify keeps the invariant.
LEMMA IInvStep == IInv /\ [Next]_vars => IInv'
<1> SUFFICES ASSUME IInv, [Next]_vars PROVE IInv'
  OBVIOUS
<1>0. WP!OwnerInv'
  BY WP!OwnerInvStep, WakerUsed, NotifyAssumption DEF IInv
<1>a. /\ Waiter \notin Notifiers /\ None # Waiter
      /\ TypeOK /\ WP!OwnerInv /\ Roles /\ WakerPlace /\ WaiterArmed /\ PermitSeen /\ PermitsCounted
  BY NotifyAssumption DEF IInv
<1>b. \A p, q \in Procs :
         wpc[p] \in {"store", "release", "drain", "unlock", "take", "clear"}
         /\ wpc[q] \in {"store", "release", "drain", "unlock", "take", "clear"} => p = q
  BY <1>a DEF WP!OwnerInv, WP!OneOwner, WP!Registering, WP!Taking, WP!RegisterLabels, WP!TakeLabels
<1> USE <1>a DEF Procs, TypeOK, W!TypeOK, T!TypeOK, W!Labels, W!RegisterLabels, W!TakeLabels,
        Roles, WakerPlace, WaiterArmed, Armed, PermitSeen
<1> DEFINE J == TypeOK /\ Roles /\ WakerPlace /\ WaiterArmed /\ PermitSeen
<1>1. CASE UNCHANGED vars
  <2>1. J'
    BY <1>1 DEF vars, wakerVars, taskVars, countVars
  <2>2. PermitsCounted'
    BY <1>1 DEF vars, countVars, PermitsCounted
  <2> QED BY <1>0, <2>1, <2>2 DEF IInv
<1>2. ASSUME NEW n \in Notifiers, NotifyStore(n) PROVE IInv'
  <2>1. J'
    BY <1>2, NotifyAssumption DEF NotifyStore, wakerVars, taskVars
  <2>2. PermitsCounted'
    BY <1>2 DEF NotifyStore, PermitsCounted
  <2> QED BY <1>0, <2>1, <2>2 DEF IInv
<1>3. ASSUME NEW n \in Notifiers, NotifyWake(n) PROVE IInv'
  <2>0. wstate # {} => \E p \in Procs : wpc[p] \in {"store", "release", "drain", "unlock", "take", "clear"}
    BY WP!BusyHasOwner DEF WP!Registering, WP!Taking, WP!RegisterLabels, WP!TakeLabels
  <2>1. TypeOK' /\ Roles' /\ WakerPlace'
    BY <1>3 DEF NotifyWake, W!WakeBegin, W!Goto, taskVars, countVars
  <2>2. WaiterArmed'
    BY <1>3 DEF NotifyWake, W!WakeBegin, W!Goto, taskVars, countVars
  <2>3. PermitSeen'
    BY <1>3, <2>0 DEF NotifyWake, W!WakeBegin, W!Goto, taskVars, countVars
  <2>4. PermitsCounted'
    BY <1>3 DEF NotifyWake, PermitsCounted, countVars
  <2> QED BY <1>0, <2>1, <2>2, <2>3, <2>4 DEF IInv
<1>4. ASSUME NEW p \in Procs, WakerStep(p) PROVE IInv'
  <2> USE DEF W!Goto, W!Hold, taskVars, countVars
  <2>0. PermitsCounted' /\ UNCHANGED <<permit, taskVars, fpc, npc, countVars>>
    BY <1>4 DEF WakerStep, PermitsCounted, countVars
  <2>1. CASE W!RegisterStore(p)
    BY <2>0, <2>1, <1>0, <1>b DEF W!RegisterStore, IInv
  <2>2. CASE W!RegisterRelease(p)
    <3>1. p = Waiter
      BY <2>2 DEF W!RegisterRelease
    <3>2. CASE wpc' = [wpc EXCEPT ![p] = "idle"] /\ held' = [held EXCEPT ![p] = None]
               /\ wstate' = {} /\ slot' = slot
      BY <2>0, <2>2, <3>1, <3>2, <1>0 DEF W!RegisterRelease, IInv
    <3>3. CASE wpc' = [wpc EXCEPT ![p] = "drain"] /\ UNCHANGED <<wstate, held, slot>>
      BY <2>0, <2>2, <3>1, <3>3, <1>0 DEF W!RegisterRelease, IInv
    <3> QED BY <2>2, <3>2, <3>3 DEF W!RegisterRelease
  <2>3. CASE W!RegisterDrain(p)
    BY <2>0, <2>3, <1>0 DEF W!RegisterDrain, IInv
  <2>4. CASE W!RegisterUnlock(p)
    BY <2>0, <2>4, <1>0 DEF W!RegisterUnlock, IInv
  <2>5. CASE W!WakeTake(p)
    BY <2>0, <2>5, <1>0, <1>b DEF W!WakeTake, IInv
  <2>6. CASE W!WakeClear(p)
    BY <2>0, <2>6, <1>0 DEF W!WakeClear, IInv
  <2> QED BY <1>4, <2>1, <2>2, <2>3, <2>4, <2>5, <2>6 DEF WakerStep, W!Continue
<1>5. ASSUME NEW p \in Procs, InvokeWaker(p) PROVE IInv'
  <2>1. J'
    BY <1>5 DEF InvokeWaker, W!Invoke, W!Goto, W!Hold, T!Wake, countVars
  <2>2. PermitsCounted'
    BY <1>5 DEF InvokeWaker, PermitsCounted, countVars
  <2> QED BY <1>0, <2>1, <2>2 DEF IInv
<1>6. CASE PollBegin
  <2>1. J'
    BY <1>6 DEF PollBegin, T!BeginPoll, wakerVars, countVars
  <2>2. PermitsCounted'
    BY <1>6 DEF PollBegin, PermitsCounted, countVars
  <2> QED BY <1>0, <2>1, <2>2 DEF IInv
<1>7. CASE CheckFirst \/ CheckSecond
  <2>1. J'
    <3>1. TypeOK'
      <4>1. completions \in Nat
        OBVIOUS
      <4>2. completions' = completions \/ completions' = completions + 1
        BY <1>7 DEF CheckFirst, CheckSecond, Swap
      <4>3. completions' \in Nat
        BY <4>1, <4>2
      <4>4. permit' = FALSE /\ UNCHANGED <<wakerVars, taskVars, npc, calls>>
        BY <1>7 DEF CheckFirst, CheckSecond, Swap
      <4>5. fpc' \in {"parked", "first", "register", "second", "pending"}
        BY <1>7 DEF CheckFirst, CheckSecond, Swap
      <4> QED BY <4>3, <4>4, <4>5 DEF wakerVars, taskVars
    <3>2. Roles' /\ WakerPlace' /\ WaiterArmed' /\ PermitSeen'
      BY <1>7 DEF CheckFirst, CheckSecond, Swap, wakerVars, taskVars
    <3> QED BY <3>1, <3>2
  <2>2. PermitsCounted'
    BY <1>7 DEF CheckFirst, CheckSecond, Swap, PermitsCounted
  <2> QED BY <1>0, <2>1, <2>2 DEF IInv
<1>8. CASE RegisterWaker
  <2>1. J'
    BY <1>8 DEF RegisterWaker, W!Register, W!RegisterClaim, W!RegisterDuringWake, W!RegisterRaced,
      W!Goto, W!Hold, W!vars, taskVars, countVars, WP!OwnerInv, WP!BitsOwner, WP!Registering, WP!RegisterLabels
  <2>2. PermitsCounted'
    BY <1>8 DEF RegisterWaker, PermitsCounted, countVars
  <2> QED BY <1>0, <2>1, <2>2 DEF IInv
<1>9. CASE PollEnd
  <2>1. J'
    BY <1>9 DEF PollEnd, T!PollPending, wakerVars, countVars
  <2>2. PermitsCounted'
    BY <1>9 DEF PollEnd, PermitsCounted, countVars
  <2> QED BY <1>0, <2>1, <2>2 DEF IInv
<1>10. CASE OtherWake
  <2>1. J'
    BY <1>10 DEF OtherWake, T!Wake, wakerVars, countVars
  <2>2. PermitsCounted'
    BY <1>10 DEF OtherWake, PermitsCounted, countVars
  <2> QED BY <1>0, <2>1, <2>2 DEF IInv
<1> QED BY <1>1, <1>2, <1>3, <1>4, <1>5, <1>6, <1>7, <1>8, <1>9, <1>10 DEF Next, Poll

\* IInv holds in every reachable state of notify.rs.
LEMMA IInvHolds == Spec => []IInv
<1>1. Init => IInv
  <2> SUFFICES ASSUME Init PROVE IInv
    OBVIOUS
  <2> USE NotifyAssumption DEF Init, W!Init, Procs
  <2>1. WP!OwnerInv
    BY DEF WP!OwnerInv, WP!TypeOK, WP!OneOwner, WP!OwnersBits, WP!BitsOwner, WP!Registering,
       WP!Taking, WP!Labels, WP!RegisterLabels, WP!TakeLabels
  <2>2. TypeOK
    <3>1. W!TypeOK
      BY DEF W!TypeOK, W!Labels
    <3>2. T!TypeOK
      BY DEF T!TypeOK
    <3>3. /\ permit \in BOOLEAN /\ npc \in [Notifiers -> {"idle", "wake"}]
          /\ fpc \in {"parked", "first", "register", "second", "pending"}
      OBVIOUS
    <3>4. calls \in 0..MaxNotifies /\ completions \in Nat
      OBVIOUS
    <3> QED BY <3>1, <3>2, <3>3, <3>4 DEF TypeOK
  <2>3. Roles /\ WakerPlace /\ WaiterArmed /\ PermitSeen
    BY DEF Roles, WakerPlace, WaiterArmed, Armed, PermitSeen
  <2>4. PermitsCounted
    BY DEF PermitsCounted
  <2> QED BY <2>1, <2>2, <2>3, <2>4 DEF IInv
<1> QED BY <1>1, IInvStep, PTL DEF Spec

\* The variables of Notify, its waker's and its task's included, keep their
\* types through every step of notify() and Notified::poll.
THEOREM NotifyTypeCorrect == Spec => []TypeOK
BY IInvHolds, PTL DEF IInv

\* No notification is lost, whatever the order of the stores and wakes of any
\* number of notifiers and of the two looks of Notified::poll (notify.rs:92).
THEOREM LosesNoNotify == Spec => []NoLostNotify
<1>1. IInv => NoLostNotify
  BY DEF IInv, PermitSeen, NoLostNotify
<1> QED BY <1>1, IInvHolds, PTL

\* No notification is invented: a permit is consumed by one of the swaps only.
THEOREM InventsNoNotify == Spec => []NoInventedNotify
<1>1. IInv => NoInventedNotify
  BY NotifyAssumption DEF IInv, TypeOK, PermitsCounted, NoInventedNotify
<1> QED BY <1>1, IInvHolds, PTL
=============================================================================
