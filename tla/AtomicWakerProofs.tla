-------------------------- MODULE AtomicWakerProofs --------------------------
(***************************************************************************)
(* AtomicWaker hands its slot to one thread at a time, for any number of   *)
(* threads that register and wake.                                         *)
(*                                                                         *)
(* SlotExclusive is not inductive: a thread enters the slot by what it     *)
(* reads in `state`, so the invariant ties the bits to the threads' labels *)
(* in both directions.  REGISTERING is set exactly while one thread is     *)
(* inside register's critical section; WAKING alone exactly while one is   *)
(* inside take's.                                                          *)
(***************************************************************************)
EXTENDS AtomicWaker, TLAPS

USE DEF REGISTERING, WAKING, WAITING

Registering(p) == pc[p] \in RegisterLabels
Taking(p)      == pc[p] \in TakeLabels

\* At most one thread is inside either critical section, ...
OneOwner ==
    \A p, q \in Procs :
        (Registering(p) \/ Taking(p)) /\ (Registering(q) \/ Taking(q)) => p = q

\* ... its bit is set while it is, ...
OwnersBits ==
    \A p \in Procs :
        /\ Registering(p) => REGISTERING \in state
        /\ Taking(p) => WAKING \in state /\ REGISTERING \notin state

\* ... and a bit that is set has its thread.
BitsOwner ==
    /\ REGISTERING \in state => \E p \in Procs : Registering(p)
    /\ WAKING \in state /\ REGISTERING \notin state => \E p \in Procs : Taking(p)

OwnerInv == TypeOK /\ OneOwner /\ OwnersBits /\ BitsOwner

\* The critical sections of register and take exclude one another, and the
\* bits of `state` say who is inside.
LEMMA OwnerInvStep == OwnerInv /\ [Next]_vars => OwnerInv'
<1> SUFFICES ASSUME OwnerInv, [Next]_vars PROVE OwnerInv'
  OBVIOUS
<1> USE NoneAssumption DEF OwnerInv, TypeOK, OneOwner, OwnersBits, BitsOwner,
        Registering, Taking, Goto, Hold, Labels, RegisterLabels, TakeLabels
<1>1. CASE UNCHANGED vars
  BY <1>1 DEF vars
<1>2. ASSUME NEW p \in Procs, NEW w \in Wakers, Register(p, w) PROVE OwnerInv'
  <2>1. CASE RegisterClaim(p, w)
    BY <2>1 DEF RegisterClaim
  <2>2. CASE RegisterDuringWake(p, w)
    BY <2>2 DEF RegisterDuringWake
  <2>3. CASE RegisterRaced(p, w)
    BY <2>3 DEF RegisterRaced, vars
  <2> QED BY <1>2, <2>1, <2>2, <2>3 DEF Register
<1>3. ASSUME NEW p \in Procs, WakeBegin(p) PROVE OwnerInv'
  BY <1>3 DEF WakeBegin
<1>4. ASSUME NEW p \in Procs, Continue(p) PROVE OwnerInv'
  <2>1. CASE RegisterStore(p)
    BY <2>1 DEF RegisterStore
  <2>2. CASE RegisterRelease(p)
    <3>1. CASE state = {REGISTERING}
      <4>1. state' = WAITING /\ slot' = slot /\ held' = [held EXCEPT ![p] = None] /\ pc' = [pc EXCEPT ![p] = "idle"]
        BY <2>2, <3>1 DEF RegisterRelease
      <4>2. \A q \in Procs \ {p} : ~Registering(q) /\ ~Taking(q)
        BY <2>2 DEF RegisterRelease
      <4> QED BY <4>1, <4>2
    <3>2. CASE state # {REGISTERING}
      <4>1. pc[p] = "release" /\ UNCHANGED <<state, slot, held>> /\ pc' = [pc EXCEPT ![p] = "drain"]
        BY <2>2, <3>2 DEF RegisterRelease
      <4> QED BY <4>1
    <3> QED BY <3>1, <3>2
  <2>3. CASE RegisterDrain(p)
    BY <2>3 DEF RegisterDrain
  <2>4. CASE RegisterUnlock(p)
    BY <2>4 DEF RegisterUnlock
  <2>5. CASE WakeTake(p)
    BY <2>5 DEF WakeTake
  <2>6. CASE WakeClear(p)
    BY <2>6 DEF WakeClear
  <2> QED BY <1>4, <2>1, <2>2, <2>3, <2>4, <2>5, <2>6 DEF Continue
<1>5. ASSUME NEW p \in Procs, Invoke(p) PROVE OwnerInv'
  BY <1>5 DEF Invoke
<1> QED BY <1>1, <1>2, <1>3, <1>4, <1>5 DEF Next

\* In every reachable state the bits of `state` say who owns the slot.
LEMMA OwnerInvHolds == Spec => []OwnerInv
<1>1. Init => OwnerInv
  BY DEF Init, OwnerInv, TypeOK, OneOwner, OwnersBits, BitsOwner, Registering, Taking,
     Labels, RegisterLabels, TakeLabels
<1> QED BY <1>1, OwnerInvStep, PTL DEF Spec

\* A store that is not WAITING has a thread inside register or take.
LEMMA BusyHasOwner == OwnerInv /\ state # WAITING => \E p \in Procs : Registering(p) \/ Taking(p)
<1> SUFFICES ASSUME OwnerInv, state # WAITING PROVE \E p \in Procs : Registering(p) \/ Taking(p)
  OBVIOUS
<1>1. PICK b \in state : TRUE
  OBVIOUS
<1>2. b \in {REGISTERING, WAKING}
  BY <1>1 DEF OwnerInv, TypeOK
<1> QED BY <1>1, <1>2 DEF OwnerInv, BitsOwner

\* Two threads never touch the slot at once, however registrations and wakes
\* interleave: the SAFETY comments of atomic_waker.rs hold.
THEOREM SlotIsExclusive == Spec => []SlotExclusive
<1>1. OwnerInv => SlotExclusive
  BY DEF OwnerInv, OneOwner, SlotExclusive, TouchesSlot, Registering, Taking,
     RegisterLabels, TakeLabels
<1> QED BY <1>1, OwnerInvHolds, PTL

\* A quiet AtomicWaker is back in WAITING: no bit of `state` is left behind.
THEOREM IdleWakerIsWaiting == Spec => []IdleIsWaiting
<1>1. OwnerInv => IdleIsWaiting
  BY DEF OwnerInv, TypeOK, BitsOwner, IdleIsWaiting, Registering, Taking,
     RegisterLabels, TakeLabels
<1> QED BY <1>1, OwnerInvHolds, PTL
=============================================================================
