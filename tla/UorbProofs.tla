----------------------------- MODULE UorbProofs -----------------------------
(***************************************************************************)
(* Theorems about Uorb, and about Shim on top of it, for any number of     *)
(* publishing threads and calls.                                           *)
(*                                                                         *)
(* On the host every step of Shim is a step of Uorb.  On PX4 it is one     *)
(* too, except for the node's publication and the two halves of            *)
(* updateTrackLost: the invariants of Uorb are shown to survive those      *)
(* three.  Those about the callback and the waker hold of both brokers;    *)
(* the handles, numbers and losses of Uorb are the mock's alone, and       *)
(* NeverUndercounts is about the counters of PX4's C++ object.             *)
(***************************************************************************)
EXTENDS Shim, Integers, FiniteSetTheorems, TLAPS

-----------------------------------------------------------------------------
(* The accounts of the subscriber *)

\* The number sub_cb_update has read is ahead of the one it has recorded, and
\* every number it has passed was delivered or counted.
CopyInv ==
    /\ seq \in Nat /\ lastSeen \in Nat /\ cur \in Nat /\ lost \in Nat
    /\ missed \in Nat /\ got \in Nat
    /\ lastSeen <= seq
    /\ lastSeen = got + lost + missed
    /\ spc = "copy" => cur > lastSeen /\ cur <= seq

\* Every step keeps the accounts.
LEMMA AccountsStep == CopyInv /\ [Next]_vars => CopyInv'
<1> SUFFICES ASSUME CopyInv, [Next]_vars PROVE CopyInv'
  OBVIOUS
<1> USE DEF CopyInv
<1>1. CASE UNCHANGED vars
  BY <1>1 DEF vars, topicVars, subVars, cbVars
<1>2. ASSUME NEW t \in Threads, PubCall(t) PROVE CopyInv'
  BY <1>2 DEF PubCall, Begin, Unadvertise, topicVars, subVars, cbVars
<1>3. ASSUME NEW t \in Threads, PubStep(t) PROVE CopyInv'
  <2>1. CASE BumpSeq(t)
    BY <2>1 DEF BumpSeq, subVars, cbVars
  <2>2. CASE ~BumpSeq(t)
    BY <1>3, <2>2 DEF PubStep, EnsureLoad, EnsureCas, Release, PublishLoad, WriteData,
       NotifyLock, NotifyCall, NotifyUnlock, topicVars, subVars, cbVars
  <2> QED BY <2>1, <2>2
<1>4. ASSUME NEW p \in Procs, WakerStep(p) PROVE CopyInv'
  BY <1>4 DEF WakerStep, topicVars, subVars, cbVars
<1>5. CASE SubStep
  <2>1. CASE UpdateSeq
    BY <2>1 DEF UpdateSeq, topicVars, cbVars
  <2>2. CASE UpdateCopy
    BY <2>2 DEF UpdateCopy, topicVars
  <2>3. CASE MissedCount
    BY <2>3 DEF MissedCount, topicVars
  <2>4. CASE RecvPollBegin \/ EnsureRegistered \/ RecvReturn \/ RecvRegister \/ RegisterWaker
    BY <2>4 DEF RecvPollBegin, EnsureRegistered, RecvReturn, RecvRegister, RegisterWaker,
       topicVars, subVars, cbVars
  <2>5. CASE RecvPollEnd \/ DropSubscription \/ SubDelete \/ TaskEnd
    BY <2>5 DEF RecvPollEnd, DropSubscription, SubDelete, TaskEnd,
       topicVars, subVars, cbVars
  <2> QED BY <1>5, <2>1, <2>2, <2>3, <2>4, <2>5 DEF SubStep
<1> QED BY <1>1, <1>2, <1>3, <1>4, <1>5 DEF Next

\* The accounts are right in every state of the mock broker.
LEMMA AccountsHold == Spec => []CopyInv
<1>1. Init => CopyInv
  BY DEF Init, CopyInv
<1> QED BY <1>1, AccountsStep, PTL DEF Spec

-----------------------------------------------------------------------------
(* The lock of the callback list *)

\* Who holds the lock, and what that keeps from happening.
LockInv ==
    /\ tpc \in [Threads -> PubLabels]
    /\ wpc \in [Procs -> {"idle", "invoke", "store", "release", "drain", "unlock", "take", "clear"}]
    /\ \A t \in Threads : tpc[t] \in {"dispatch", "unlock"} => lock = t
    /\ \A t \in Threads : wpc[t] # "idle" => tpc[t] = "unlock"
    /\ \A t \in Threads : tpc[t] = "dispatch" \/ wpc[t] \in {"take", "clear"} => registered
    /\ registered => spc \notin {"over", "gone"}

\* Every step keeps the lock's rules: SubDelete waits for it, and notify holds
\* it during the dispatch.
LEMMA LockInvStep == LockInv /\ [Next]_vars => LockInv'
<1> SUFFICES ASSUME LockInv, [Next]_vars PROVE LockInv'
  OBVIOUS
<1>0. Sub \notin Threads /\ None \notin Threads
  BY UorbAssumption
<1> USE <1>0 DEF LockInv, PubLabels, Procs
<1>1. CASE UNCHANGED vars
  BY <1>1 DEF vars, topicVars, pubVars, wakerVars, subVars
<1>2. ASSUME NEW t \in Threads, PubCall(t) PROVE LockInv'
  BY <1>2 DEF PubCall, Begin, Unadvertise, Goto, topicVars, wakerVars, subVars
<1>3. ASSUME NEW t \in Threads, PubStep(t) PROVE LockInv'
  <2>1. CASE EnsureLoad(t) \/ EnsureCas(t) \/ Release(t) \/ PublishLoad(t)
    BY <2>1 DEF EnsureLoad, EnsureCas, Release, PublishLoad, AfterEnsure, Goto, Enter,
       topicVars, wakerVars, subVars
  <2>2. CASE WriteData(t) \/ BumpSeq(t)
    BY <2>2 DEF WriteData, BumpSeq, Goto, wakerVars, subVars
  <2>3. CASE NotifyLock(t)
    BY <2>3 DEF NotifyLock, Goto, wakerVars, subVars
  <2>4. CASE NotifyCall(t)
    BY <2>4 DEF NotifyCall, W!WakeBegin, W!Goto, Goto, topicVars, subVars
  <2>5. CASE NotifyUnlock(t)
    BY <2>5 DEF NotifyUnlock, Goto, wakerVars, subVars
  <2> QED BY <1>3, <2>1, <2>2, <2>3, <2>4, <2>5 DEF PubStep
<1>4. ASSUME NEW p \in Procs, WakerStep(p) PROVE LockInv'
  <2>1. CASE W!Continue(p)
    BY <1>4, <2>1 DEF WakerStep, W!Continue, W!RegisterStore, W!RegisterRelease,
       W!RegisterDrain, W!RegisterUnlock, W!WakeTake, W!WakeClear, W!Goto, W!Hold,
       topicVars, pubVars, subVars
  <2>2. CASE W!Invoke(p)
    BY <1>4, <2>2 DEF WakerStep, W!Invoke, W!Goto, topicVars, pubVars, subVars
  <2> QED BY <1>4, <2>1, <2>2 DEF WakerStep
<1>5. CASE SubStep
  <2>1. CASE RecvRegister \/ RegisterWaker
    BY <2>1 DEF RecvRegister, RegisterWaker, W!Register, W!RegisterClaim, W!RegisterDuringWake,
       W!RegisterRaced, W!Goto, W!vars, topicVars, pubVars
  <2>2. CASE EnsureRegistered \/ SubDelete
    BY <2>2 DEF EnsureRegistered, SubDelete, pubVars, wakerVars, subVars
  <2>3. CASE RecvPollBegin \/ UpdateSeq \/ UpdateCopy \/ RecvReturn \/ MissedCount
    BY <2>3 DEF RecvPollBegin, UpdateSeq, UpdateCopy, RecvReturn, MissedCount,
       topicVars, pubVars, wakerVars
  <2>4. CASE RecvPollEnd \/ DropSubscription \/ TaskEnd
    BY <2>4 DEF RecvPollEnd, DropSubscription, TaskEnd, topicVars, pubVars, wakerVars
  <2> QED BY <1>5, <2>1, <2>2, <2>3, <2>4 DEF SubStep
<1> QED BY <1>1, <1>2, <1>3, <1>4, <1>5 DEF Next

\* Nobody holds the lock initially.
LEMMA LockInvInit == Init => LockInv
BY DEF Init, LockInv, W!Init, PubLabels, Procs

\* The callback list is locked by the rules in every state.
LEMMA LockInvHolds == Spec => []LockInv
BY LockInvInit, LockInvStep, PTL DEF Spec

\* A callback never runs past the end of its Subscription: SubDelete has to wait
\* for the lock that notify holds during the dispatch.
THEOREM CallbacksInLifetime == Spec => []CallbackInLifetime
<1>1. LockInv => CallbackInLifetime
  BY DEF LockInv, CallbackInLifetime
<1> QED BY <1>1, LockInvHolds, PTL

-----------------------------------------------------------------------------
(* Counting threads by their labels *)

\* The threads that have a handle in hand, and how many they are; those that
\* have written a sample and not numbered it yet.
Holding    == {t \in Threads : tpc[t] \in {"cas", "release"}}
Numbering  == {t \in Threads : tpc[t] = "bump"}
NumHolding   == Cardinality(Holding)
NumNumbering == Cardinality(Numbering)

\* A set of threads that gains one.
LEMMA OneMore ==
    ASSUME NEW A \in SUBSET Threads, NEW t \in Threads, t \notin A
    PROVE  Cardinality(A \union {t}) = Cardinality(A) + 1
<1>1. IsFiniteSet(A)
  BY UorbAssumption, FS_Subset
<1> QED BY <1>1, FS_AddElement

\* How many threads are in a set is a number.
LEMMA SizeIsNat ==
    ASSUME NEW A \in SUBSET Threads
    PROVE  Cardinality(A) \in Nat
<1>1. IsFiniteSet(A)
  BY UorbAssumption, FS_Subset
<1> QED BY <1>1, FS_CardinalityType

\* A set of threads that loses one.
LEMMA OneLess ==
    ASSUME NEW A \in SUBSET Threads, NEW t \in A
    PROVE  Cardinality(A) >= 1 /\ Cardinality(A \ {t}) = Cardinality(A) - 1
<1>1. IsFiniteSet(A) /\ IsFiniteSet(A \ {t})
  BY UorbAssumption, FS_Subset
<1>2. Cardinality(A \ {t}) = Cardinality(A) - 1
  BY <1>1, FS_RemoveElement
<1>3. Cardinality(A) \in Nat /\ Cardinality(A \ {t}) \in Nat
  BY <1>1, FS_CardinalityType
<1> QED BY <1>2, <1>3

\* A thread that moves to another label changes each count by one at most.
LEMMA CountsMove ==
    ASSUME NEW t \in Threads, NEW l, tpc \in [Threads -> PubLabels], tpc' = [tpc EXCEPT ![t] = l]
    PROVE  /\ NumHolding \in Nat /\ NumHolding' \in Nat
           /\ NumNumbering \in Nat /\ NumNumbering' \in Nat
           /\ tpc[t] \notin {"cas", "release"} /\ l \in {"cas", "release"} => NumHolding' = NumHolding + 1
           /\ tpc[t] \in {"cas", "release"} /\ l \notin {"cas", "release"} => NumHolding >= 1 /\ NumHolding' = NumHolding - 1
           /\ (tpc[t] \in {"cas", "release"} <=> l \in {"cas", "release"}) => NumHolding' = NumHolding
           /\ tpc[t] # "bump" /\ l = "bump" => NumNumbering' = NumNumbering + 1
           /\ tpc[t] = "bump" /\ l # "bump" => NumNumbering >= 1 /\ NumNumbering' = NumNumbering - 1
           /\ tpc[t] # "bump" /\ l # "bump" => NumNumbering' = NumNumbering
<1>1. /\ Holding \in SUBSET Threads /\ Holding' \in SUBSET Threads
      /\ Numbering \in SUBSET Threads /\ Numbering' \in SUBSET Threads
  BY DEF Holding, Numbering
<1>2. NumHolding \in Nat /\ NumHolding' \in Nat /\ NumNumbering \in Nat /\ NumNumbering' \in Nat
  BY <1>1, SizeIsNat DEF NumHolding, NumNumbering
<1>3. ASSUME tpc[t] \notin {"cas", "release"}, l \in {"cas", "release"} PROVE NumHolding' = NumHolding + 1
  <2>1. Holding' = Holding \union {t} /\ t \notin Holding
    BY <1>3 DEF Holding
  <2> QED BY <1>1, <2>1, OneMore DEF NumHolding
<1>4. ASSUME tpc[t] \in {"cas", "release"}, l \notin {"cas", "release"} 
      PROVE  NumHolding >= 1 /\ NumHolding' = NumHolding - 1
  <2>1. Holding' = Holding \ {t} /\ t \in Holding
    BY <1>4 DEF Holding
  <2> QED BY <1>1, <2>1, OneLess DEF NumHolding
<1>5. ASSUME tpc[t] \in {"cas", "release"} <=> l \in {"cas", "release"} PROVE NumHolding' = NumHolding
  <2>1. Holding' = Holding
    BY <1>5 DEF Holding
  <2> QED BY <2>1 DEF NumHolding
<1>6. ASSUME tpc[t] # "bump", l = "bump" PROVE NumNumbering' = NumNumbering + 1
  <2>1. Numbering' = Numbering \union {t} /\ t \notin Numbering
    BY <1>6 DEF Numbering
  <2> QED BY <1>1, <2>1, OneMore DEF NumNumbering
<1>7. ASSUME tpc[t] = "bump", l # "bump" PROVE NumNumbering >= 1 /\ NumNumbering' = NumNumbering - 1
  <2>1. Numbering' = Numbering \ {t} /\ t \in Numbering
    BY <1>7 DEF Numbering
  <2> QED BY <1>1, <2>1, OneLess DEF NumNumbering
<1>8. ASSUME tpc[t] # "bump", l # "bump" PROVE NumNumbering' = NumNumbering
  <2>1. Numbering' = Numbering
    BY <1>8 DEF Numbering
  <2> QED BY <2>1 DEF NumNumbering
<1> QED BY <1>2, <1>3, <1>4, <1>5, <1>6, <1>7, <1>8

\* A thread that takes a handle in hand, ...
LEMMA TakesHandle ==
    ASSUME tpc \in [Threads -> PubLabels], NEW t \in Threads, NEW l \in {"cas", "release"},
           tpc' = [tpc EXCEPT ![t] = l], tpc[t] \notin {"cas", "release", "bump"}
    PROVE  /\ NumHolding \in Nat /\ NumHolding' = NumHolding + 1 /\ NumNumbering' = NumNumbering
           /\ tpc' \in [Threads -> PubLabels]
<1>1. tpc[t] # "bump" /\ l # "bump" /\ tpc[t] \notin {"cas", "release"} /\ l \in PubLabels
  BY DEF PubLabels
<1>2. NumHolding \in Nat /\ NumHolding' = NumHolding + 1
  BY <1>1, CountsMove
<1>3. NumNumbering' = NumNumbering
  BY <1>1, CountsMove
<1> QED BY <1>1, <1>2, <1>3

\* ... one that lets go of it, ...
LEMMA LeavesHandle ==
    ASSUME tpc \in [Threads -> PubLabels], NEW t \in Threads, NEW l \in {"reload", "idle"},
           tpc' = [tpc EXCEPT ![t] = l], tpc[t] \in {"cas", "release"}
    PROVE  /\ NumHolding \in Nat /\ NumHolding >= 1 /\ NumHolding' = NumHolding - 1 /\ NumNumbering' = NumNumbering
           /\ tpc' \in [Threads -> PubLabels]
<1>1. tpc[t] # "bump" /\ l # "bump" /\ l \notin {"cas", "release"} /\ l \in PubLabels
  BY DEF PubLabels
<1>2. NumHolding \in Nat /\ NumHolding >= 1 /\ NumHolding' = NumHolding - 1
  BY <1>1, CountsMove
<1>3. NumNumbering' = NumNumbering
  BY <1>1, CountsMove
<1> QED BY <1>1, <1>2, <1>3

\* ... one that writes a sample, ...
LEMMA WritesSample ==
    ASSUME tpc \in [Threads -> PubLabels], NEW t \in Threads,
           tpc' = [tpc EXCEPT ![t] = "bump"], tpc[t] = "write"
    PROVE  /\ NumNumbering \in Nat /\ NumNumbering' = NumNumbering + 1 /\ NumHolding' = NumHolding
           /\ tpc' \in [Threads -> PubLabels]
<1>1. "bump" \notin {"cas", "release"} /\ tpc[t] \notin {"cas", "release"} /\ tpc[t] # "bump"
  OBVIOUS
<1>2. NumNumbering \in Nat /\ NumNumbering' = NumNumbering + 1
  BY <1>1, CountsMove
<1>3. NumHolding' = NumHolding
  BY <1>1, CountsMove
<1> QED BY <1>2, <1>3 DEF PubLabels

\* ... and one that numbers it.
LEMMA NumbersSample ==
    ASSUME tpc \in [Threads -> PubLabels], NEW t \in Threads,
           tpc' = [tpc EXCEPT ![t] = "lock"], tpc[t] = "bump"
    PROVE  /\ NumNumbering \in Nat /\ NumNumbering >= 1 /\ NumNumbering' = NumNumbering - 1 /\ NumHolding' = NumHolding
           /\ tpc' \in [Threads -> PubLabels]
<1>1. "lock" \notin {"cas", "release"} /\ tpc[t] \notin {"cas", "release"} /\ "lock" # "bump"
  OBVIOUS
<1>2. NumNumbering \in Nat /\ NumNumbering >= 1 /\ NumNumbering' = NumNumbering - 1
  BY <1>1, CountsMove
<1>3. NumHolding' = NumHolding
  BY <1>1, CountsMove
<1> QED BY <1>2, <1>3 DEF PubLabels

-----------------------------------------------------------------------------
(* The handles, and the age of what is delivered *)

\* One handle belongs to the Publication and one to each thread that holds it;
\* a sample is written before it is numbered.
PubInv ==
    /\ tpc \in [Threads -> PubLabels]
    /\ handle \in BOOLEAN
    /\ adverts \in Nat /\ writes \in Nat /\ seq \in Nat
    /\ handle => adverts = 1 + NumHolding
    /\ ~handle => adverts = NumHolding
    /\ writes = seq + NumNumbering

\* A thread's step keeps PubInv if it gives the counts what it takes from them.
LEMMA PubInvMove ==
    ASSUME PubInv, NEW t \in Threads, NEW l \in PubLabels, tpc' = [tpc EXCEPT ![t] = l]
    PROVE  /\ tpc[t] \notin {"cas", "release", "bump"} /\ l \notin {"cas", "release", "bump"}
              => NumHolding' = NumHolding /\ NumNumbering' = NumNumbering
           /\ NumHolding \in Nat /\ NumHolding' \in Nat
           /\ NumNumbering \in Nat /\ NumNumbering' \in Nat
           /\ tpc' \in [Threads -> PubLabels]
<1>1. tpc \in [Threads -> PubLabels]
  BY DEF PubInv
<1> QED BY <1>1, CountsMove

\* Every step keeps PubInv: whoever gives a handle up has it, and whoever
\* numbers a sample has written it.
LEMMA PubInvStep == PubInv /\ [Next]_vars => PubInv'
<1> SUFFICES ASSUME PubInv, [Next]_vars PROVE PubInv'
  OBVIOUS
<1>0. tpc \in [Threads -> PubLabels] /\ handle \in BOOLEAN /\ adverts \in Nat /\ writes \in Nat /\ seq \in Nat
  BY DEF PubInv
<1>1. ASSUME UNCHANGED <<tpc, handle, adverts, writes, seq>> PROVE PubInv'
  <2>1. NumHolding' = NumHolding /\ NumNumbering' = NumNumbering
    BY <1>1 DEF NumHolding, Holding, NumNumbering, Numbering
  <2> QED BY <1>1, <2>1 DEF PubInv
<1>2. ASSUME NEW t \in Threads, NEW l \in PubLabels, tpc' = [tpc EXCEPT ![t] = l],
             tpc[t] \notin {"cas", "release", "bump"}, l \notin {"cas", "release", "bump"},
             UNCHANGED <<handle, adverts, writes, seq>>
      PROVE  PubInv'
  <2>1. NumHolding' = NumHolding /\ NumNumbering' = NumNumbering /\ tpc' \in [Threads -> PubLabels]
    BY <1>2, PubInvMove
  <2> QED BY <1>2, <2>1 DEF PubInv
<1>3. ASSUME NEW t \in Threads, \E m \in Methods : Begin(t, m) PROVE PubInv'
  BY <1>2, <1>3 DEF Begin, PubLabels, topicVars
<1>4. ASSUME NEW t \in Threads, Unadvertise(t) PROVE PubInv'
  <2>1. CASE handle
    <3>1. /\ tpc' = [tpc EXCEPT ![t] = "release"] /\ tpc[t] = "idle"
          /\ handle' = FALSE /\ UNCHANGED <<adverts, writes, seq>>
      BY <1>4, <2>1 DEF Unadvertise, Goto, topicVars
    <3>2. /\ NumHolding \in Nat /\ NumHolding' = NumHolding + 1 /\ NumNumbering' = NumNumbering
          /\ tpc' \in [Threads -> PubLabels]
      BY <1>0, <3>1, TakesHandle
    <3>3. adverts' = NumHolding'
      BY <2>1, <3>1, <3>2 DEF PubInv
    <3> QED BY <1>0, <3>1, <3>2, <3>3 DEF PubInv
  <2>2. CASE ~handle
    <3>1. tpc' = [tpc EXCEPT ![t] = "idle"] /\ tpc[t] = "idle" /\ UNCHANGED <<handle, adverts, writes, seq>>
      BY <1>0, <1>4, <2>2 DEF Unadvertise, Goto, topicVars
    <3> QED BY <1>2, <3>1 DEF PubLabels
  <2> QED BY <2>1, <2>2
<1>5. ASSUME NEW t \in Threads, EnsureLoad(t) \/ PublishLoad(t) PROVE PubInv'
  <2>1. \E l \in {"reload", "idle", "write", "null"} : tpc' = [tpc EXCEPT ![t] = l]
    BY <1>5 DEF EnsureLoad, PublishLoad, AfterEnsure, Goto, Enter
  <2>2. tpc[t] \in {"ensure", "reload"} /\ UNCHANGED <<handle, adverts, writes, seq>>
    BY <1>5 DEF EnsureLoad, PublishLoad, topicVars
  <2> QED BY <1>2, <2>1, <2>2 DEF PubLabels
<1>6. ASSUME NEW t \in Threads, EnsureCas(t) PROVE PubInv'
  <2>0. tpc[t] = "cas" /\ handle' = TRUE /\ UNCHANGED <<adverts, writes, seq>>
    BY <1>6 DEF EnsureCas, topicVars
  <2>1. CASE handle
    <3>1. tpc' = [tpc EXCEPT ![t] = "release"]
      BY <1>6, <2>1 DEF EnsureCas, Goto
    <3>2. Holding' = Holding /\ Numbering' = Numbering
      BY <1>0, <2>0, <3>1 DEF Holding, Numbering
    <3>3. NumHolding' = NumHolding /\ NumNumbering' = NumNumbering /\ tpc' \in [Threads -> PubLabels]
      BY <1>0, <3>1, <3>2 DEF NumHolding, NumNumbering, PubLabels
    <3> QED BY <2>0, <2>1, <3>2, <3>3 DEF PubInv
  <2>2. CASE ~handle
    <3>1. \E l \in {"reload", "idle"} : tpc' = [tpc EXCEPT ![t] = l]
      BY <1>6, <2>2 DEF EnsureCas, AfterEnsure, Goto
    <3>2. /\ NumHolding \in Nat /\ NumHolding >= 1 /\ NumHolding' = NumHolding - 1 /\ NumNumbering' = NumNumbering
          /\ tpc' \in [Threads -> PubLabels]
      BY <1>0, <2>0, <3>1, LeavesHandle
    <3>3. adverts' = 1 + NumHolding'
      BY <2>0, <2>2, <3>2 DEF PubInv
    <3> QED BY <2>0, <3>2, <3>3 DEF PubInv
  <2> QED BY <2>1, <2>2
<1>7. ASSUME NEW t \in Threads, Release(t) PROVE PubInv'
  <2>0. tpc[t] = "release" /\ adverts' = adverts - 1 /\ UNCHANGED <<handle, writes, seq>>
    BY <1>7 DEF Release, topicVars
  <2>1. \E l \in {"reload", "idle"} : tpc' = [tpc EXCEPT ![t] = l]
    BY <1>7 DEF Release, AfterEnsure, Goto
  <2>2. /\ NumHolding \in Nat /\ NumHolding >= 1 /\ NumHolding' = NumHolding - 1 /\ NumNumbering' = NumNumbering
        /\ tpc' \in [Threads -> PubLabels]
    BY <1>0, <2>0, <2>1, LeavesHandle
  <2>3. CASE handle
    <3>1. adverts = 1 + NumHolding
      BY <2>3 DEF PubInv
    <3>2. adverts' = 1 + NumHolding' /\ adverts' \in Nat
      BY <2>0, <2>2, <3>1
    <3> QED BY <2>0, <2>2, <2>3, <3>2 DEF PubInv
  <2>4. CASE ~handle
    <3>1. adverts = NumHolding
      BY <2>4 DEF PubInv
    <3>2. adverts' = NumHolding' /\ adverts' \in Nat
      BY <2>0, <2>2, <3>1
    <3> QED BY <2>0, <2>2, <2>4, <3>2 DEF PubInv
  <2> QED BY <2>3, <2>4
<1>8. ASSUME NEW t \in Threads, WriteData(t) PROVE PubInv'
  <2>1. /\ tpc[t] = "write" /\ tpc' = [tpc EXCEPT ![t] = "bump"] /\ writes' = writes + 1
        /\ UNCHANGED <<handle, adverts, seq>>
    BY <1>8 DEF WriteData, Copied, Goto
  <2>2. /\ NumNumbering \in Nat /\ NumNumbering' = NumNumbering + 1 /\ NumHolding' = NumHolding
        /\ tpc' \in [Threads -> PubLabels]
    BY <1>0, <2>1, WritesSample
  <2>3. writes' = seq' + NumNumbering' /\ writes' \in Nat
    BY <1>0, <2>1, <2>2 DEF PubInv
  <2> QED BY <2>1, <2>2, <2>3 DEF PubInv
<1>9. ASSUME NEW t \in Threads, BumpSeq(t) PROVE PubInv'
  <2>1. /\ tpc[t] = "bump" /\ tpc' = [tpc EXCEPT ![t] = "lock"] /\ seq' = seq + 1
        /\ UNCHANGED <<handle, adverts, writes>>
    BY <1>9 DEF BumpSeq, Goto
  <2>2. /\ NumNumbering \in Nat /\ NumNumbering >= 1 /\ NumNumbering' = NumNumbering - 1 /\ NumHolding' = NumHolding
        /\ tpc' \in [Threads -> PubLabels]
    BY <1>0, <2>1, NumbersSample
  <2>3. writes' = seq' + NumNumbering' /\ seq' \in Nat
    BY <1>0, <2>1, <2>2 DEF PubInv
  <2> QED BY <2>1, <2>2, <2>3 DEF PubInv
<1>10. ASSUME NEW t \in Threads, NotifyLock(t) \/ NotifyCall(t) PROVE PubInv'
  <2>1. \E l \in {"dispatch", "unlock"} : tpc' = [tpc EXCEPT ![t] = l]
    BY <1>10 DEF NotifyLock, NotifyCall, Goto
  <2>2. tpc[t] \in {"lock", "dispatch"} /\ UNCHANGED <<handle, adverts, writes, seq>>
    BY <1>10 DEF NotifyLock, NotifyCall, topicVars
  <2> QED BY <1>2, <2>1, <2>2 DEF PubLabels
<1>11. ASSUME NEW t \in Threads, NotifyUnlock(t) PROVE PubInv'
  <2>0. tpc[t] = "unlock" /\ UNCHANGED <<handle, writes, seq>>
    BY <1>11 DEF NotifyUnlock
  <2>1. CASE call[t].ffi = "advertise"
    <3>1. tpc' = [tpc EXCEPT ![t] = "cas"] /\ adverts' = adverts + 1
      BY <1>11, <2>1 DEF NotifyUnlock, Goto
    <3>2. /\ NumHolding \in Nat /\ NumHolding' = NumHolding + 1 /\ NumNumbering' = NumNumbering
          /\ tpc' \in [Threads -> PubLabels]
      BY <1>0, <2>0, <3>1, TakesHandle
    <3>3. CASE handle
      BY <2>0, <3>1, <3>2, <3>3 DEF PubInv
    <3>4. CASE ~handle
      BY <2>0, <3>1, <3>2, <3>4 DEF PubInv
    <3> QED BY <3>3, <3>4
  <2>2. CASE call[t].ffi # "advertise"
    <3>1. tpc' = [tpc EXCEPT ![t] = "idle"] /\ UNCHANGED adverts
      BY <1>11, <2>2 DEF NotifyUnlock, Goto
    <3> QED BY <1>2, <2>0, <3>1 DEF PubLabels
  <2> QED BY <2>1, <2>2
<1>12. ASSUME NEW p \in Procs, WakerStep(p) PROVE PubInv'
  BY <1>1, <1>12 DEF WakerStep, topicVars, pubVars
<1>13. CASE SubStep
  <2>1. UNCHANGED <<tpc, handle, adverts, writes, seq>>
    BY <1>13 DEF SubStep, RecvPollBegin, EnsureRegistered, UpdateSeq, UpdateCopy, RecvReturn,
       MissedCount, RecvRegister, RegisterWaker, RecvPollEnd, DropSubscription, SubDelete, TaskEnd,
       topicVars, pubVars
  <2> QED BY <1>1, <2>1
<1>14. CASE UNCHANGED vars
  BY <1>1, <1>14 DEF vars, topicVars, pubVars
<1> QED BY <1>3, <1>4, <1>5, <1>6, <1>7, <1>8, <1>9, <1>10, <1>11, <1>12, <1>13, <1>14
        DEF Next, PubCall, PubStep

\* Nobody has a handle or a sample initially.
LEMMA PubInvInit == Init => PubInv
<1> SUFFICES ASSUME Init PROVE PubInv
  OBVIOUS
<1>1. Holding = {} /\ Numbering = {}
  BY DEF Init, Holding, Numbering
<1>2. NumHolding = 0 /\ NumNumbering = 0
  BY <1>1, FS_EmptySet DEF NumHolding, NumNumbering
<1>3. tpc \in [Threads -> PubLabels] /\ handle = FALSE
  BY DEF Init, PubLabels
<1>4. adverts = 0 /\ writes = 0 /\ seq = 0
  BY DEF Init
<1>5. writes = seq + NumNumbering /\ adverts = NumHolding /\ {adverts, writes, seq} \subseteq Nat
  BY <1>2, <1>4
<1> QED BY <1>3, <1>5, Zenon DEF PubInv

\* PubInv in every state of the mock broker.
LEMMA PubInvHolds == Spec => []PubInv
BY PubInvInit, PubInvStep, PTL DEF Spec

\* The counts of PubInv are those of AdvertsBalanced.
LEMMA PubInvBalances == PubInv => AdvertsBalanced
<1> SUFFICES ASSUME PubInv PROVE AdvertsBalanced
  OBVIOUS
<1>1. CASE handle
  <2>1. adverts = 1 + NumHolding
    BY <1>1 DEF PubInv
  <2> QED BY <1>1, <2>1 DEF AdvertsBalanced, NumHolding, Holding
<1>2. CASE ~handle
  <2>1. adverts = 0 + NumHolding
    <3>1. adverts = NumHolding /\ adverts \in Nat
      BY <1>2 DEF PubInv
    <3> QED BY <3>1
  <2> QED BY <1>2, <2>1 DEF AdvertsBalanced, NumHolding, Holding
<1> QED BY <1>1, <1>2

\* Handles are neither leaked nor given up twice, however many threads race to
\* advertise and whenever they unadvertise.
THEOREM AdvertsBalance == Spec => []AdvertsBalanced
BY PubInvBalances, PubInvHolds, PTL

\* There are at least as many samples as numbers.
LEMMA WrittenFirst == PubInv => seq <= writes /\ (seq < writes => Numbering # {})
<1> SUFFICES ASSUME PubInv PROVE seq <= writes /\ (seq < writes => Numbering # {})
  OBVIOUS
<1>1. NumNumbering \in Nat
  <2>1. Numbering \in SUBSET Threads
    BY DEF Numbering
  <2> QED BY <2>1, SizeIsNat DEF NumNumbering
<1>2. Numbering = {} => NumNumbering = 0
  BY FS_EmptySet DEF NumNumbering
<1>3. writes = seq + NumNumbering /\ seq \in Nat
  BY DEF PubInv
<1> QED BY <1>1, <1>2, <1>3

\* What the subscriber got last is no older than the number it has recorded.
FreshInv == newest \in Nat /\ NeverStale

\* Every step keeps it: the number is read before the sample, and a sample is
\* written before it is numbered.
LEMMA FreshInvStep == CopyInv /\ PubInv /\ FreshInv /\ [Next]_vars => FreshInv'
<1> SUFFICES ASSUME CopyInv, PubInv, FreshInv, [Next]_vars PROVE FreshInv'
  OBVIOUS
<1> USE DEF FreshInv, NeverStale
<1>1. CASE UNCHANGED <<newest, lastSeen>>
  BY <1>1
<1>2. CASE UpdateCopy
  <2>1. newest' = writes /\ lastSeen' = cur /\ cur <= seq
    BY <1>2 DEF UpdateCopy, CopyInv
  <2>2. seq <= writes /\ seq \in Nat /\ writes \in Nat /\ cur \in Nat
    BY WrittenFirst DEF PubInv, CopyInv
  <2> QED BY <2>1, <2>2
<1>3. ASSUME NEW t \in Threads, PubCall(t) \/ PubStep(t) PROVE UNCHANGED subVars
  BY <1>3 DEF PubCall, Begin, Unadvertise, PubStep, EnsureLoad, EnsureCas, Release, PublishLoad,
     WriteData, BumpSeq, NotifyLock, NotifyCall, NotifyUnlock
<1>4. ASSUME NEW p \in Procs, WakerStep(p) PROVE UNCHANGED subVars
  BY <1>4 DEF WakerStep
<1>5. CASE SubStep /\ ~UpdateCopy
  BY <1>1, <1>5 DEF SubStep, RecvPollBegin, EnsureRegistered, UpdateSeq, RecvReturn,
     MissedCount, RecvRegister, RegisterWaker, RecvPollEnd, DropSubscription, SubDelete, TaskEnd,
     subVars, cbVars
<1>6. CASE UNCHANGED subVars
  BY <1>1, <1>6 DEF subVars, cbVars
<1> QED BY <1>2, <1>3, <1>4, <1>5, <1>6 DEF Next, vars

\* Nothing has been recorded initially.
LEMMA FreshInvInit == Init => FreshInv
BY DEF Init, FreshInv, NeverStale

\* FreshInv in every state of the mock broker.
LEMMA FreshInvHolds == Spec => []FreshInv
BY FreshInvInit, FreshInvStep, AccountsHold, PubInvHolds, PTL DEF Spec

\* The subscriber never has an older sample than its number says, although
\* sub_cb_update reads number and sample under different locks (ffi.rs:359).
THEOREM SamplesNeverStale == Spec => []NeverStale
BY FreshInvHolds, PTL DEF FreshInv

-----------------------------------------------------------------------------
(* The Subscription's waker *)

\* The theorems about AtomicWaker, for the one inside the Subscription.
WP == INSTANCE AtomicWakerProofs WITH Wakers <- {Sub}, state <- wstate, pc <- wpc

USE DEF W!REGISTERING, W!WAKING, W!WAITING, WP!REGISTERING, WP!WAKING, WP!WAITING

\* The rest of a register or a wake is the same in both instances.
LEMMA SameContinue == \A p : W!Continue(p) <=> WP!Continue(p)
BY DEF W!Continue, WP!Continue, W!RegisterStore, W!RegisterRelease, W!RegisterDrain,
   W!RegisterUnlock, W!WakeTake, W!WakeClear, W!Goto, W!Hold,
   WP!RegisterStore, WP!RegisterRelease, WP!RegisterDrain,
   WP!RegisterUnlock, WP!WakeTake, WP!WakeClear, WP!Goto, WP!Hold

\* sub.rs and the broker only use the waker as AtomicWaker allows.
LEMMA WakerUsed == [Next]_vars => [WP!Next]_(WP!vars)
<1> SUFFICES ASSUME [Next]_vars PROVE [WP!Next]_(WP!vars)
  OBVIOUS
<1> USE DEF Procs
<1>1. CASE UNCHANGED wakerVars
  BY <1>1 DEF wakerVars, WP!vars
<1>2. ASSUME NEW t \in Threads, NotifyCall(t) PROVE WP!Next
  BY <1>2 DEF NotifyCall, W!WakeBegin, W!Goto, WP!WakeBegin, WP!Goto, WP!Next
<1>3. ASSUME NEW t \in Threads, PubCall(t) \/ PubStep(t), ~NotifyCall(t) PROVE UNCHANGED wakerVars
  BY <1>3 DEF PubCall, Begin, Unadvertise, PubStep, EnsureLoad, EnsureCas, Release, PublishLoad,
     WriteData, BumpSeq, NotifyLock, NotifyUnlock
<1>4. ASSUME NEW p \in Procs, WakerStep(p) PROVE WP!Next
  <2>1. CASE W!Continue(p)
    BY <2>1, SameContinue DEF WP!Next
  <2>2. CASE W!Invoke(p)
    BY <2>2 DEF WP!Next, W!Invoke, WP!Invoke, W!Goto, W!Hold, WP!Goto, WP!Hold
  <2> QED BY <1>4, <2>1, <2>2 DEF WakerStep
<1>5. ASSUME W!Register(Sub, Sub) PROVE [WP!Next]_(WP!vars)
  BY <1>5 DEF W!Register, W!RegisterClaim, W!RegisterDuringWake, W!RegisterRaced, W!vars,
     W!Goto, W!Hold, WP!Goto, WP!Hold,
     WP!Register, WP!RegisterClaim, WP!RegisterDuringWake, WP!RegisterRaced, WP!vars, WP!Next
<1>6. CASE RecvRegister \/ RegisterWaker
  BY <1>5, <1>6 DEF RecvRegister, RegisterWaker
<1>7. CASE SubStep /\ ~RecvRegister /\ ~RegisterWaker
  BY <1>1, <1>7 DEF SubStep, RecvPollBegin, EnsureRegistered, UpdateSeq, UpdateCopy, RecvReturn,
     MissedCount, RecvPollEnd, DropSubscription, SubDelete, TaskEnd
<1> QED BY <1>1, <1>2, <1>3, <1>4, <1>6, <1>7 DEF Next, vars

\* The waker has no owner initially.
LEMMA OwnerInit == Init => WP!OwnerInv
BY UorbAssumption DEF Init, W!Init, WP!OwnerInv, WP!TypeOK, WP!OneOwner, WP!OwnersBits, WP!BitsOwner,
   WP!Registering, WP!Taking, WP!Labels, WP!RegisterLabels, WP!TakeLabels

\* The waker's owner is who AtomicWakerProofs says, in every state.
LEMMA OwnerHolds == Spec => []WP!OwnerInv
<1>0. None \notin {Sub}
  BY UorbAssumption
<1>2. WP!OwnerInv /\ [Next]_vars => WP!OwnerInv'
  BY <1>0, WP!OwnerInvStep, WakerUsed
<1> QED BY <1>2, OwnerInit, PTL DEF Spec

\* The variables that LockInv and PubInv do not type.
Typed ==
    /\ lock \in Threads \union {None}
    /\ registered \in BOOLEAN /\ retry \in BOOLEAN
    /\ data \in Messages /\ written \subseteq Messages /\ seen \subseteq Messages
    /\ call \in [Threads -> CallType]
    /\ calls \in 0..MaxCalls
    /\ T!TypeOK
    /\ spc \in SubLabels

\* What stands for no message is typed as one.
LEMMA NoMessageTyped == NoMessage \in Messages
BY UorbAssumption DEF NoMessage, Messages

\* Every step keeps their types.
LEMMA TypedStep == Typed /\ [Next]_vars => Typed'
<1> SUFFICES ASSUME Typed, [Next]_vars PROVE Typed'
  OBVIOUS
<1>1. MaxCalls \in Nat
  BY UorbAssumption
<1> USE DEF Typed, T!TypeOK, taskVars
<1>2. CASE UNCHANGED vars
  BY <1>2 DEF vars, topicVars, pubVars, subVars, cbVars
<1>3. ASSUME NEW t \in Threads, PubCall(t) PROVE Typed'
  <2>1. CASE Unadvertise(t)
    BY <1>1, <2>1, NoMessageTyped DEF Unadvertise, Goto, NoCall, CallType, topicVars, subVars, cbVars
  <2>2. ASSUME NEW m \in Methods, Begin(t, m) PROVE Typed'
    <3>1. calls + 1 \in 0..MaxCalls
      BY <1>1, <2>2 DEF Begin
    <3>2. PICK k \in 0..MaxCalls : call' = [call EXCEPT ![t] = [method |-> m, ffi |-> "none", id |-> <<t, k>>]]
      BY <2>2 DEF Begin
    <3>3. call' \in [Threads -> CallType]
      BY <3>2 DEF CallType, Messages
    <3> QED BY <2>2, <3>1, <3>3 DEF Begin, topicVars, subVars, cbVars
  <2> QED BY <1>3, <2>1, <2>2 DEF PubCall
<1>4. ASSUME NEW t \in Threads, PubStep(t) PROVE Typed'
  <2>1. call' \in {call, [call EXCEPT ![t] = NoCall], [call EXCEPT ![t].ffi = "advertise"],
                   [call EXCEPT ![t].ffi = "publish"]}
    BY <1>4 DEF PubStep, EnsureLoad, EnsureCas, Release, PublishLoad, WriteData, BumpSeq, NotifyLock,
       NotifyCall, NotifyUnlock, Goto, Enter
  <2>2. call' \in [Threads -> CallType]
    BY <1>1, <2>1, NoMessageTyped DEF NoCall, CallType
  <2>3. UNCHANGED <<registered, calls, taskVars, subVars>> /\ lock' \in {lock, t, None}
    BY <1>4 DEF PubStep, EnsureLoad, EnsureCas, Release, PublishLoad, WriteData, BumpSeq, NotifyLock,
       NotifyCall, NotifyUnlock, topicVars
  <2>4. \/ UNCHANGED <<data, written>>
        \/ data' = call[t].id /\ written' = written \union {call[t].id}
    BY <1>4 DEF PubStep, EnsureLoad, EnsureCas, Release, PublishLoad, WriteData, Copied, BumpSeq, NotifyLock,
       NotifyCall, NotifyUnlock, topicVars
  <2>5. call[t].id \in Messages
    BY DEF CallType
  <2> QED BY <2>2, <2>3, <2>4, <2>5 DEF subVars, cbVars
<1>5. ASSUME NEW p \in Procs, WakerStep(p) PROVE Typed'
  BY <1>5 DEF WakerStep, T!Wake, topicVars, pubVars, subVars, cbVars
<1>6. CASE RecvPollBegin \/ RecvPollEnd \/ TaskEnd
  BY <1>6 DEF RecvPollBegin, RecvPollEnd, TaskEnd, T!BeginPoll, T!PollPending, T!PollReady, SubLabels,
     topicVars, pubVars, cbVars
<1>7. CASE EnsureRegistered \/ UpdateSeq \/ UpdateCopy \/ RecvReturn \/ MissedCount
  BY <1>7 DEF EnsureRegistered, UpdateSeq, UpdateCopy, RecvReturn, MissedCount, SubLabels,
     topicVars, pubVars, subVars, cbVars
<1>8. CASE RecvRegister \/ RegisterWaker \/ DropSubscription \/ SubDelete
  BY <1>8 DEF RecvRegister, RegisterWaker, DropSubscription, SubDelete, SubLabels,
     topicVars, pubVars, cbVars
<1> QED BY <1>2, <1>3, <1>4, <1>5, <1>6, <1>7, <1>8 DEF Next, SubStep

\* What the invariants type, together.
LEMMA AllTyped ==
    ASSUME {cur, lastSeen, lost, missed, got} \subseteq Nat, PubInv, FreshInv, WP!OwnerInv, Typed
    PROVE  TypeOK
<1>1. {writes, seq, adverts, cur, lastSeen, lost, missed, got, newest} \subseteq Nat
  BY DEF PubInv, FreshInv
<1>2. W!TypeOK
  BY DEF WP!OwnerInv, WP!TypeOK, W!TypeOK, WP!Labels, WP!RegisterLabels, WP!TakeLabels,
     W!Labels, W!RegisterLabels, W!TakeLabels
<1>3. {registered, handle, retry} \subseteq BOOLEAN /\ tpc \in [Threads -> PubLabels]
  BY DEF PubInv, Typed
<1> QED BY <1>1, <1>2, <1>3 DEF Typed, TypeOK

\* The variables have their types initially.
LEMMA TypedInit == Init => Typed
<1> SUFFICES ASSUME Init PROVE Typed
  OBVIOUS
<1>1. T!TypeOK
  BY DEF Init, T!TypeOK
<1>2. calls \in 0..MaxCalls
  BY UorbAssumption DEF Init
<1>3. call \in [Threads -> CallType]
  BY NoMessageTyped DEF Init, NoCall, CallType
<1>4. data \in Messages /\ written \subseteq Messages /\ seen \subseteq Messages
  BY NoMessageTyped DEF Init
<1> QED BY <1>1, <1>2, <1>3, <1>4 DEF Init, Typed, SubLabels

\* Typed in every state of the mock broker.
LEMMA TypedHolds == Spec => []Typed
BY TypedInit, TypedStep, PTL DEF Spec

\* The variables of the broker, the Publication and the Subscription keep their
\* types; in particular no count of the broker or the subscriber gets below 0.
THEOREM UorbTypeCorrect == Spec => []TypeOK
<1>1. CopyInv /\ PubInv /\ FreshInv /\ WP!OwnerInv /\ Typed => TypeOK
  BY AllTyped DEF CopyInv
<1> QED BY <1>1, AccountsHold, PubInvHolds, FreshInvHolds, OwnerHolds, TypedHolds, PTL

-----------------------------------------------------------------------------
(* What missed_count() tells *)

\* What is received was written, every message was written at least once, and
\* each was received no more often than recv() returned.
MessagesInv ==
    /\ seen \subseteq written
    /\ writes > 0 => data \in written
    /\ Cardinality(written) <= writes
    /\ Cardinality(seen) <= got

\* A set of messages that gains one.
LEMMA OneMessageMore ==
    ASSUME NEW S, S \subseteq Messages, NEW m \in Messages
    PROVE  /\ IsFiniteSet(S) /\ Cardinality(S) \in Nat
           /\ Cardinality(S \union {m}) \in Nat /\ Cardinality(S \union {m}) <= Cardinality(S) + 1
<1>1. IsFiniteSet(Messages)
  <2>1. IsFiniteSet(Threads \union {None}) /\ IsFiniteSet(0..MaxCalls)
    BY UorbAssumption, FS_AddElement, FS_Interval
  <2> QED BY <2>1, FS_Product DEF Messages
<1>2. IsFiniteSet(S)
  BY <1>1, FS_Subset
<1>3. Cardinality(S) \in Nat
  BY <1>2, FS_CardinalityType
<1>4. Cardinality(S \union {m}) = Cardinality(S) \/ Cardinality(S \union {m}) = Cardinality(S) + 1
  BY <1>2, FS_AddElement
<1> QED BY <1>2, <1>3, <1>4

\* Every step keeps it: a sample is numbered after it was written, so there is
\* one in the buffer when sub_cb_update copies it.
LEMMA MessagesStep ==
    ASSUME CopyInv, PubInv, Typed, MessagesInv, [Next]_vars
    PROVE  MessagesInv'
<1>0. call \in [Threads -> CallType] /\ data \in Messages /\ {writes, got, seq, cur} \subseteq Nat
  BY DEF Typed, PubInv, CopyInv
<1>1. CASE UNCHANGED <<data, writes, written, got, seen>>
  BY <1>1 DEF MessagesInv
<1>2. ASSUME NEW t \in Threads, WriteData(t) PROVE MessagesInv'
  <2> DEFINE id == call[t].id
  <2>1. data' = id /\ writes' = writes + 1 /\ written' = written \union {id} /\ UNCHANGED <<got, seen>>
    BY <1>2 DEF WriteData, Copied, subVars, cbVars
  <2>2. id \in Messages
    BY <1>0 DEF CallType
  <2> HIDE DEF id
  <2>3. Cardinality(written') <= Cardinality(written) + 1 /\ {Cardinality(written), Cardinality(written')} \subseteq Nat
    BY <2>1, <2>2, OneMessageMore DEF Typed
  <2> QED BY <1>0, <2>1, <2>3 DEF MessagesInv
<1>3. CASE UpdateCopy
  <2>1. seen' = seen \union {data} /\ got' = got + 1 /\ UNCHANGED <<data, writes, written>>
    BY <1>3 DEF UpdateCopy, topicVars
  <2>2. writes > 0
    <3>1. cur > 0 /\ cur <= seq
      BY <1>3 DEF UpdateCopy, CopyInv
    <3> QED BY <1>0, <3>1, WrittenFirst
  <2>3. Cardinality(seen') <= Cardinality(seen) + 1 /\ {Cardinality(seen), Cardinality(seen')} \subseteq Nat
    BY <1>0, <2>1, OneMessageMore DEF Typed
  <2> QED BY <1>0, <2>1, <2>2, <2>3 DEF MessagesInv
<1>4. ASSUME NEW t \in Threads, PubCall(t) \/ PubStep(t), ~WriteData(t)
      PROVE  UNCHANGED <<data, writes, written, got, seen>>
  BY <1>4 DEF PubCall, Begin, Unadvertise, PubStep, EnsureLoad, EnsureCas, Release, PublishLoad,
     BumpSeq, NotifyLock, NotifyCall, NotifyUnlock, topicVars, subVars, cbVars
<1>5. ASSUME NEW p \in Procs, WakerStep(p) PROVE UNCHANGED <<data, writes, written, got, seen>>
  BY <1>5 DEF WakerStep, topicVars, subVars, cbVars
<1>6. CASE SubStep /\ ~UpdateCopy
  BY <1>1, <1>6 DEF SubStep, RecvPollBegin, EnsureRegistered, UpdateSeq, RecvReturn, MissedCount, RecvRegister,
     RegisterWaker, RecvPollEnd, DropSubscription, SubDelete, TaskEnd, topicVars, subVars, cbVars
<1>7. CASE UNCHANGED vars
  BY <1>1, <1>7 DEF vars, topicVars, subVars, cbVars
<1> QED BY <1>1, <1>2, <1>3, <1>4, <1>5, <1>6, <1>7 DEF Next

\* missed_count() exceeds the messages never received by the second copies of
\* messages at most, and hides none, once the subscriber has caught up, but for
\* as many as were received twice: the numbers it has passed are those of its
\* deliveries and losses, and there are no more of them than copies.
THEOREM MissedCountBounded == Spec => []MissedCountBounds
<1>1. Init => MessagesInv
  BY FS_EmptySet DEF Init, MessagesInv
<1>2. CopyInv /\ PubInv /\ Typed /\ MessagesInv => MissedCountBounds
  <2> SUFFICES ASSUME CopyInv, PubInv, Typed, MessagesInv PROVE MissedCountBounds
    OBVIOUS
  <2> DEFINE nw == Cardinality(written)
             ns == Cardinality(seen)
             never == Cardinality(written \ seen)
  <2>1. IsFiniteSet(written) /\ written \intersect seen = seen /\ nw \in Nat /\ ns \in Nat
    <3>1. data \in Messages /\ written \subseteq Messages /\ seen \subseteq Messages
      BY DEF Typed
    <3> QED BY <3>1, OneMessageMore DEF MessagesInv
  <2>2. never = nw - ns
    BY <2>1, FS_Difference
  <2>3. lastSeen = got + lost + missed /\ lastSeen <= writes /\ nw <= writes /\ ns <= got
    BY WrittenFirst DEF CopyInv, PubInv, MessagesInv
  <2>4. {got, lost, missed, writes, lastSeen} \subseteq Nat
    BY DEF CopyInv, PubInv
  <2> HIDE DEF nw, ns, never
  <2>5. lost + missed <= never + (writes - nw)
    BY <2>1, <2>2, <2>3, <2>4
  <2>6. lastSeen = writes => never <= lost + missed + (got - ns)
    BY <2>1, <2>2, <2>3, <2>4
  <2> QED BY <2>5, <2>6 DEF MissedCountBounds, nw, ns, never
<1> QED BY <1>1, <1>2, MessagesStep, AccountsHold, PubInvHolds, TypedHolds, PTL DEF Spec

-----------------------------------------------------------------------------
(* No sample is slept over *)

\* The subscriber only registers, the publishers only wake, one call at a time;
\* a subscriber that waits has its callback in the list.
Roles ==
    /\ spc # "gone" => live[Sub]
    /\ wpc[Sub] \in {"idle", "invoke", "store", "release", "drain", "unlock"}
    /\ wpc[Sub] # "idle" => spc = "try" /\ retry
    /\ \A t \in Threads : wpc[t] \in {"idle", "invoke", "take", "clear"}
    /\ spc \in {"copy", "got", "register", "pending"} => registered
    /\ spc = "try" /\ retry => registered
    /\ spc = "parked" /\ ~registered => owed[Sub]

\* Where the task's waker is during register and wake.
WakerPlace ==
    /\ wpc[Sub] \in {"store", "unlock"} => held[Sub] = Sub
    /\ wpc[Sub] \in {"release", "drain"} => slot = Sub
    /\ \A p \in Procs : wpc[p] = "invoke" => held[p] = Sub
    /\ \A t \in Threads : wpc[t] = "clear" => slot = None

\* The waker is stored, taken by a publisher that will call it, or was called.
Armed ==
    \/ slot = Sub
    \/ owed[Sub]
    \/ \E t \in Threads : wpc[t] \in {"clear", "invoke"} /\ held[t] = Sub

\* A subscriber that looks again after its registration, or waits, is armed.
SubArmed == (spc = "try" /\ retry /\ wpc[Sub] = "idle") \/ spc \in {"pending", "parked"} => Armed

\* A publisher that has yet to come to the waker, or is at it.
InFlight == \E t \in Threads : tpc[t] \in {"bump", "lock", "dispatch"} \/ wpc[t] # "idle"

\* NoLostSample from the last look at the sequence number on.
SampleSeen == spc \in {"pending", "parked"} /\ ~owed[Sub] /\ newest < writes => InFlight

WakeInv == Roles /\ WakerPlace /\ SubArmed /\ SampleSeen

\* What the other invariants say that the waker's proof needs.
Basis ==
    /\ tpc \in [Threads -> PubLabels]
    /\ wpc \in [Procs -> {"idle", "invoke", "store", "release", "drain", "unlock", "take", "clear"}]
    /\ held \in [Procs -> {Sub, None}]
    /\ slot \in {Sub, None}
    /\ live \in [{Sub} -> BOOLEAN] /\ owed \in [{Sub} -> BOOLEAN]
    /\ \A t \in Threads : wpc[t] # "idle" => tpc[t] = "unlock"
    /\ \A p, q \in Procs :
         wpc[p] \in {"store", "release", "drain", "unlock", "take", "clear"}
         /\ wpc[q] \in {"store", "release", "drain", "unlock", "take", "clear"} => p = q
    /\ wstate # {} => \E p \in Procs : wpc[p] \in {"store", "release", "drain", "unlock", "take", "clear"}
    /\ "REGISTERING" \in wstate => \E p \in Procs : wpc[p] \in {"store", "release", "drain", "unlock"}
    /\ Sub \notin Threads /\ None \notin Threads /\ None # Sub
    /\ Procs = Threads \union {Sub}

\* The basis follows from the rules of the lock and of the waker.
LEMMA BasisHolds == LockInv /\ WP!OwnerInv /\ Typed => Basis
<1> SUFFICES ASSUME LockInv, WP!OwnerInv, Typed PROVE Basis
  OBVIOUS
<1>1. Sub \notin Threads /\ None \notin Threads /\ None # Sub
  BY UorbAssumption
<1>2. wstate # {} => \E p \in Procs : wpc[p] \in {"store", "release", "drain", "unlock", "take", "clear"}
  BY <1>1, WP!BusyHasOwner DEF WP!Registering, WP!Taking, WP!RegisterLabels, WP!TakeLabels
<1>3. \A p, q \in Procs :
         wpc[p] \in {"store", "release", "drain", "unlock", "take", "clear"}
         /\ wpc[q] \in {"store", "release", "drain", "unlock", "take", "clear"} => p = q
  BY DEF WP!OwnerInv, WP!OneOwner, WP!Registering, WP!Taking, WP!RegisterLabels, WP!TakeLabels
<1>4. "REGISTERING" \in wstate => \E p \in Procs : wpc[p] \in {"store", "release", "drain", "unlock"}
  BY DEF WP!OwnerInv, WP!BitsOwner, WP!Registering, WP!RegisterLabels
<1>5. held \in [Procs -> {Sub, None}] /\ slot \in {Sub, None}
  BY DEF WP!OwnerInv, WP!TypeOK
<1>6. live \in [{Sub} -> BOOLEAN] /\ owed \in [{Sub} -> BOOLEAN]
  BY DEF Typed, T!TypeOK
<1> QED BY <1>1, <1>2, <1>3, <1>4, <1>5, <1>6 DEF Basis, LockInv, Procs

\* Every step keeps WakeInv.
LEMMA WakeInvStep ==
    ASSUME Basis, PubInv, FreshInv, lastSeen \in Nat, WakeInv, [Next]_vars
    PROVE  WakeInv'
<1> USE DEF Basis, WakeInv, Roles, WakerPlace, SubArmed, Armed, SampleSeen, InFlight, PubLabels
<1>1. CASE UNCHANGED vars
  BY <1>1 DEF vars, topicVars, pubVars, wakerVars, taskVars, subVars, cbVars
<1>2. ASSUME NEW t \in Threads, PubCall(t) PROVE WakeInv'
  BY <1>2 DEF PubCall, Begin, Unadvertise, Goto, topicVars, wakerVars, taskVars, subVars, cbVars
<1>3. ASSUME NEW t \in Threads, EnsureLoad(t) \/ EnsureCas(t) \/ Release(t) \/ PublishLoad(t) PROVE WakeInv'
  BY <1>3 DEF EnsureLoad, EnsureCas, Release, PublishLoad, AfterEnsure, Goto, Enter,
     topicVars, wakerVars, taskVars, subVars, cbVars
<1>4. ASSUME NEW t \in Threads, WriteData(t) \/ BumpSeq(t) PROVE WakeInv'
  BY <1>4 DEF WriteData, BumpSeq, Goto, wakerVars, taskVars, subVars, cbVars
<1>5. ASSUME NEW t \in Threads, NotifyLock(t) PROVE WakeInv'
  BY <1>5 DEF NotifyLock, Goto, wakerVars, taskVars, subVars, cbVars
<1>6. ASSUME NEW t \in Threads, NotifyCall(t) PROVE WakeInv'
  <2>0. UNCHANGED <<topicVars, taskVars, subVars, slot, held>>
    BY <1>6 DEF NotifyCall, W!WakeBegin
  <2>1. /\ tpc' = [tpc EXCEPT ![t] = "unlock"] /\ wpc[t] = "idle"
        /\ wpc' = [wpc EXCEPT ![t] = IF wstate = {} THEN "take" ELSE "idle"]
    BY <1>6 DEF NotifyCall, W!WakeBegin, W!Goto, Goto
  <2>2. Roles' /\ WakerPlace' /\ SubArmed'
    BY <2>0, <2>1 DEF topicVars, taskVars, subVars
  <2>3. SampleSeen'
    BY <2>0, <2>1 DEF topicVars, taskVars, subVars, cbVars
  <2> QED BY <2>2, <2>3
<1>7. ASSUME NEW t \in Threads, NotifyUnlock(t) PROVE WakeInv'
  BY <1>7 DEF NotifyUnlock, Goto, wakerVars, taskVars, subVars, cbVars
<1>8. ASSUME NEW p \in Procs, WakerStep(p) PROVE WakeInv'
  <2> USE DEF W!Goto, W!Hold, taskVars, topicVars, pubVars, subVars, cbVars
  <2>0. UNCHANGED <<topicVars, pubVars, subVars>>
    BY <1>8 DEF WakerStep
  <2>1. CASE W!RegisterStore(p) /\ UNCHANGED taskVars
    BY <2>0, <2>1 DEF W!RegisterStore
  <2>2. CASE W!RegisterRelease(p) /\ UNCHANGED taskVars
    <3>1. p = Sub
      BY <2>2 DEF W!RegisterRelease
    <3>2. CASE wpc' = [wpc EXCEPT ![p] = "idle"] /\ held' = [held EXCEPT ![p] = None] /\ slot' = slot
      BY <2>0, <2>2, <3>1, <3>2 DEF W!RegisterRelease
    <3>3. CASE wpc' = [wpc EXCEPT ![p] = "drain"] /\ UNCHANGED <<held, slot>>
      BY <2>0, <2>2, <3>1, <3>3 DEF W!RegisterRelease
    <3> QED BY <2>2, <3>2, <3>3 DEF W!RegisterRelease
  <2>3. CASE W!RegisterDrain(p) /\ UNCHANGED taskVars
    BY <2>0, <2>3 DEF W!RegisterDrain
  <2>4. CASE W!RegisterUnlock(p) /\ UNCHANGED taskVars
    BY <2>0, <2>4 DEF W!RegisterUnlock
  <2>5. CASE W!WakeTake(p) /\ UNCHANGED taskVars
    BY <2>0, <2>5 DEF W!WakeTake
  <2>6. CASE W!WakeClear(p) /\ UNCHANGED taskVars
    BY <2>0, <2>6 DEF W!WakeClear
  <2>7. CASE W!Invoke(p) /\ T!Wake(held[p])
    BY <2>0, <2>7 DEF W!Invoke, T!Wake
  <2> QED BY <1>8, <2>1, <2>2, <2>3, <2>4, <2>5, <2>6, <2>7 DEF WakerStep, W!Continue
<1>9. CASE RecvPollBegin \/ RecvPollEnd \/ TaskEnd
  BY <1>9 DEF RecvPollBegin, RecvPollEnd, TaskEnd, T!BeginPoll, T!PollPending, T!PollReady,
     topicVars, pubVars, wakerVars, cbVars
<1>10. CASE UpdateSeq
  <2>1. spc' = "pending" => seq <= lastSeen
    BY <1>10 DEF UpdateSeq, PubInv
  <2>2. spc' = "pending" /\ newest < writes => \E t \in Threads : tpc[t] = "bump"
    <3>1. newest >= lastSeen /\ {newest, lastSeen, seq, writes} \subseteq Nat
      BY DEF FreshInv, NeverStale, PubInv
    <3>2. spc' = "pending" /\ newest < writes => Numbering # {}
      BY <2>1, <3>1, WrittenFirst
    <3> QED BY <3>2 DEF Numbering
  <2>3. Roles' /\ WakerPlace' /\ SubArmed'
    BY <1>10 DEF UpdateSeq, topicVars, pubVars, wakerVars, taskVars, cbVars
  <2>4. SampleSeen'
    BY <1>10, <2>2 DEF UpdateSeq, topicVars, pubVars, wakerVars, taskVars, cbVars
  <2> QED BY <2>3, <2>4
<1>11. CASE EnsureRegistered \/ UpdateCopy \/ RecvReturn \/ MissedCount
  BY <1>11 DEF EnsureRegistered, UpdateCopy, RecvReturn, MissedCount,
     topicVars, pubVars, wakerVars, taskVars, subVars, cbVars
<1>12. CASE RecvRegister \/ RegisterWaker
  <2>1. /\ W!Register(Sub, Sub) /\ spc' = "try" /\ retry' = TRUE /\ registered
        /\ UNCHANGED <<topicVars, pubVars, taskVars, cbVars>>
    BY <1>12 DEF RecvRegister, RegisterWaker
  <2>2. live[Sub]
    BY <1>12 DEF RecvRegister, RegisterWaker
  <2> QED BY <2>1, <2>2 DEF W!Register, W!RegisterClaim, W!RegisterDuringWake, W!RegisterRaced,
      W!Goto, W!Hold, W!vars, topicVars, pubVars, taskVars
<1>13. CASE DropSubscription \/ SubDelete
  BY <1>13 DEF DropSubscription, SubDelete, topicVars, pubVars, wakerVars, taskVars, cbVars
<1> QED BY <1>1, <1>2, <1>3, <1>4, <1>5, <1>6, <1>7, <1>8, <1>9, <1>10, <1>11, <1>12, <1>13
        DEF Next, PubStep, SubStep

\* In the initial state the first poll of the task is owed.
LEMMA WakeInvInit == Init => WakeInv
BY UorbAssumption DEF Init, W!Init, WakeInv, Roles, WakerPlace, SubArmed, Armed, SampleSeen, Procs

\* No sample is slept over, however the publishers' writes, numbers and wakes
\* interleave with the registration and the two looks of recv() (sub.rs:162).
THEOREM LosesNoSample == Spec => []NoLostSample
<1>1. CopyInv /\ PubInv /\ FreshInv /\ LockInv /\ WP!OwnerInv /\ Typed /\ WakeInv /\ [Next]_vars => WakeInv'
  BY WakeInvStep, BasisHolds DEF CopyInv
<1>2. WakeInv => NoLostSample
  BY DEF WakeInv, SampleSeen, InFlight, NoLostSample
<1> QED BY <1>1, <1>2, WakeInvInit, AccountsHold, PubInvHolds, FreshInvHolds, LockInvHolds,
           OwnerHolds, TypedHolds, PTL DEF Spec

-----------------------------------------------------------------------------
(* The two brokers: Shim *)

\* From the registration on the counter keeps step with the generation, and
\* what has been counted covers what the counter was at the last update.
CountInv ==
    /\ {seq, lastGen, base, publishCount, lastPubsAtUpdate, lostAccum, delivered, reported} \subseteq Nat
    /\ lastGen <= seq
    /\ lastPubsAtUpdate <= publishCount
    /\ lastPubsAtUpdate <= delivered + lostAccum + reported
    /\ registered => cb /\ seq = base + publishCount
    /\ ~registered /\ spc # "over" /\ spc # "gone" => publishCount = 0
    /\ registered /\ spc # "copy" => lastGen <= base + lastPubsAtUpdate
    /\ spc = "copy" => registered

-----------------------------------------------------------------------------
(* The counters of the C++ object *)

\* Every step on PX4 keeps them: the counter is read after the copy, so it is at
\* least the number of publications up to the sample copied, and what an update
\* adds to deliveries and losses is at least what the counter rose.
LEMMA CountInvStep == px4 /\ CountInv /\ [ShimNext]_allVars => CountInv'
<1> SUFFICES ASSUME px4, CountInv, [ShimNext]_allVars PROVE CountInv'
  OBVIOUS
<1> USE DEF CountInv
<1>1. CASE UNCHANGED allVars
  BY <1>1 DEF allVars, vars, topicVars, subVars, shimVars, countVars
<1>2. ASSUME NEW t \in Threads, NodePublish(t) PROVE CountInv'
  BY <1>2 DEF NodePublish, subVars
<1>3. CASE SubCbNew
  BY <1>3 DEF SubCbNew, vars, topicVars, subVars, countVars
<1>4. CASE SubCbRegister
  BY <1>4 DEF SubCbRegister, EnsureRegistered, subVars, countVars
<1>5. CASE Update
  BY <1>5 DEF Update, topicVars, countVars
<1>6. CASE TrackLost
  BY <1>6 DEF TrackLost, topicVars, cbVars
<1>7. CASE LostTake
  BY <1>7 DEF LostTake, vars, topicVars, subVars
<1>8. CASE SubCbDelete
  BY <1>8 DEF SubCbDelete, SubDelete, countVars
<1>9. CASE Shared
  <2> USE DEF shimVars, countVars, topicVars
  <2>1. ASSUME NEW t \in Threads, NotifyCall(t) \/ NotifyUnlock(t), UNCHANGED shimVars PROVE CountInv'
    BY <2>1 DEF NotifyCall, NotifyUnlock, subVars
  <2>2. ASSUME NEW p \in Procs, WakerStep(p), UNCHANGED shimVars PROVE CountInv'
    BY <2>2 DEF WakerStep, subVars
  <2>3. ASSUME RecvPollBegin \/ RecvReturn \/ RecvRegister \/ RegisterWaker, UNCHANGED shimVars
        PROVE  CountInv'
    BY <2>3 DEF RecvPollBegin, RecvReturn, RecvRegister, RegisterWaker
  <2>4. ASSUME RecvPollEnd \/ DropSubscription \/ TaskEnd, UNCHANGED shimVars PROVE CountInv'
    BY <2>4 DEF RecvPollEnd, DropSubscription, TaskEnd
  <2> QED BY <1>9, <2>1, <2>2, <2>3, <2>4 DEF Shared
<1> QED BY <1>1, <1>2, <1>3, <1>4, <1>5, <1>6, <1>7, <1>8, <1>9 DEF ShimNext, Px4Step

\* On the host the C++ object does not exist; on PX4 the mock's counters rest.
Counters ==
    /\ px4 \in BOOLEAN /\ cb \in BOOLEAN
    /\ {lastGen, base, publishCount, lastPubsAtUpdate, lostAccum, delivered, reported} \subseteq Nat
    /\ px4 => CountInv

\* Every step keeps the counters.
LEMMA CountersStep == Counters /\ [ShimNext]_allVars => Counters'
<1> SUFFICES ASSUME Counters, [ShimNext]_allVars PROVE Counters'
  OBVIOUS
<1>1. px4' = px4
  BY DEF ShimNext, allVars
<1>2. CASE px4
  <2>1. CountInv'
    BY <1>2, CountInvStep DEF Counters
  <2>2. cb' \in BOOLEAN
    BY <1>2 DEF Counters, ShimNext, Px4Step, Shared, NodePublish, SubCbNew, SubCbRegister, Update,
       TrackLost, LostTake, SubCbDelete, shimVars, allVars
  <2> QED BY <1>1, <2>1, <2>2 DEF Counters, CountInv
<1>3. CASE ~px4
  <2>1. UNCHANGED shimVars
    BY <1>3 DEF ShimNext, allVars
  <2> QED BY <1>1, <1>3, <2>1 DEF Counters, shimVars, countVars
<1> QED BY <1>2, <1>3

\* The counters are right in every state.
LEMMA CountersHold == ShimSpec => []Counters
<1>1. ShimInit => Counters
  <2> SUFFICES ASSUME ShimInit PROVE Counters
    OBVIOUS
  <2>1. CountInv
    BY DEF ShimInit, Init, CountInv
  <2> QED BY <2>1 DEF ShimInit, Counters, CountInv
<1> QED BY <1>1, CountersStep, PTL DEF ShimSpec

\* missed_count() hides no loss on PX4, whatever is published between the copy
\* and the read of the counter.
THEOREM CountsEveryLoss == ShimSpec => []NeverUndercounts
<1>1. Counters => NeverUndercounts
  BY DEF Counters, CountInv, NeverUndercounts
<1> QED BY <1>1, CountersHold, PTL

-----------------------------------------------------------------------------
(* The invariants of UorbProofs on both brokers *)

\* The steps of PX4 that are none of Uorb.
Px4Only == (\E t \in Threads : NodePublish(t)) \/ Update \/ TrackLost

\* Every other step of the shim is a step of Uorb or changes nothing of it.
LEMMA ShimCases ==
    ASSUME [ShimNext]_allVars
    PROVE  px4' = px4 /\ ([Next]_vars \/ (px4 /\ Px4Only))
<1>1. px4' = px4
  BY DEF ShimNext, allVars
<1>2. CASE SubCbNew \/ LostTake
  BY <1>1, <1>2 DEF SubCbNew, LostTake
<1>3. CASE SubCbRegister \/ SubCbDelete
  BY <1>1, <1>3 DEF SubCbRegister, SubCbDelete, Next, SubStep
<1>4. CASE Shared
  BY <1>1, <1>4 DEF Shared, Next, PubStep, SubStep
<1> QED BY <1>1, <1>2, <1>3, <1>4 DEF ShimNext, Px4Step, Px4Only, allVars

\* On the host the accounts of UorbProofs; on PX4 the mock's numbers rest.
Accounts ==
    /\ px4 \in BOOLEAN
    /\ ~px4 => CopyInv
    /\ px4 => cur = 0 /\ lastSeen = 0 /\ lost = 0 /\ missed = 0 /\ got = 0

\* Every step keeps the accounts.
LEMMA AccountsShimStep == Accounts /\ [ShimNext]_allVars => Accounts'
<1> SUFFICES ASSUME Accounts, [ShimNext]_allVars PROVE Accounts'
  OBVIOUS
<1>1. px4' = px4
  BY ShimCases
<1>2. CASE ~px4
  <2>1. [Next]_vars
    BY <1>2, ShimCases
  <2> QED BY <1>1, <1>2, <2>1, AccountsStep DEF Accounts
<1>3. CASE px4
  <2>1. CASE UNCHANGED vars
    BY <1>1, <1>3, <2>1 DEF Accounts, vars, subVars, cbVars
  <2>2. ASSUME NEW t \in Threads, NodePublish(t) \/ NotifyCall(t) \/ NotifyUnlock(t) PROVE UNCHANGED <<cur, lastSeen, lost, missed, got>>
    BY <2>2 DEF NodePublish, NotifyCall, NotifyUnlock, subVars, cbVars
  <2>3. ASSUME NEW p \in Procs, WakerStep(p) PROVE UNCHANGED <<cur, lastSeen, lost, missed, got>>
    BY <2>3 DEF WakerStep, subVars, cbVars
  <2>4. ASSUME SubCbNew \/ SubCbRegister \/ Update \/ TrackLost \/ LostTake \/ SubCbDelete
        PROVE  UNCHANGED <<cur, lastSeen, lost, missed, got>>
    BY <2>4 DEF SubCbNew, SubCbRegister, EnsureRegistered, Update, TrackLost, LostTake, SubCbDelete,
       SubDelete, vars, subVars, cbVars
  <2>5. ASSUME RecvPollBegin \/ RecvReturn \/ RecvRegister \/ RegisterWaker \/ RecvPollEnd
               \/ DropSubscription \/ TaskEnd
        PROVE  UNCHANGED <<cur, lastSeen, lost, missed, got>>
    BY <2>5 DEF RecvPollBegin, RecvReturn, RecvRegister, RegisterWaker, RecvPollEnd, DropSubscription,
       TaskEnd, cbVars
  <2>6. UNCHANGED vars \/ UNCHANGED <<cur, lastSeen, lost, missed, got>>
    BY <1>3, <2>2, <2>3, <2>4, <2>5 DEF ShimNext, Px4Step, Shared, allVars
  <2> QED BY <1>1, <1>3, <2>1, <2>6 DEF Accounts
<1> QED BY <1>2, <1>3

\* The node writes a sample and numbers it in one step, and no thread has a
\* handle in hand meanwhile.
LEMMA PubInvShimStep == PubInv /\ [ShimNext]_allVars => PubInv'
<1> SUFFICES ASSUME PubInv, [ShimNext]_allVars PROVE PubInv'
  OBVIOUS
<1>1. CASE [Next]_vars
  BY <1>1, PubInvStep
<1>2. ASSUME NEW t \in Threads, NodePublish(t) PROVE PubInv'
  <2>1. /\ tpc[t] = "idle" /\ writes' = writes + 1 /\ seq' = seq + 1 /\ UNCHANGED <<handle, adverts>>
        /\ \E l \in {"dispatch", "unlock"} : tpc' = [tpc EXCEPT ![t] = l]
    BY <1>2 DEF NodePublish
  <2>2. /\ NumHolding' = NumHolding /\ NumNumbering' = NumNumbering /\ NumNumbering \in Nat
        /\ tpc' \in [Threads -> PubLabels]
    BY <2>1, PubInvMove DEF PubLabels
  <2>3. writes' = seq' + NumNumbering' /\ writes' \in Nat /\ seq' \in Nat
    BY <2>1, <2>2 DEF PubInv
  <2> QED BY <2>1, <2>2, <2>3 DEF PubInv
<1>3. CASE Update \/ TrackLost
  <2>1. UNCHANGED <<tpc, handle, adverts, writes, seq>>
    BY <1>3 DEF Update, TrackLost, topicVars, pubVars
  <2>2. NumHolding' = NumHolding /\ NumNumbering' = NumNumbering
    BY <2>1 DEF NumHolding, Holding, NumNumbering, Numbering
  <2> QED BY <2>1, <2>2 DEF PubInv
<1> QED BY <1>1, <1>2, <1>3, ShimCases DEF Px4Only

\* The node holds its lock from the write to the last callback, as notify holds
\* the list's.
LEMMA LockInvShimStep == LockInv /\ [ShimNext]_allVars => LockInv'
<1> SUFFICES ASSUME LockInv, [ShimNext]_allVars PROVE LockInv'
  OBVIOUS
<1>1. CASE [Next]_vars
  BY <1>1, LockInvStep
<1>2. ASSUME NEW t \in Threads, NodePublish(t) PROVE LockInv'
  BY <1>2, UorbAssumption DEF NodePublish, LockInv, PubLabels, wakerVars, subVars
<1>3. CASE Update \/ TrackLost
  BY <1>3 DEF Update, TrackLost, LockInv, topicVars, pubVars, wakerVars
<1> QED BY <1>1, <1>2, <1>3, ShimCases DEF Px4Only

\* The three steps leave the waker alone.
LEMMA OwnerShimStep == WP!OwnerInv /\ [ShimNext]_allVars => WP!OwnerInv'
<1> SUFFICES ASSUME WP!OwnerInv, [ShimNext]_allVars PROVE WP!OwnerInv'
  OBVIOUS
<1>1. None \notin {Sub}
  BY UorbAssumption
<1>2. CASE Px4Only
  BY <1>1, <1>2, WP!OwnerInvStep DEF Px4Only, NodePublish, Update, TrackLost, wakerVars, WP!vars
<1> QED BY <1>1, <1>2, ShimCases, WP!OwnerInvStep, WakerUsed

\* Every step keeps the types that the other invariants do not give.
LEMMA TypedShimStep == Typed /\ [ShimNext]_allVars => Typed'
<1> SUFFICES ASSUME Typed, [ShimNext]_allVars PROVE Typed'
  OBVIOUS
<1>1. CASE [Next]_vars
  BY <1>1, TypedStep
<1>2. ASSUME NEW t \in Threads, NodePublish(t) PROVE Typed'
  <2>1. calls' \in 0..MaxCalls
    BY <1>2, UorbAssumption DEF NodePublish, Typed
  <2>2. call' \in [Threads -> CallType]
    BY <1>2, NoMessageTyped DEF NodePublish, Typed, Methods, CallType
  <2> QED BY <1>2, <2>1, <2>2 DEF NodePublish, Typed, T!TypeOK, taskVars, subVars, cbVars
<1>3. CASE Update \/ TrackLost
  BY <1>3 DEF Update, TrackLost, Typed, T!TypeOK, SubLabels, topicVars, pubVars, taskVars, cbVars
<1> QED BY <1>1, <1>2, <1>3, ShimCases DEF Px4Only

\* The subscriber has got the sample of the generation its Subscription copied
\* last, or there is a newer one: a new Subscription starts one short.
GenInv == px4 => newest >= lastGen \/ lastGen < seq

\* What the subscriber got last is no older than its number and its generation.
LEMMA FreshShimStep ==
    ASSUME Accounts, Counters, PubInv, FreshInv, GenInv, [ShimNext]_allVars
    PROVE  FreshInv' /\ GenInv'
<1>0. px4' = px4 /\ px4 \in BOOLEAN /\ seq \in Nat /\ writes \in Nat /\ newest \in Nat
  BY ShimCases DEF Accounts, PubInv, FreshInv
<1>1. CASE ~px4
  <2>1. [Next]_vars
    BY <1>1, ShimCases
  <2> QED BY <1>0, <1>1, <2>1, FreshInvStep DEF Accounts, GenInv
<1>2. CASE px4
  <2>1. lastSeen' = 0
    BY <1>0, <1>2, AccountsShimStep DEF Accounts
  <2>2. lastGen \in Nat /\ lastGen <= seq /\ seq <= writes
    BY <1>2, WrittenFirst DEF Counters, CountInv
  <2>3. /\ newest' \in Nat
        /\ newest' >= lastGen' \/ lastGen' < seq'
    <3> USE <1>0, <1>2, <2>2 DEF GenInv
    <3>1. CASE UNCHANGED <<newest, lastGen, seq>>
      BY <3>1
    <3>2. ASSUME NEW t \in Threads, NodePublish(t) PROVE newest' = newest /\ lastGen' = lastGen /\ seq' = seq + 1
      BY <3>2 DEF NodePublish, subVars, cbVars
    <3>3. CASE SubCbNew
      BY <3>3 DEF SubCbNew, vars, topicVars, subVars, cbVars
    <3>4. CASE Update
      BY <3>4 DEF Update, topicVars
    <3>5. CASE SubCbRegister \/ TrackLost \/ LostTake \/ SubCbDelete
      BY <3>1, <3>5 DEF SubCbRegister, EnsureRegistered, TrackLost, LostTake, SubCbDelete, SubDelete,
         vars, topicVars, subVars, cbVars
    <3>6. CASE Shared
      <4>1. UNCHANGED lastGen
        BY <3>6 DEF Shared, shimVars
      <4>2. ASSUME NEW t \in Threads, NotifyCall(t) \/ NotifyUnlock(t) PROVE UNCHANGED <<newest, seq>>
        BY <4>2 DEF NotifyCall, NotifyUnlock, topicVars, subVars, cbVars
      <4>3. ASSUME NEW p \in Procs, WakerStep(p) PROVE UNCHANGED <<newest, seq>>
        BY <4>3 DEF WakerStep, topicVars, subVars, cbVars
      <4>4. ASSUME RecvPollBegin \/ RecvReturn \/ RecvRegister \/ RegisterWaker \/ RecvPollEnd
                   \/ DropSubscription \/ TaskEnd
            PROVE  UNCHANGED <<newest, seq>>
        BY <4>4 DEF RecvPollBegin, RecvReturn, RecvRegister, RegisterWaker, RecvPollEnd, DropSubscription,
           TaskEnd, topicVars, cbVars
      <4>5. UNCHANGED <<newest, seq>>
        BY <3>6, <4>2, <4>3, <4>4 DEF Shared
      <4> QED BY <3>1, <4>1, <4>5
    <3>7. CASE UNCHANGED allVars
      BY <3>1, <3>7 DEF allVars, vars, topicVars, subVars, cbVars, shimVars
    <3> QED BY <3>2, <3>3, <3>4, <3>5, <3>6, <3>7 DEF ShimNext, Px4Step
  <2> QED BY <1>0, <2>1, <2>3 DEF FreshInv, NeverStale, GenInv
<1> QED BY <1>0, <1>1, <1>2

\* Every step keeps WakeInv: a publication puts its thread in flight, and an
\* update that finds nothing new has got the node's sample.
LEMMA WakeInvShimStep ==
    ASSUME Basis, Accounts, Counters, PubInv, FreshInv, GenInv, WakeInv, [ShimNext]_allVars
    PROVE  WakeInv'
<1>1. CASE [Next]_vars
  <2>1. lastSeen \in Nat
    BY DEF Accounts, CopyInv
  <2> QED BY <1>1, <2>1, WakeInvStep
<1> USE DEF Basis, WakeInv, Roles, WakerPlace, SubArmed, Armed, SampleSeen, InFlight, PubLabels
<1>2. ASSUME NEW t \in Threads, NodePublish(t) PROVE WakeInv'
  <2>0. UNCHANGED <<registered, wakerVars, taskVars, subVars>>
    BY <1>2 DEF NodePublish
  <2>1. tpc[t] = "idle" /\ tpc' = [tpc EXCEPT ![t] = IF registered THEN "dispatch" ELSE "unlock"]
    BY <1>2 DEF NodePublish
  <2>2. Roles' /\ WakerPlace' /\ SubArmed'
    BY <2>0, <2>1 DEF wakerVars, taskVars, subVars
  <2>3. SampleSeen'
    BY <2>0, <2>1 DEF wakerVars, taskVars, subVars, cbVars
  <2> QED BY <2>2, <2>3
<1>3. CASE px4 /\ Update
  <2>1. spc' = "pending" => seq = lastGen /\ newest' = newest
    BY <1>3 DEF Update, Counters, CountInv
  <2>2. spc' = "pending" /\ newest < writes => \E t \in Threads : tpc[t] = "bump"
    <3>1. seq = lastGen => newest >= seq
      BY <1>3 DEF Counters, CountInv, GenInv
    <3>2. {newest, seq, writes} \subseteq Nat
      BY DEF FreshInv, PubInv
    <3>3. spc' = "pending" /\ newest < writes => Numbering # {}
      BY <2>1, <3>1, <3>2, WrittenFirst
    <3> QED BY <3>3 DEF Numbering
  <2>3. Roles' /\ WakerPlace' /\ SubArmed'
    BY <1>3 DEF Update, topicVars, pubVars, wakerVars, taskVars
  <2>4. SampleSeen'
    BY <1>3, <2>1, <2>2 DEF Update, topicVars, pubVars, wakerVars, taskVars
  <2> QED BY <2>3, <2>4
<1>4. CASE TrackLost
  BY <1>4 DEF TrackLost, topicVars, pubVars, wakerVars, taskVars, cbVars
<1> QED BY <1>1, <1>2, <1>3, <1>4, ShimCases DEF Px4Only

\* All of them.
ShimInv ==
    /\ Accounts /\ Counters /\ PubInv /\ LockInv /\ WP!OwnerInv /\ Typed
    /\ FreshInv /\ GenInv /\ WakeInv

\* The invariants of UorbProofs hold in every state of both brokers.
LEMMA ShimInvHolds == ShimSpec => []ShimInv
<1>1. ShimInit => Init /\ Accounts /\ GenInv
  BY DEF ShimInit, Init, Accounts, GenInv, CopyInv
<1>2. Init => PubInv /\ LockInv /\ WP!OwnerInv /\ Typed /\ FreshInv /\ WakeInv
  BY PubInvInit, LockInvInit, OwnerInit, TypedInit, FreshInvInit, WakeInvInit
<1>3. Counters /\ ShimInv /\ [ShimNext]_allVars => Accounts' /\ PubInv' /\ LockInv' /\ WP!OwnerInv' /\ Typed'
  BY AccountsShimStep, PubInvShimStep, LockInvShimStep, OwnerShimStep, TypedShimStep DEF ShimInv
<1>4. ShimInv /\ [ShimNext]_allVars => FreshInv' /\ GenInv' /\ WakeInv'
  BY FreshShimStep, WakeInvShimStep, BasisHolds DEF ShimInv
<1> QED BY <1>1, <1>2, <1>3, <1>4, CountersHold, PTL DEF ShimSpec, ShimInv

\* The variables of Uorb and of the C++ object keep their types on both brokers:
\* no counter gets below 0.
THEOREM ShimTypeCorrect == ShimSpec => []ShimTypeOK
<1>1. ShimInv => ShimTypeOK
  <2> SUFFICES ASSUME ShimInv PROVE ShimTypeOK
    OBVIOUS
  <2>1. {cur, lastSeen, lost, missed, got} \subseteq Nat
    BY DEF ShimInv, Accounts, CopyInv
  <2>2. TypeOK
    BY <2>1, AllTyped DEF ShimInv
  <2> QED BY <2>2 DEF ShimInv, Counters, ShimTypeOK
<1> QED BY <1>1, ShimInvHolds, PTL

\* With PX4's node in the place of the mock a callback stays within the lifetime
\* of its Subscription, because the node's lock covers it, and no sample is slept
\* over, because the node writes and wakes under that lock.
THEOREM SameOnPX4 == ShimSpec => [](CallbackInLifetime /\ NoLostSample)
<1>1. LockInv => CallbackInLifetime
  BY DEF LockInv, CallbackInLifetime
<1>2. WakeInv => NoLostSample
  BY DEF WakeInv, SampleSeen, InFlight, NoLostSample
<1> QED BY <1>1, <1>2, ShimInvHolds, PTL DEF ShimInv
=============================================================================
