------------------------- MODULE WorkItemCellProofs -------------------------
(***************************************************************************)
(* Theorems about WorkItemCell, for any number of cells, threads and       *)
(* queues: the executor loses no wake, keeps to Task, and polls only       *)
(* futures that are there.                                                 *)
(*                                                                         *)
(* NoLostWake is not inductive: a wake that finds a null handle gives up   *)
(* (waker.rs:36), so the argument needs that a cell whose RUN_QUEUED bit   *)
(* was ever cleared has a handle.  The handle is stored before the first   *)
(* wi_schedule_now, only a run of a scheduled item clears the bit, and the *)
(* handle is never reset: HandleInv.  That a spawn which fails had the     *)
(* cell to itself follows from the same order: RunInv.                     *)
(***************************************************************************)
EXTENDS WorkItemCell, TLAPS

USE DEF SPAWNED, RUN_QUEUED, Bits

\* Whatever is scheduled, about to be scheduled or running has a handle, and
\* so has a live cell whose RUN_QUEUED bit is clear.
HandleOfLive ==
    \A c \in Cells : SPAWNED \in state[c] /\ RUN_QUEUED \notin state[c] => handle[c]
HandleOfCaller ==
    \A p \in Callers : pc[p] \in {"wake_handle", "schedule"} => handle[arg[p]]
HandleOfQueued ==
    \A q \in Queues : \A i \in 1..Len(queue[q]) : handle[queue[q][i]]
HandleOfRunning ==
    \A q \in Queues : run[q] = "clear" => handle[item[q]]

HandleInv == HandleOfLive /\ HandleOfCaller /\ HandleOfQueued /\ HandleOfRunning

\* The variables keep their types through every action of the executor.
THEOREM TypeCorrect == Spec => []TypeOK
<1> USE ConstantsAssumption DEF TypeOK, CallLabels, SpawnLabels, RunLabels, Slot
<1>1. Init => TypeOK
  <2> DEFINE c0 == CHOOSE c \in Cells : TRUE
  <2>1. c0 \in Cells
    BY CellsAssumption
  <2> HIDE DEF c0
  <2>2. [p \in Callers |-> c0] \in [Callers -> Cells] /\ [q \in Queues |-> c0] \in [Queues -> Cells]
    BY <2>1
  <2>3. Init => arg \in [Callers -> Cells] /\ item \in [Queues -> Cells]
    BY <2>2 DEF Init, c0
  <2>4. <<>> \in Seq(Cells)
    OBVIOUS
  <2>5. Init => queue \in [Queues -> Seq(Cells)]
    BY <2>4 DEF Init
  <2>6. Init => state \in [Cells -> SUBSET Bits] /\ spawns \in [Callers \X Cells -> Nat]
    BY DEF Init
  <2>7. Init => /\ handle \in [Cells -> BOOLEAN] /\ future \in [Cells -> Slot]
                /\ pc \in [Callers -> CallLabels] /\ run \in [Queues -> RunLabels]
                /\ wakerOut \in [Cells -> BOOLEAN]
    BY DEF Init
  <2> QED BY <2>3, <2>5, <2>6, <2>7
<1>2. TypeOK /\ [Next]_vars => TypeOK'
  <2> SUFFICES ASSUME TypeOK, [Next]_vars PROVE TypeOK'
    OBVIOUS
  <2> USE DEF Goto, MayCall, cellVars, callVars, runVars
  <2>1. CASE UNCHANGED vars
    BY <2>1 DEF vars
  <2>2. ASSUME NEW p \in Callers, Call(p) PROVE TypeOK'
    <3> PICK c \in Cells : SpawnClaim(p, c) \/ SpawnBusy(p, c) \/ WakeSetBit(p, c)
      BY <2>2 DEF Call
    <3>0. spawns[<<p, c>>] > 0 => [spawns EXCEPT ![<<p, c>>] = @ - 1] \in [Callers \X Cells -> Nat]
      <4>1. spawns[<<p, c>>] \in Nat
        OBVIOUS
      <4>2. spawns[<<p, c>>] > 0 => spawns[<<p, c>>] - 1 \in Nat
        BY <4>1
      <4> QED BY <4>2
    <3>1. CASE SpawnClaim(p, c)
      <4>1. spawns' \in [Callers \X Cells -> Nat]
        BY <3>0, <3>1 DEF SpawnClaim
      <4>2. /\ state' \in [Cells -> SUBSET Bits] /\ arg' \in [Callers -> Cells]
            /\ pc' \in [Callers -> CallLabels]
        BY <3>1 DEF SpawnClaim
      <4> QED BY <3>1, <4>1, <4>2 DEF SpawnClaim
    <3>2. CASE SpawnBusy(p, c)
      <4>1. spawns' \in [Callers \X Cells -> Nat]
        BY <3>0, <3>2 DEF SpawnBusy
      <4> QED BY <3>2, <4>1 DEF SpawnBusy
    <3>3. CASE WakeSetBit(p, c)
      <4>1. /\ arg' \in [Callers -> Cells]
            /\ pc' \in [Callers -> CallLabels]
        <5>1. CASE SPAWNED \in state[c] /\ RUN_QUEUED \notin state[c]
          <6>1. /\ arg' = [arg EXCEPT ![p] = c]
                /\ pc' = [pc EXCEPT ![p] = "wake_handle"]
            BY <3>3, <5>1 DEF WakeSetBit
          <6> QED BY <6>1
        <5>2. CASE ~(SPAWNED \in state[c] /\ RUN_QUEUED \notin state[c])
          BY <3>3, <5>2 DEF WakeSetBit
        <5> QED BY <5>1, <5>2
      <4>2. state' \in [Cells -> SUBSET Bits]
        <5>1. state[c] \union {RUN_QUEUED} \in SUBSET Bits
          OBVIOUS
        <5> QED BY <3>3, <5>1 DEF WakeSetBit
      <4> QED BY <3>3, <4>1, <4>2 DEF WakeSetBit
    <3> QED BY <3>1, <3>2, <3>3
  <2>3. ASSUME NEW p \in Callers, Continue(p) PROVE TypeOK'
    <3>1. CASE SpawnWrite(p)
      BY <3>1 DEF SpawnWrite
    <3>2. CASE SpawnLoadHandle(p)
      BY <3>2 DEF SpawnLoadHandle
    <3>3. CASE SpawnAlloc(p)
      BY <3>3 DEF SpawnAlloc
    <3>4. CASE SpawnAllocFails(p)
      BY <3>4 DEF SpawnAllocFails
    <3>5. CASE SpawnUndoDrop(p)
      BY <3>5 DEF SpawnUndoDrop
    <3>6. CASE SpawnUndoStore(p)
      BY <3>6 DEF SpawnUndoStore
    <3>7. CASE WakeLoadHandle(p)
      BY <3>7 DEF WakeLoadHandle
    <3>8. CASE ScheduleNow(p)
      <4>1. arg[p] \in Cells /\ QueueOf[arg[p]] \in Queues
        OBVIOUS
      <4>2. Append(queue[QueueOf[arg[p]]], arg[p]) \in Seq(Cells)
        BY <4>1
      <4>3. queue' \in [Queues -> Seq(Cells)]
        BY <3>8, <4>1, <4>2 DEF ScheduleNow
      <4> QED BY <3>8, <4>3 DEF ScheduleNow
    <3> QED BY <2>3, <3>1, <3>2, <3>3, <3>4, <3>5, <3>6, <3>7, <3>8 DEF Continue
  <2>4. ASSUME NEW q \in Queues, Run(q) PROVE TypeOK'
    <3>1. CASE RunRecv(q)
      <4>1. queue[q] \in Seq(Cells) /\ queue[q] # <<>>
        BY <3>1 DEF RunRecv
      <4>2. Head(queue[q]) \in Cells /\ Tail(queue[q]) \in Seq(Cells)
        BY <4>1
      <4> QED BY <3>1, <4>2 DEF RunRecv
    <3>2. CASE RunClearBit(q)
      BY <3>2 DEF RunClearBit
    <3>3. CASE RunPollPending(q)
      BY <3>3 DEF RunPollPending
    <3>4. CASE RunPollReady(q)
      BY <3>4 DEF RunPollReady
    <3>5. CASE RunDropFuture(q)
      BY <3>5 DEF RunDropFuture
    <3>6. CASE RunStoreZero(q)
      BY <3>6 DEF RunStoreZero
    <3> QED BY <2>4, <3>1, <3>2, <3>3, <3>4, <3>5, <3>6 DEF Run
  <2> QED BY <2>1, <2>2, <2>3, <2>4 DEF Next
<1> QED BY <1>1, <1>2, PTL DEF Spec

-----------------------------------------------------------------------------

\* A handle, once stored, stays, whatever step the executor takes.
LEMMA HandleKept ==
    ASSUME TypeOK, [Next]_vars, NEW c \in Cells, handle[c]
    PROVE  handle'[c]
<1> USE DEF cellVars, callVars, runVars
<1>1. CASE UNCHANGED vars
  BY <1>1 DEF vars
<1>2. ASSUME NEW p \in Callers, Call(p) PROVE handle'[c]
  BY <1>2 DEF Call, SpawnClaim, SpawnBusy, WakeSetBit
<1>3. ASSUME NEW p \in Callers, Continue(p) PROVE handle'[c]
  <2>1. CASE SpawnAlloc(p)
    BY <2>1 DEF SpawnAlloc, TypeOK
  <2>2. CASE ~SpawnAlloc(p)
    BY <1>3, <2>2 DEF Continue, SpawnWrite, SpawnLoadHandle, SpawnAllocFails,
       SpawnUndoDrop, SpawnUndoStore, WakeLoadHandle, ScheduleNow
  <2> QED BY <2>1, <2>2
<1>4. ASSUME NEW q \in Queues, Run(q) PROVE handle'[c]
  BY <1>4 DEF Run, RunRecv, RunClearBit, RunPollPending, RunPollReady,
     RunDropFuture, RunStoreZero
<1> QED BY <1>1, <1>2, <1>3, <1>4 DEF Next

\* Everything that can lead to a run of a cell has the cell's handle.
LEMMA HandleInvStep ==
    ASSUME TypeOK, TypeOK', HandleInv, [Next]_vars
    PROVE  HandleInv'
<1> USE ConstantsAssumption DEF Goto, MayCall, cellVars, callVars, runVars,
        HandleInv, HandleOfLive, HandleOfCaller, HandleOfQueued, HandleOfRunning
<1>0. \A c \in Cells : handle[c] => handle'[c]
  BY HandleKept
<1>t. /\ \A p \in Callers : arg[p] \in Cells
      /\ \A q \in Queues : item[q] \in Cells
      /\ \A q \in Queues : queue[q] \in Seq(Cells)
  BY DEF TypeOK
<1>1. CASE UNCHANGED vars
  BY <1>1 DEF vars
<1>2. ASSUME NEW p \in Callers, Call(p) PROVE HandleInv'
  <2> PICK c \in Cells : SpawnClaim(p, c) \/ SpawnBusy(p, c) \/ WakeSetBit(p, c)
    BY <1>2 DEF Call
  <2>1. CASE SpawnClaim(p, c)
    BY <2>1 DEF SpawnClaim, TypeOK
  <2>2. CASE SpawnBusy(p, c)
    BY <2>2 DEF SpawnBusy
  <2>3. CASE WakeSetBit(p, c)
    <3>1. HandleOfLive'
      BY <2>3 DEF WakeSetBit, TypeOK
    <3>2. HandleOfCaller'
      <4>1. CASE SPAWNED \in state[c] /\ RUN_QUEUED \notin state[c]
        <5>1. handle[c]
          BY <4>1
        <5>2. /\ arg' = [arg EXCEPT ![p] = c] /\ UNCHANGED handle
              /\ pc' = [pc EXCEPT ![p] = "wake_handle"]
          BY <2>3, <4>1 DEF WakeSetBit
        <5> QED BY <5>1, <5>2 DEF TypeOK
      <4>2. CASE ~(SPAWNED \in state[c] /\ RUN_QUEUED \notin state[c])
        BY <2>3, <4>2 DEF WakeSetBit
      <4> QED BY <4>1, <4>2
    <3>3. HandleOfQueued' /\ HandleOfRunning'
      BY <2>3 DEF WakeSetBit
    <3> QED BY <3>1, <3>2, <3>3
  <2> QED BY <2>1, <2>2, <2>3
<1>3. ASSUME NEW p \in Callers, Continue(p) PROVE HandleInv'
  <2>1. CASE SpawnWrite(p)
    BY <2>1 DEF SpawnWrite, TypeOK
  <2>2. CASE SpawnLoadHandle(p)
    BY <2>2 DEF SpawnLoadHandle, TypeOK
  <2>3. CASE SpawnAlloc(p)
    BY <2>3, <1>0, <1>t DEF SpawnAlloc, TypeOK
  <2>4. CASE SpawnAllocFails(p)
    BY <2>4 DEF SpawnAllocFails, TypeOK
  <2>5. CASE SpawnUndoDrop(p)
    BY <2>5 DEF SpawnUndoDrop, TypeOK
  <2>6. CASE SpawnUndoStore(p)
    BY <2>6 DEF SpawnUndoStore, TypeOK
  <2>7. CASE WakeLoadHandle(p)
    BY <2>7 DEF WakeLoadHandle, TypeOK
  <2>8. CASE ScheduleNow(p)
    <3>1. HandleOfLive' /\ HandleOfRunning'
      BY <2>8 DEF ScheduleNow, TypeOK
    <3>2. HandleOfCaller'
      BY <2>8 DEF ScheduleNow, TypeOK
    <3>3. HandleOfQueued'
      <4> DEFINE q == QueueOf[arg[p]]
      <4>1. arg[p] \in Cells /\ q \in Queues /\ queue[q] \in Seq(Cells)
        BY <1>t
      <4>2. handle[arg[p]]
        BY <2>8 DEF ScheduleNow
      <4> HIDE DEF q
      <4>3. \A i \in 1..Len(Append(queue[q], arg[p])) : handle[Append(queue[q], arg[p])[i]]
        BY <4>1, <4>2
      <4>4. CASE queue' = queue
        BY <2>8, <4>4 DEF ScheduleNow
      <4>5. CASE queue' = [queue EXCEPT ![q] = Append(queue[q], arg[p])]
        <5>1. UNCHANGED handle
          BY <2>8 DEF ScheduleNow
        <5>2. \A r \in Queues : queue'[r] = IF r = q THEN Append(queue[q], arg[p]) ELSE queue[r]
          BY <4>1, <4>5 DEF TypeOK
        <5> QED BY <4>3, <5>1, <5>2
      <4> QED BY <2>8, <4>4, <4>5 DEF ScheduleNow, q
    <3> QED BY <3>1, <3>2, <3>3
  <2> QED BY <1>3, <2>1, <2>2, <2>3, <2>4, <2>5, <2>6, <2>7, <2>8 DEF Continue
<1>4. ASSUME NEW q \in Queues, Run(q) PROVE HandleInv'
  <2>1. CASE RunRecv(q)
    <3>1. HandleOfLive' /\ HandleOfCaller'
      BY <2>1 DEF RunRecv, TypeOK
    <3>2. queue[q] \in Seq(Cells) /\ queue[q] # <<>> /\ UNCHANGED handle
      BY <2>1, <1>t DEF RunRecv
    <3>3. HandleOfRunning'
      <4>1. handle[Head(queue[q])]
        BY <3>2
      <4>2. \A r \in Queues : /\ r = q => item'[r] = Head(queue[q])
                              /\ r # q => item'[r] = item[r] /\ run'[r] = run[r]
        BY <2>1 DEF RunRecv, TypeOK
      <4> QED BY <4>1, <4>2, <3>2
    <3>4. HandleOfQueued'
      <4>1. \A i \in 1..Len(Tail(queue[q])) : handle[Tail(queue[q])[i]]
        BY <3>2
      <4>2. \A r \in Queues : queue'[r] = IF r = q THEN Tail(queue[q]) ELSE queue[r]
        BY <2>1 DEF RunRecv, TypeOK
      <4> QED BY <4>1, <4>2, <3>2
    <3> QED BY <3>1, <3>3, <3>4
  <2>2. CASE RunClearBit(q)
    BY <2>2 DEF RunClearBit, TypeOK
  <2>3. CASE RunPollPending(q)
    BY <2>3 DEF RunPollPending, TypeOK
  <2>4. CASE RunPollReady(q)
    BY <2>4 DEF RunPollReady, TypeOK
  <2>5. CASE RunDropFuture(q)
    BY <2>5 DEF RunDropFuture, TypeOK
  <2>6. CASE RunStoreZero(q)
    BY <2>6 DEF RunStoreZero, TypeOK
  <2> QED BY <1>4, <2>1, <2>2, <2>3, <2>4, <2>5, <2>6 DEF Run
<1> QED BY <1>1, <1>2, <1>3, <1>4 DEF Next

-----------------------------------------------------------------------------

\* Taking the head of a FIFO moves every other item one place forward.
LEMMA TailKeeps ==
    ASSUME NEW S, NEW s \in Seq(S), s # <<>>, NEW i \in 1..Len(s), i # 1
    PROVE  i - 1 \in 1..Len(Tail(s)) /\ Tail(s)[i - 1] = s[i]
<1>1. i \in Nat /\ i - 1 >= 1 /\ Len(s) \in Nat /\ i <= Len(s)
  OBVIOUS
<1>2. Len(Tail(s)) = Len(s) - 1
  OBVIOUS
<1>3. i - 1 \in 1..Len(Tail(s))
  BY <1>1, <1>2
<1>4. Tail(s)[i - 1] = s[(i - 1) + 1]
  BY <1>3
<1> QED BY <1>1, <1>3, <1>4

\* Every step keeps the obligation to run a woken cell in somebody's hands.
LEMMA NoLostWakeStep ==
    ASSUME TypeOK, TypeOK', HandleInv, NoLostWake, [Next]_vars
    PROVE  NoLostWake'
<1> USE ConstantsAssumption DEF Goto, MayCall, cellVars, callVars, runVars
<1> SUFFICES ASSUME NEW c \in Cells, (Bits \subseteq state[c])'
             PROVE  Committed(c)'
  BY DEF NoLostWake
<1>t. /\ \A p \in Callers : arg[p] \in Cells
      /\ \A q \in Queues : item[q] \in Cells
      /\ \A q \in Queues : queue[q] \in Seq(Cells)
      /\ QueueOf[c] \in Queues
  BY DEF TypeOK
<1>i. Bits \subseteq state[c] => Committed(c)
  BY DEF NoLostWake
<1>1. CASE UNCHANGED vars
  BY <1>1, <1>i DEF vars, Committed, Scheduled
<1>2. ASSUME NEW p \in Callers, Call(p) PROVE Committed(c)'
  <2> PICK d \in Cells : SpawnClaim(p, d) \/ SpawnBusy(p, d) \/ WakeSetBit(p, d)
    BY <1>2 DEF Call
  <2>1. CASE SpawnClaim(p, d)
    <3>1. CASE c = d
      BY <2>1, <3>1 DEF SpawnClaim, Committed, TypeOK
    <3>2. CASE c # d
      BY <2>1, <3>2, <1>i DEF SpawnClaim, Committed, Scheduled, TypeOK
    <3> QED BY <3>1, <3>2
  <2>2. CASE SpawnBusy(p, d)
    BY <2>2, <1>i DEF SpawnBusy, Committed, Scheduled
  <2>3. CASE WakeSetBit(p, d)
    <3>1. CASE SPAWNED \in state[d] /\ RUN_QUEUED \notin state[d]
      <4>1. /\ arg' = [arg EXCEPT ![p] = d]
            /\ pc' = [pc EXCEPT ![p] = "wake_handle"]
            /\ pc[p] = "idle"
            /\ UNCHANGED <<queue, run, item>>
            /\ c # d => state'[c] = state[c]
        BY <2>3, <3>1 DEF WakeSetBit, TypeOK
      <4>2. CASE c = d
        BY <4>1, <4>2 DEF Committed, TypeOK
      <4>3. CASE c # d
        BY <4>1, <4>3, <1>i DEF Committed, Scheduled, TypeOK
      <4> QED BY <4>2, <4>3
    <3>2. CASE ~(SPAWNED \in state[d] /\ RUN_QUEUED \notin state[d])
      <4>1. UNCHANGED <<pc, arg, queue, run, item>>
        BY <2>3, <3>2 DEF WakeSetBit
      <4>2. Bits \subseteq state[c]
        BY <2>3, <3>2 DEF WakeSetBit, TypeOK
      <4> QED BY <4>1, <4>2, <1>i DEF Committed, Scheduled
    <3> QED BY <3>1, <3>2
  <2> QED BY <2>1, <2>2, <2>3
<1>3. ASSUME NEW p \in Callers, Continue(p) PROVE Committed(c)'
  <2>1. CASE SpawnWrite(p)
    BY <2>1, <1>i DEF SpawnWrite, Committed, Scheduled, TypeOK
  <2>2. CASE SpawnLoadHandle(p)
    BY <2>2, <1>i DEF SpawnLoadHandle, Committed, Scheduled, TypeOK
  <2>3. CASE SpawnAlloc(p)
    BY <2>3, <1>i DEF SpawnAlloc, Committed, Scheduled, TypeOK
  <2>4. CASE SpawnAllocFails(p)
    BY <2>4, <1>i DEF SpawnAllocFails, Committed, Scheduled, TypeOK
  <2>5. CASE SpawnUndoDrop(p)
    BY <2>5, <1>i DEF SpawnUndoDrop, Committed, Scheduled, TypeOK
  <2>6. CASE SpawnUndoStore(p)
    <3>1. c # arg[p]
      BY <2>6 DEF SpawnUndoStore, TypeOK
    <3> QED BY <2>6, <3>1, <1>i DEF SpawnUndoStore, Committed, Scheduled, TypeOK
  <2>7. CASE WakeLoadHandle(p)
    <3>1. handle[arg[p]]
      BY <2>7 DEF WakeLoadHandle, HandleInv, HandleOfCaller
    <3> QED BY <2>7, <3>1, <1>i DEF WakeLoadHandle, Committed, Scheduled, TypeOK
  <2>8. CASE ScheduleNow(p)
    <3>0. UNCHANGED <<state, arg, run, item>> /\ pc' = [pc EXCEPT ![p] = "idle"]
      BY <2>8 DEF ScheduleNow
    <3>1. Scheduled(c) => Scheduled(c)'
      <4> SUFFICES ASSUME NEW i \in 1..Len(queue[QueueOf[c]]), queue[QueueOf[c]][i] = c
                   PROVE  Scheduled(c)'
        BY DEF Scheduled
      <4>1. CASE queue' = queue
        BY <4>1 DEF Scheduled
      <4>2. CASE queue' = [queue EXCEPT ![QueueOf[arg[p]]] = Append(@, arg[p])]
        <5>1. queue'[QueueOf[c]] = queue[QueueOf[c]]
              \/ queue'[QueueOf[c]] = Append(queue[QueueOf[c]], arg[p])
          BY <4>2, <1>t DEF TypeOK
        <5>2. i \in 1..Len(queue'[QueueOf[c]]) /\ queue'[QueueOf[c]][i] = c
          BY <5>1, <1>t
        <5> QED BY <5>2 DEF Scheduled
      <4> QED BY <2>8, <4>1, <4>2 DEF ScheduleNow
    <3>2. c = arg[p] => Scheduled(c)'
      <4> SUFFICES ASSUME c = arg[p] PROVE Scheduled(c)'
        OBVIOUS
      <4>1. CASE Dedup /\ Scheduled(arg[p])
        BY <4>1, <3>1
      <4>2. CASE ~(Dedup /\ Scheduled(arg[p]))
        <5>1. queue'[QueueOf[c]] = Append(queue[QueueOf[c]], c)
          BY <2>8, <4>2, <1>t DEF ScheduleNow, TypeOK
        <5> DEFINE n == Len(queue[QueueOf[c]]) + 1
        <5>2. n \in 1..Len(queue'[QueueOf[c]]) /\ queue'[QueueOf[c]][n] = c
          BY <5>1, <1>t
        <5> QED BY <5>2 DEF Scheduled
      <4> QED BY <4>1, <4>2
    <3>3. Committed(c)
      BY <3>0, <1>i
    <3> QED BY <3>0, <3>1, <3>2, <3>3 DEF Committed, TypeOK
  <2> QED BY <1>3, <2>1, <2>2, <2>3, <2>4, <2>5, <2>6, <2>7, <2>8 DEF Continue
<1>4. ASSUME NEW q \in Queues, Run(q) PROVE Committed(c)'
  <2>1. CASE RunRecv(q)
    <3>0. /\ UNCHANGED <<state, arg, pc>> /\ queue[q] # <<>> /\ run[q] = "recv"
          /\ item' = [item EXCEPT ![q] = Head(queue[q])]
          /\ run' = [run EXCEPT ![q] = "clear"]
          /\ queue' = [queue EXCEPT ![q] = Tail(queue[q])]
      BY <2>1 DEF RunRecv
    <3>1. Scheduled(c) => Scheduled(c)' \/ (run'[q] = "clear" /\ item'[q] = c)
      <4> SUFFICES ASSUME NEW i \in 1..Len(queue[QueueOf[c]]), queue[QueueOf[c]][i] = c
                   PROVE  Scheduled(c)' \/ (run'[q] = "clear" /\ item'[q] = c)
        BY DEF Scheduled
      <4>1. CASE QueueOf[c] # q
        <5>1. queue'[QueueOf[c]] = queue[QueueOf[c]]
          BY <3>0, <4>1, <1>t DEF TypeOK
        <5> QED BY <5>1 DEF Scheduled
      <4>2. CASE QueueOf[c] = q /\ i = 1
        BY <3>0, <4>2, <1>t DEF TypeOK
      <4>3. CASE QueueOf[c] = q /\ i # 1
        <5>1. queue'[q] = Tail(queue[q])
          BY <3>0 DEF TypeOK
        <5>2. i - 1 \in 1..Len(queue'[q]) /\ queue'[q][i - 1] = c
          <6>1. queue[q] \in Seq(Cells) /\ queue[q] # <<>> /\ i \in 1..Len(queue[q]) /\ i # 1
            BY <3>0, <4>3, <1>t
          <6>2. i - 1 \in 1..Len(Tail(queue[q])) /\ Tail(queue[q])[i - 1] = queue[q][i]
            BY <6>1, TailKeeps
          <6> QED BY <4>3, <5>1, <6>2
        <5> QED BY <4>3, <5>2 DEF Scheduled
      <4> QED BY <4>1, <4>2, <4>3
    <3>2. Committed(c)
      BY <3>0, <1>i
    <3> QED BY <3>0, <3>1, <3>2 DEF Committed, TypeOK
  <2>2. CASE RunClearBit(q)
    <3>1. c # item[q]
      BY <2>2 DEF RunClearBit, TypeOK
    <3>2. /\ state'[c] = state[c] /\ UNCHANGED <<queue, pc, arg, item>>
          /\ \A r \in Queues : r # q => run'[r] = run[r]
      BY <2>2, <3>1 DEF RunClearBit, TypeOK
    <3> QED BY <3>1, <3>2, <1>i DEF Committed, Scheduled
  <2>3. CASE RunPollPending(q)
    BY <2>3, <1>i DEF RunPollPending, Committed, Scheduled, TypeOK
  <2>4. CASE RunPollReady(q)
    BY <2>4, <1>i DEF RunPollReady, Committed, Scheduled, TypeOK
  <2>5. CASE RunDropFuture(q)
    BY <2>5, <1>i DEF RunDropFuture, Committed, Scheduled, TypeOK
  <2>6. CASE RunStoreZero(q)
    <3>1. c # item[q]
      BY <2>6 DEF RunStoreZero, TypeOK
    <3> QED BY <2>6, <3>1, <1>i DEF RunStoreZero, Committed, Scheduled, TypeOK
  <2> QED BY <1>4, <2>1, <2>2, <2>3, <2>4, <2>5, <2>6 DEF Run
<1> QED BY <1>1, <1>2, <1>3, <1>4 DEF Next

\* The inductive invariant of the executor.
Inv == TypeOK /\ HandleInv /\ NoLostWake

\* Inv holds in every reachable state of cell.rs, waker.rs and the queue.
LEMMA InvHolds == Spec => []Inv
<1>1. Init => HandleInv /\ NoLostWake
  BY ConstantsAssumption DEF Init, HandleInv, HandleOfLive, HandleOfCaller,
     HandleOfQueued, HandleOfRunning, NoLostWake
<1>2. TypeOK /\ TypeOK' /\ HandleInv /\ NoLostWake /\ [Next]_vars
      => HandleInv' /\ NoLostWake'
  BY HandleInvStep, NoLostWakeStep
<1> QED BY <1>1, <1>2, TypeCorrect, PTL DEF Spec, Inv

\* No wake is lost: while a live cell has RUN_QUEUED, its item is scheduled,
\* about to be polled, or some caller is about to schedule it, so the wakes
\* that waker.rs:34 swallows are safe to swallow.
THEOREM LosesNoWake == Spec => []NoLostWake
BY InvHolds, PTL DEF Inv

\* The null check at waker.rs:36 never ends a wake that must schedule.
THEOREM WakesFindHandle == Spec => []WakeFindsHandle
<1>1. Inv => WakeFindsHandle
  BY DEF Inv, HandleInv, HandleOfCaller, WakeFindsHandle
<1> QED BY <1>1, InvHolds, PTL

-----------------------------------------------------------------------------
(* The first spawn of a cell, and the runs of its item *)

\* Until the cell has a handle one spawn at a time is in progress, and nothing
\* else touches the cell; only such a spawn can fail.
FirstSpawn ==
    /\ \A p \in Callers : pc[p] \in SpawnLabels /\ ~handle[arg[p]] => SPAWNED \in state[arg[p]]
    /\ \A p, r \in Callers :
         pc[p] \in SpawnLabels /\ pc[r] \in SpawnLabels /\ arg[p] = arg[r] /\ ~handle[arg[p]] => p = r
    /\ \A p \in Callers : pc[p] \in {"alloc", "undo_drop", "undo_store"} => ~handle[arg[p]]

\* An item is queued and run on the queue it is bound to only, ...
Bound ==
    /\ \A q \in Queues : \A i \in 1..Len(queue[q]) : QueueOf[queue[q][i]] = q
    /\ \A q \in Queues : run[q] # "recv" => QueueOf[item[q]] = q

\* ... and what a queue polls is a task.
RunsTask ==
    \A q \in Queues : run[q] \in {"poll", "drop", "store"} => handle[item[q]] /\ SPAWNED \in state[item[q]]

RunInv == FirstSpawn /\ Bound /\ RunsTask

\* Every step keeps the rules of the first spawn: the spawn claims a free cell,
\* and only its own end frees the cell again.
LEMMA FirstSpawnStep ==
    ASSUME TypeOK, FirstSpawn, RunsTask, [Next]_vars
    PROVE  FirstSpawn'
<1> USE DEF FirstSpawn, SpawnLabels, Goto, cellVars, callVars, runVars
<1>t. /\ \A p \in Callers : arg[p] \in Cells
      /\ pc \in [Callers -> CallLabels] /\ arg \in [Callers -> Cells]
      /\ state \in [Cells -> SUBSET Bits] /\ handle \in [Cells -> BOOLEAN]
      /\ \A q \in Queues : item[q] \in Cells
  BY DEF TypeOK
<1>1. CASE UNCHANGED vars
  BY <1>1 DEF vars
<1>2. ASSUME NEW p \in Callers, NEW c \in Cells, SpawnClaim(p, c) PROVE FirstSpawn'
  BY <1>t, <1>2 DEF SpawnClaim, MayCall
<1>3. ASSUME NEW p \in Callers, NEW c \in Cells, SpawnBusy(p, c) PROVE FirstSpawn'
  BY <1>3 DEF SpawnBusy
<1>4. ASSUME NEW p \in Callers, NEW c \in Cells, WakeSetBit(p, c) PROVE FirstSpawn'
  <2>1. UNCHANGED handle /\ pc[p] = "idle" /\ \A d \in Cells : SPAWNED \in state[d] => SPAWNED \in state'[d]
    BY <1>t, <1>4 DEF WakeSetBit, MayCall
  <2>2. \/ UNCHANGED <<pc, arg>>
        \/ pc' = [pc EXCEPT ![p] = "wake_handle"] /\ arg' = [arg EXCEPT ![p] = c]
    BY <1>4 DEF WakeSetBit
  <2> QED BY <1>t, <2>1, <2>2
<1>5. ASSUME NEW p \in Callers, Continue(p) PROVE FirstSpawn'
  <2>1. CASE SpawnWrite(p) \/ SpawnLoadHandle(p) \/ SpawnAllocFails(p) \/ SpawnUndoDrop(p)
    BY <1>t, <2>1 DEF SpawnWrite, SpawnLoadHandle, SpawnAllocFails, SpawnUndoDrop
  <2>2. CASE SpawnAlloc(p)
    BY <1>t, <2>2 DEF SpawnAlloc
  <2>3. CASE SpawnUndoStore(p)
    BY <1>t, <2>3 DEF SpawnUndoStore
  <2>4. CASE WakeLoadHandle(p) \/ ScheduleNow(p)
    BY <1>t, <2>4 DEF WakeLoadHandle, ScheduleNow
  <2> QED BY <1>5, <2>1, <2>2, <2>3, <2>4 DEF Continue
<1>6. ASSUME NEW q \in Queues, Run(q) PROVE FirstSpawn'
  <2>1. CASE RunStoreZero(q)
    BY <1>t, <2>1 DEF RunStoreZero, RunsTask
  <2>2. CASE RunClearBit(q)
    BY <1>t, <2>2 DEF RunClearBit
  <2>3. CASE RunRecv(q) \/ RunPollPending(q) \/ RunPollReady(q) \/ RunDropFuture(q)
    BY <2>3 DEF RunRecv, RunPollPending, RunPollReady, RunDropFuture
  <2> QED BY <1>6, <2>1, <2>2, <2>3 DEF Run
<1> QED BY <1>1, <1>2, <1>3, <1>4, <1>5, <1>6 DEF Next, Call

\* Every step keeps an item on its queue: wi_schedule_now only knows that one.
LEMMA BoundStep ==
    ASSUME TypeOK, Bound, [Next]_vars
    PROVE  Bound'
<1> USE ConstantsAssumption DEF Bound, cellVars, callVars, runVars
<1>t. /\ queue \in [Queues -> Seq(Cells)] /\ \A q \in Queues : queue[q] \in Seq(Cells)
      /\ run \in [Queues -> RunLabels] /\ item \in [Queues -> Cells]
      /\ \A p \in Callers : arg[p] \in Cells
  BY DEF TypeOK
<1>1. CASE UNCHANGED <<queue, run, item>>
  BY <1>1
<1>2. ASSUME NEW p \in Callers, Call(p) PROVE Bound'
  BY <1>1, <1>2 DEF Call, SpawnClaim, SpawnBusy, WakeSetBit
<1>3. ASSUME NEW p \in Callers, Continue(p), ~ScheduleNow(p) PROVE Bound'
  BY <1>1, <1>3 DEF Continue, SpawnWrite, SpawnLoadHandle, SpawnAlloc, SpawnAllocFails, SpawnUndoDrop,
     SpawnUndoStore, WakeLoadHandle
<1>4. ASSUME NEW p \in Callers, ScheduleNow(p) PROVE Bound'
  <2> DEFINE r == QueueOf[arg[p]]
  <2>1. r \in Queues /\ queue[r] \in Seq(Cells) /\ arg[p] \in Cells
    BY <1>t
  <2>2. UNCHANGED <<run, item>> /\ (queue' = queue \/ queue' = [queue EXCEPT ![r] = Append(queue[r], arg[p])])
    BY <1>4 DEF ScheduleNow
  <2>3. \A i \in 1..Len(Append(queue[r], arg[p])) : QueueOf[Append(queue[r], arg[p])[i]] = r
    <3> DEFINE d == arg[p]
    <3>1. QueueOf[d] = r
      OBVIOUS
    <3> HIDE DEF r, d
    <3> QED BY <2>1, <3>1 DEF d
  <2> HIDE DEF r
  <2>4. CASE queue' = [queue EXCEPT ![r] = Append(queue[r], arg[p])]
    <3>1. \A q \in Queues : queue'[q] = IF q = r THEN Append(queue[r], arg[p]) ELSE queue[q]
      BY <1>t, <2>1, <2>4
    <3> QED BY <2>2, <2>3, <3>1
  <2> QED BY <1>1, <2>2, <2>4
<1>5. ASSUME NEW q \in Queues, RunRecv(q) PROVE Bound'
  <2>1. queue[q] \in Seq(Cells) /\ queue[q] # <<>>
    BY <1>t, <1>5 DEF RunRecv
  <2>2. \A i \in 1..Len(Tail(queue[q])) : QueueOf[Tail(queue[q])[i]] = q
    <3>1. \A i \in 1..Len(Tail(queue[q])) : Tail(queue[q])[i] = queue[q][i + 1] /\ i + 1 \in 1..Len(queue[q])
      BY <2>1
    <3> QED BY <3>1
  <2>3. QueueOf[Head(queue[q])] = q
    BY <2>1
  <2>4. \A r \in Queues : /\ queue'[r] = IF r = q THEN Tail(queue[q]) ELSE queue[r]
                          /\ item'[r] = IF r = q THEN Head(queue[q]) ELSE item[r]
                          /\ r # q => run'[r] = run[r]
    BY <1>t, <1>5 DEF RunRecv
  <2>5. \A r \in Queues : \A i \in 1..Len(queue'[r]) : QueueOf[queue'[r][i]] = r
    <3> SUFFICES ASSUME NEW r \in Queues
                 PROVE  \A i \in 1..Len(queue'[r]) : QueueOf[queue'[r][i]] = r
      OBVIOUS
    <3>1. CASE r = q
      <4>1. queue'[r] = Tail(queue[q])
        BY <2>4, <3>1
      <4> QED BY <2>2, <3>1, <4>1
    <3>2. CASE r # q
      <4>1. queue'[r] = queue[r]
        BY <2>4, <3>2
      <4>2. \A i \in 1..Len(queue[r]) : QueueOf[queue[r][i]] = r
        OBVIOUS
      <4> QED BY <4>1, <4>2
    <3> QED BY <3>1, <3>2
  <2>6. \A r \in Queues : run'[r] # "recv" => QueueOf[item'[r]] = r
    <3> SUFFICES ASSUME NEW r \in Queues
                 PROVE  run'[r] # "recv" => QueueOf[item'[r]] = r
      OBVIOUS
    <3>1. r = q => item'[r] = Head(queue[q])
      BY <2>4
    <3>2. r # q => item'[r] = item[r] /\ run'[r] = run[r]
      BY <2>4
    <3>3. run[r] # "recv" => QueueOf[item[r]] = r
      OBVIOUS
    <3> QED BY <2>3, <3>1, <3>2, <3>3
  <2> QED BY <2>5, <2>6
<1>6. ASSUME NEW q \in Queues, Run(q), ~RunRecv(q) PROVE Bound'
  BY <1>t, <1>6 DEF Run, RunClearBit, RunPollPending, RunPollReady, RunDropFuture, RunStoreZero
<1> QED BY <1>1, <1>2, <1>3, <1>4, <1>5, <1>6 DEF Next, vars

\* Every step keeps what is polled a task: only its own queue ends it, and a
\* spawn that fails had never been scheduled.
LEMMA RunsTaskStep ==
    ASSUME TypeOK, HandleInv, RunInv, [Next]_vars
    PROVE  RunsTask'
<1> USE DEF RunsTask, RunInv, cellVars, callVars, runVars
<1>t. /\ run \in [Queues -> RunLabels] /\ item \in [Queues -> Cells]
      /\ state \in [Cells -> SUBSET Bits] /\ handle \in [Cells -> BOOLEAN]
      /\ \A p \in Callers : arg[p] \in Cells
      /\ \A q \in Queues : item[q] \in Cells
  BY DEF TypeOK
<1>0. \A c \in Cells : handle[c] => handle'[c]
  BY HandleKept
<1>1. ASSUME UNCHANGED <<run, item>>, \A c \in Cells : handle[c] /\ SPAWNED \in state[c] => SPAWNED \in state'[c]
      PROVE  RunsTask'
  BY <1>t, <1>0, <1>1
<1>2. ASSUME NEW p \in Callers, NEW c \in Cells, SpawnClaim(p, c) \/ SpawnBusy(p, c) \/ WakeSetBit(p, c)
      PROVE  RunsTask'
  BY <1>t, <1>1, <1>2 DEF SpawnClaim, SpawnBusy, WakeSetBit
<1>3. ASSUME NEW p \in Callers, Continue(p), ~SpawnUndoStore(p) PROVE RunsTask'
  BY <1>1, <1>3 DEF Continue, SpawnWrite, SpawnLoadHandle, SpawnAlloc, SpawnAllocFails, SpawnUndoDrop,
     WakeLoadHandle, ScheduleNow
<1>4. ASSUME NEW p \in Callers, SpawnUndoStore(p) PROVE RunsTask'
  BY <1>t, <1>1, <1>4 DEF SpawnUndoStore, FirstSpawn
<1>5. ASSUME NEW q \in Queues, Run(q) PROVE RunsTask'
  <2>1. CASE RunRecv(q)
    BY <1>t, <2>1 DEF RunRecv
  <2>2. CASE RunClearBit(q)
    <3>1. handle[item[q]]
      BY <2>2 DEF RunClearBit, HandleInv, HandleOfRunning
    <3>2. UNCHANGED <<handle, item>> /\ \A c \in Cells : SPAWNED \in state[c] <=> SPAWNED \in state'[c]
      BY <1>t, <2>2 DEF RunClearBit
    <3>3. \A r \in Queues : r # q => run'[r] = run[r]
      BY <1>t, <2>2 DEF RunClearBit
    <3>4. run'[q] = "poll" => SPAWNED \in state[item[q]]
      BY <1>t, <2>2 DEF RunClearBit
    <3>5. run'[q] \in {"poll", "recv"}
      BY <1>t, <2>2 DEF RunClearBit
    <3> QED BY <1>t, <3>1, <3>2, <3>3, <3>4, <3>5
  <2>3. CASE RunPollPending(q) \/ RunPollReady(q) \/ RunDropFuture(q)
    BY <1>t, <2>3 DEF RunPollPending, RunPollReady, RunDropFuture
  <2>4. CASE RunStoreZero(q)
    <3>1. \A r \in Queues : r # q /\ run[r] # "recv" => item[r] # item[q]
      BY <2>4 DEF RunStoreZero, Bound
    <3> QED BY <1>t, <2>4, <3>1 DEF RunStoreZero
  <2> QED BY <1>5, <2>1, <2>2, <2>3, <2>4 DEF Run
<1>6. CASE UNCHANGED vars
  BY <1>6 DEF vars
<1> QED BY <1>2, <1>3, <1>4, <1>5, <1>6 DEF Next, Call

\* RunInv in every state.
LEMMA RunInvHolds == Spec => []RunInv
<1>1. Init => RunInv
  BY ConstantsAssumption DEF Init, RunInv, FirstSpawn, Bound, RunsTask, SpawnLabels
<1>2. Inv /\ RunInv /\ [Next]_vars => RunInv'
  BY FirstSpawnStep, BoundStep, RunsTaskStep DEF Inv, RunInv
<1> QED BY <1>1, <1>2, InvHolds, PTL DEF Spec

-----------------------------------------------------------------------------
(* The executor implements Task *)

\* The initial state and the steps of Task; what the promise of a poll adds to
\* them is a liveness property, which TLC checks.
TaskSteps == Abstract!Init /\ [][Abstract!Next]_(Abstract!vars)

\* The variables of Task, as WorkItemCell maps them.
IsPolled(c) == \E q \in Queues : run[q] \in {"poll", "drop", "store"} /\ item[q] = c
Live    == [c \in Cells |-> SPAWNED \in state[c]]
Owed    == [c \in Cells |-> Bits \subseteq state[c]]
Polling == [c \in Cells |-> IsPolled(c)]

\* Functions to the Booleans that agree are equal.
LEMMA Agree ==
    ASSUME NEW f \in [Cells -> BOOLEAN], NEW g \in [Cells -> BOOLEAN],
           \A d \in Cells : g[d] <=> f[d]
    PROVE  g = f
<1>1. \A d \in Cells : g[d] \in BOOLEAN /\ f[d] \in BOOLEAN
  OBVIOUS
<1>2. \A d \in Cells : g[d] = f[d]
  BY <1>1, Zenon
<1> QED BY <1>2

\* Functions to the Booleans that agree everywhere but at c.
LEMMA AgreeBut ==
    ASSUME NEW f \in [Cells -> BOOLEAN], NEW g \in [Cells -> BOOLEAN], NEW c \in Cells,
           NEW b \in BOOLEAN, g[c] <=> b, \A d \in Cells : d # c => (g[d] <=> f[d])
    PROVE  g = [f EXCEPT ![c] = b]
<1> DEFINE h == [f EXCEPT ![c] = b]
<1>1. h \in [Cells -> BOOLEAN] /\ h[c] = b /\ \A d \in Cells : d # c => h[d] = f[d]
  OBVIOUS
<1> HIDE DEF h
<1>2. \A d \in Cells : g[d] <=> h[d]
  BY <1>1
<1>3. g = h
  BY <1>1, <1>2, Agree
<1> QED BY <1>3 DEF h

\* The mapped variables have their types and values, before and after a step.
LEMMA Mapped ==
    /\ {Live, Owed, Polling} \subseteq [Cells -> BOOLEAN]
    /\ {Live', Owed', Polling'} \subseteq [Cells -> BOOLEAN]
    /\ \A c \in Cells : /\ Live[c] <=> SPAWNED \in state[c]
                        /\ Owed[c] <=> Bits \subseteq state[c]
                        /\ Polling[c] <=> IsPolled(c)
    /\ \A c \in Cells : /\ Live'[c] <=> SPAWNED \in state'[c]
                        /\ Owed'[c] <=> Bits \subseteq state'[c]
                        /\ Polling'[c] <=> IsPolled(c)'
<1>1. {Live, Owed, Polling} \subseteq [Cells -> BOOLEAN] /\ {Live', Owed', Polling'} \subseteq [Cells -> BOOLEAN]
  BY DEF Live, Owed, Polling, IsPolled
<1>2. ASSUME NEW c \in Cells
      PROVE  /\ Live[c] <=> SPAWNED \in state[c]
             /\ Owed[c] <=> Bits \subseteq state[c]
             /\ Polling[c] <=> IsPolled(c)
  BY DEF Live, Owed, Polling
<1>3. ASSUME NEW c \in Cells
      PROVE  /\ Live'[c] <=> SPAWNED \in state'[c]
             /\ Owed'[c] <=> Bits \subseteq state'[c]
             /\ Polling'[c] <=> IsPolled(c)'
  BY DEF Live, Owed, Polling
<1> QED BY <1>1, <1>2, <1>3

\* Task does not move when no cell's bits and no cell's poll change.
LEMMA TaskStutters ==
    ASSUME \A c \in Cells : SPAWNED \in state[c] <=> SPAWNED \in state'[c],
           \A c \in Cells : Bits \subseteq state[c] <=> Bits \subseteq state'[c],
           \A c \in Cells : IsPolled(c) <=> IsPolled(c)'
    PROVE  UNCHANGED Abstract!vars
<1>1. Live' = Live /\ Owed' = Owed /\ Polling' = Polling
  BY Mapped, Agree
<1> QED BY <1>1 DEF Abstract!vars, Live, Owed, Polling, IsPolled

\* Where Task moves when one cell's bits and poll change.
LEMMA TaskMoves ==
    ASSUME NEW c \in Cells,
           \A d \in Cells : d # c => /\ SPAWNED \in state[d] <=> SPAWNED \in state'[d]
                                     /\ Bits \subseteq state[d] <=> Bits \subseteq state'[d]
                                     /\ IsPolled(d) <=> IsPolled(d)'
    PROVE  /\ \A b \in BOOLEAN : (SPAWNED \in state'[c] <=> b) => Live' = [Live EXCEPT ![c] = b]
           /\ \A b \in BOOLEAN : (Bits \subseteq state'[c] <=> b) => Owed' = [Owed EXCEPT ![c] = b]
           /\ \A b \in BOOLEAN : (IsPolled(c)' <=> b) => Polling' = [Polling EXCEPT ![c] = b]
           /\ (SPAWNED \in state[c] <=> SPAWNED \in state'[c]) => Live' = Live
           /\ (Bits \subseteq state[c] <=> Bits \subseteq state'[c]) => Owed' = Owed
           /\ (IsPolled(c) <=> IsPolled(c)') => Polling' = Polling
<1>1. \A b \in BOOLEAN : (SPAWNED \in state'[c] <=> b) => Live' = [Live EXCEPT ![c] = b]
  BY Mapped, AgreeBut
<1>2. ASSUME NEW b \in BOOLEAN, Bits \subseteq state'[c] <=> b PROVE Owed' = [Owed EXCEPT ![c] = b]
  <2>1. Owed \in [Cells -> BOOLEAN] /\ Owed' \in [Cells -> BOOLEAN]
    BY Mapped
  <2>2. (Owed'[c] <=> b) /\ \A d \in Cells : d # c => (Owed'[d] <=> Owed[d])
    BY <1>2, Mapped
  <2> QED BY <2>1, <2>2, AgreeBut
<1>3. \A b \in BOOLEAN : (IsPolled(c)' <=> b) => Polling' = [Polling EXCEPT ![c] = b]
  BY Mapped, AgreeBut
<1>4. /\ (SPAWNED \in state[c] <=> SPAWNED \in state'[c]) => Live' = Live
      /\ (Bits \subseteq state[c] <=> Bits \subseteq state'[c]) => Owed' = Owed
      /\ (IsPolled(c) <=> IsPolled(c)') => Polling' = Polling
  BY Mapped, Agree
<1> QED BY <1>1, <1>2, <1>3, <1>4

\* One queue at most polls a cell, the one it is bound to.
LEMMA OnePoll ==
    ASSUME Bound, NEW q \in Queues, NEW r \in Queues, run[q] # "recv", run[r] # "recv", item[q] = item[r]
    PROVE  q = r
BY DEF Bound

\* Every step of the executor is a step of Task or leaves it alone: a claim
\* spawns, setting RUN_QUEUED wakes, clearing it begins a poll, and the two
\* stores of 0 end a task.
LEMMA TaskStep ==
    ASSUME TypeOK, TypeOK', HandleInv, RunInv, [Next]_vars
    PROVE  [Abstract!Next]_(Abstract!vars)
<1> USE DEF cellVars, callVars, runVars
<1>t. /\ run \in [Queues -> RunLabels] /\ item \in [Queues -> Cells]
      /\ state \in [Cells -> SUBSET Bits]
      /\ \A p \in Callers : arg[p] \in Cells
      /\ \A q \in Queues : item[q] \in Cells
  BY DEF TypeOK
<1>1. CASE UNCHANGED <<state, run, item>>
  BY <1>1, TaskStutters DEF IsPolled
<1>2. ASSUME NEW p \in Callers, NEW c \in Cells, SpawnClaim(p, c) PROVE Abstract!Next
  <2>1. state[c] = {} /\ state' = [state EXCEPT ![c] = {SPAWNED, RUN_QUEUED}] /\ UNCHANGED <<run, item>>
    BY <1>2 DEF SpawnClaim
  <2>2. \A d \in Cells : IsPolled(d) <=> IsPolled(d)'
    BY <2>1 DEF IsPolled
  <2>3. Live' = [Live EXCEPT ![c] = TRUE] /\ Owed' = [Owed EXCEPT ![c] = TRUE] /\ Polling' = Polling
    BY <1>t, <2>1, <2>2, TaskMoves
  <2>4. ~Live[c]
    BY <2>1, Mapped
  <2>5. Abstract!Spawn(c)
    BY <2>3, <2>4 DEF Abstract!Spawn, Live, Owed, Polling, IsPolled
  <2> QED BY <2>5 DEF Abstract!Next
<1>3. ASSUME NEW p \in Callers, NEW c \in Cells, WakeSetBit(p, c) PROVE Abstract!Next
  <2>1. state' = [state EXCEPT ![c] = @ \union {RUN_QUEUED}] /\ UNCHANGED <<run, item>>
    BY <1>3 DEF WakeSetBit
  <2>2. \A d \in Cells : IsPolled(d) <=> IsPolled(d)'
    BY <2>1 DEF IsPolled
  <2>3. Live[c] \in BOOLEAN /\ (Bits \subseteq state'[c] <=> Live[c])
    <3>1. Bits \subseteq state'[c] <=> SPAWNED \in state[c]
      BY <1>t, <2>1
    <3>2. Live[c] <=> SPAWNED \in state[c]
      BY Mapped
    <3>3. Live[c] \in BOOLEAN
      BY Mapped
    <3> QED BY <3>1, <3>2, <3>3
  <2>4. Live' = Live /\ Owed' = [Owed EXCEPT ![c] = Live[c]] /\ Polling' = Polling
    BY <1>t, <2>1, <2>2, <2>3, TaskMoves
  <2>5. Abstract!Wake(c)
    BY <2>4 DEF Abstract!Wake, Live, Owed, Polling, IsPolled
  <2> QED BY <2>5 DEF Abstract!Next
<1>4. ASSUME NEW p \in Callers, NEW c \in Cells, SpawnBusy(p, c) PROVE UNCHANGED <<state, run, item>>
  BY <1>4 DEF SpawnBusy
<1>5. ASSUME NEW p \in Callers, Continue(p), ~SpawnUndoStore(p) PROVE UNCHANGED <<state, run, item>>
  BY <1>5 DEF Continue, SpawnWrite, SpawnLoadHandle, SpawnAlloc, SpawnAllocFails, SpawnUndoDrop,
     WakeLoadHandle, ScheduleNow
<1>6. ASSUME NEW p \in Callers, NEW c \in Cells, c = arg[p], SpawnUndoStore(p) PROVE Abstract!Next
  <2>1. SPAWNED \in state[c]
    BY <1>6 DEF SpawnUndoStore, RunInv, FirstSpawn, SpawnLabels
  <2>2. ~IsPolled(c)
    BY <1>6 DEF SpawnUndoStore, RunInv, FirstSpawn, RunsTask, IsPolled
  <2>3. state' = [state EXCEPT ![c] = {}] /\ UNCHANGED <<run, item>>
    BY <1>6 DEF SpawnUndoStore
  <2>4. \A d \in Cells : IsPolled(d) <=> IsPolled(d)'
    BY <2>3 DEF IsPolled
  <2>5. Live' = [Live EXCEPT ![c] = FALSE] /\ Owed' = [Owed EXCEPT ![c] = FALSE] /\ Polling' = Polling
    BY <1>t, <2>3, <2>4, TaskMoves
  <2>6. Live[c] /\ ~Polling[c]
    BY <2>1, <2>2, Mapped
  <2>7. Abstract!SpawnFails(c)
    BY <2>5, <2>6 DEF Abstract!SpawnFails, Live, Owed, Polling, IsPolled
  <2> QED BY <2>7 DEF Abstract!Next
<1>7. ASSUME NEW q \in Queues, NEW c \in Cells, c = item[q], Run(q) PROVE [Abstract!Next]_(Abstract!vars)
  <2>0. run[q] # "recv" => \A r \in Queues : run[r] # "recv" /\ item[r] = c => r = q
    BY <1>7, OnePoll DEF RunInv
  <2>1. CASE RunRecv(q)
    <3>1. \A d \in Cells : IsPolled(d) <=> IsPolled(d)'
      BY <1>t, <2>1 DEF RunRecv, IsPolled
    <3>2. UNCHANGED state
      BY <2>1 DEF RunRecv
    <3> QED BY <3>1, <3>2, TaskStutters
  <2>2. CASE RunClearBit(q) /\ SPAWNED \in state[c]
    <3>1. /\ run[q] = "clear" /\ run' = [run EXCEPT ![q] = "poll"] /\ UNCHANGED item
          /\ state' = [state EXCEPT ![c] = @ \ {RUN_QUEUED}]
      BY <1>7, <2>2 DEF RunClearBit
    <3>2. ~IsPolled(c) /\ IsPolled(c)' /\ \A d \in Cells : d # c => (IsPolled(d) <=> IsPolled(d)')
      BY <1>t, <1>7, <2>0, <3>1 DEF IsPolled
    <3>3. Live' = Live /\ Owed' = [Owed EXCEPT ![c] = FALSE] /\ Polling' = [Polling EXCEPT ![c] = TRUE]
      BY <1>t, <3>1, <3>2, TaskMoves
    <3>4. Live[c] /\ ~Polling[c]
      BY <2>2, <3>2, Mapped
    <3>5. Abstract!BeginPoll(c)
      BY <3>3, <3>4 DEF Abstract!BeginPoll, Live, Owed, Polling, IsPolled
    <3> QED BY <3>5 DEF Abstract!Next
  <2>3. CASE RunClearBit(q) /\ SPAWNED \notin state[c]
    <3>1. /\ run[q] = "clear" /\ run' = [run EXCEPT ![q] = "recv"] /\ UNCHANGED item
          /\ state' = [state EXCEPT ![c] = @ \ {RUN_QUEUED}]
      BY <1>7, <2>3 DEF RunClearBit
    <3>2. \A d \in Cells : IsPolled(d) <=> IsPolled(d)'
      BY <1>t, <3>1 DEF IsPolled
    <3> QED BY <1>t, <2>3, <3>1, <3>2, TaskStutters
  <2>4. CASE RunPollPending(q)
    <3>1. run[q] = "poll" /\ run' = [run EXCEPT ![q] = "recv"] /\ UNCHANGED <<state, item>>
      BY <2>4 DEF RunPollPending
    <3>2. IsPolled(c) /\ ~IsPolled(c)' /\ \A d \in Cells : d # c => (IsPolled(d) <=> IsPolled(d)')
      BY <1>t, <1>7, <2>0, <3>1 DEF IsPolled
    <3>3. Live' = Live /\ Owed' = Owed /\ Polling' = [Polling EXCEPT ![c] = FALSE]
      BY <3>1, <3>2, TaskMoves
    <3>4. Polling[c]
      BY <3>2, Mapped
    <3>5. Abstract!PollPending(c)
      BY <3>3, <3>4 DEF Abstract!PollPending, Live, Owed, Polling, IsPolled
    <3> QED BY <3>5 DEF Abstract!Next
  <2>5. CASE RunPollReady(q) \/ RunDropFuture(q)
    <3>1. \A d \in Cells : IsPolled(d) <=> IsPolled(d)'
      BY <1>t, <2>5 DEF RunPollReady, RunDropFuture, IsPolled
    <3>2. UNCHANGED state
      BY <2>5 DEF RunPollReady, RunDropFuture
    <3> QED BY <3>1, <3>2, TaskStutters
  <2>6. CASE RunStoreZero(q)
    <3>1. /\ run[q] = "store" /\ run' = [run EXCEPT ![q] = "recv"] /\ UNCHANGED item
          /\ state' = [state EXCEPT ![c] = {}]
      BY <1>7, <2>6 DEF RunStoreZero
    <3>2. IsPolled(c) /\ ~IsPolled(c)' /\ \A d \in Cells : d # c => (IsPolled(d) <=> IsPolled(d)')
      BY <1>t, <1>7, <2>0, <3>1 DEF IsPolled
    <3>3. SPAWNED \in state[c]
      BY <1>7, <3>1 DEF RunInv, RunsTask
    <3>4. /\ Live' = [Live EXCEPT ![c] = FALSE] /\ Owed' = [Owed EXCEPT ![c] = FALSE]
          /\ Polling' = [Polling EXCEPT ![c] = FALSE]
      BY <1>t, <3>1, <3>2, TaskMoves
    <3>5. Live[c] /\ Polling[c]
      BY <3>2, <3>3, Mapped
    <3>6. Abstract!PollReady(c)
      BY <3>4, <3>5 DEF Abstract!PollReady, Live, Owed, Polling, IsPolled
    <3> QED BY <3>6 DEF Abstract!Next
  <2> QED BY <1>7, <2>1, <2>2, <2>3, <2>4, <2>5, <2>6 DEF Run
<1>8. CASE UNCHANGED vars
  BY <1>1, <1>8 DEF vars
<1> QED BY <1>t, <1>1, <1>2, <1>3, <1>4, <1>5, <1>6, <1>7, <1>8 DEF Next, Call

\* The executor keeps to Task: one task and one poll at a time per cell, a poll
\* only of a live task, and no end of a task but Ready or a failed spawn --
\* although a stale run may poll a task before its spawn has returned.
THEOREM StepsAreTaskSteps == Spec => TaskSteps
<1>1. Init => Abstract!Init
  <2> SUFFICES ASSUME Init PROVE Abstract!Init
    OBVIOUS
  <2>1. \A c \in Cells : SPAWNED \notin state[c] /\ ~(Bits \subseteq state[c]) /\ ~IsPolled(c)
    BY DEF Init, IsPolled
  <2> DEFINE no == [c \in Cells |-> FALSE]
  <2>2. no \in [Cells -> BOOLEAN] /\ \A c \in Cells : ~no[c]
    OBVIOUS
  <2> HIDE DEF no
  <2>3. Live = no /\ Owed = no /\ Polling = no
    BY <2>1, <2>2, Mapped, Agree
  <2> QED BY <2>3 DEF Abstract!Init, no, Live, Owed, Polling, IsPolled
<1>2. TypeOK /\ TypeOK' /\ HandleInv /\ RunInv /\ [Next]_vars => [Abstract!Next]_(Abstract!vars)
  BY TaskStep
<1> QED BY <1>1, <1>2, InvHolds, RunInvHolds, PTL DEF Spec, Inv, TaskSteps

-----------------------------------------------------------------------------
(* The future's slot *)

\* A cell that has been spawned before is spawned by tasks of its own queue
\* only: no other caller writes the future of a cell with a handle.
SpawnsOnQueue ==
    \A p \in Callers : pc[p] = "write" /\ handle[arg[p]] => p = QueueOf[arg[p]]

\* Where the future of a cell is between the spawn and the end of its task.
FutureInv ==
    /\ \A q \in Queues : pc[q] # "idle" => run[q] = "poll"
    /\ \A p \in Callers : pc[p] = "write" => SPAWNED \in state[arg[p]]
    /\ \A p \in Callers : pc[p] \in {"handle", "alloc", "undo_drop"} /\ ~handle[arg[p]] => future[arg[p]] = "live"
    /\ \A p \in Callers : pc[p] = "undo_store" => future[arg[p]] # "live"
    /\ \A q \in Queues : run[q] = "store" => future[item[q]] # "live"
    /\ \A c \in Cells : SPAWNED \in state[c] /\ handle[c] =>
         \/ future[c] = "live"
         \/ \E p \in Callers : pc[p] = "write" /\ arg[p] = c
         \/ run[QueueOf[c]] = "store" /\ item[QueueOf[c]] = c

SlotInv == FutureInv /\ PollsLiveFuture /\ NoFutureLeaked

\* While a cell with a handle runs, only its queue may write its future, and
\* that is busy running it.
LEMMA WriterIsIdle ==
    ASSUME Bound, SpawnsOnQueue, FutureInv, NEW q \in Queues, NEW p \in Callers,
           run[q] # "recv", pc[p] = "write", arg[p] = item[q], handle[item[q]]
    PROVE  p = q /\ run[q] = "poll"
BY DEF Bound, SpawnsOnQueue, FutureInv

\* Every step keeps the future where SlotInv says, as long as spawns are made
\* on the cell's queue.
LEMMA SlotInvStep ==
    ASSUME TypeOK, HandleInv, RunInv, SpawnsOnQueue, SlotInv, [Next]_vars
    PROVE  SlotInv'
<1> USE DEF SlotInv, FutureInv, PollsLiveFuture, NoFutureLeaked, Goto, cellVars, callVars, runVars
<1>t. /\ run \in [Queues -> RunLabels] /\ item \in [Queues -> Cells]
      /\ state \in [Cells -> SUBSET Bits] /\ handle \in [Cells -> BOOLEAN] /\ future \in [Cells -> Slot]
      /\ pc \in [Callers -> CallLabels] /\ arg \in [Callers -> Cells]
      /\ \A p \in Callers : arg[p] \in Cells
      /\ \A q \in Queues : item[q] \in Cells /\ q \in Callers
      /\ \A c \in Cells : QueueOf[c] \in Queues
  BY ConstantsAssumption DEF TypeOK, Callers
<1>r. \A q \in Queues : run[q] # "recv" => QueueOf[item[q]] = q /\ (run[q] # "clear" => SPAWNED \in state[item[q]] /\ handle[item[q]])
  BY <1>t DEF RunInv, Bound, RunsTask, RunLabels
<1>1. CASE UNCHANGED vars
  BY <1>1 DEF vars
<1>2. ASSUME NEW p \in Callers, NEW c \in Cells, SpawnClaim(p, c) PROVE SlotInv'
  BY <1>t, <1>2 DEF SpawnClaim, MayCall
<1>3. ASSUME NEW p \in Callers, NEW c \in Cells, SpawnBusy(p, c) PROVE SlotInv'
  BY <1>3 DEF SpawnBusy
<1>4. ASSUME NEW p \in Callers, NEW c \in Cells, WakeSetBit(p, c) PROVE SlotInv'
  <2>1. /\ UNCHANGED <<handle, future, run, item>> /\ MayCall(p)
        /\ \A d \in Cells : SPAWNED \in state[d] <=> SPAWNED \in state'[d]
    BY <1>t, <1>4 DEF WakeSetBit
  <2>2. \/ UNCHANGED <<pc, arg>>
        \/ pc' = [pc EXCEPT ![p] = "wake_handle"] /\ arg' = [arg EXCEPT ![p] = c]
    BY <1>4 DEF WakeSetBit
  <2> QED BY <1>t, <2>1, <2>2 DEF MayCall
<1>5. ASSUME NEW p \in Callers, SpawnWrite(p) PROVE SlotInv'
  <2>1. \A q \in Queues : run[q] = "store" => item[q] # arg[p]
    BY <1>5, <1>r, WriterIsIdle DEF SpawnWrite, RunInv
  <2>2. \A r \in Callers : pc[r] = "undo_store" => arg[r] # arg[p]
    BY <1>5 DEF SpawnWrite, RunInv, FirstSpawn, SpawnLabels
  <2> QED BY <1>t, <1>5, <2>1, <2>2 DEF SpawnWrite
<1>6. ASSUME NEW p \in Callers, SpawnLoadHandle(p) \/ SpawnAllocFails(p) PROVE SlotInv'
  BY <1>t, <1>6 DEF SpawnLoadHandle, SpawnAllocFails
<1>7. ASSUME NEW p \in Callers, SpawnAlloc(p) PROVE SlotInv'
  <2>1. ~handle[arg[p]] /\ future[arg[p]] = "live"
    BY <1>7 DEF SpawnAlloc, RunInv, FirstSpawn
  <2> QED BY <1>t, <1>7, <2>1 DEF SpawnAlloc
<1>8. ASSUME NEW p \in Callers, SpawnUndoDrop(p) PROVE SlotInv'
  <2>1. ~handle[arg[p]] /\ \A r \in Callers : pc[r] \in SpawnLabels /\ arg[r] = arg[p] => r = p
    BY <1>t, <1>8 DEF SpawnUndoDrop, RunInv, FirstSpawn, SpawnLabels
  <2>2. \A q \in Queues : run[q] \in {"poll", "drop"} => item[q] # arg[p]
    BY <1>r, <2>1
  <2> QED BY <1>t, <1>8, <2>1, <2>2 DEF SpawnUndoDrop, SpawnLabels
<1>9. ASSUME NEW p \in Callers, SpawnUndoStore(p) PROVE SlotInv'
  <2>1. ~handle[arg[p]] /\ \A r \in Callers : pc[r] \in SpawnLabels /\ arg[r] = arg[p] => r = p
    BY <1>t, <1>9 DEF SpawnUndoStore, RunInv, FirstSpawn, SpawnLabels
  <2> QED BY <1>t, <1>9, <2>1 DEF SpawnUndoStore, SpawnLabels
<1>10. ASSUME NEW p \in Callers, WakeLoadHandle(p) \/ ScheduleNow(p) PROVE SlotInv'
  BY <1>t, <1>10 DEF WakeLoadHandle, ScheduleNow
<1>11. ASSUME NEW q \in Queues, RunRecv(q) PROVE SlotInv'
  BY <1>t, <1>11 DEF RunRecv
<1>12. ASSUME NEW q \in Queues, RunClearBit(q) PROVE SlotInv'
  <2>1. run[q] = "clear" /\ handle[item[q]] /\ QueueOf[item[q]] = q
    BY <1>12, <1>r DEF RunClearBit, HandleInv, HandleOfRunning
  <2>2. SPAWNED \in state[item[q]] => future[item[q]] = "live"
    BY <1>t, <2>1, WriterIsIdle DEF RunInv
  <2>3. /\ UNCHANGED <<handle, future, pc, arg, item>>
        /\ \A c \in Cells : SPAWNED \in state[c] <=> SPAWNED \in state'[c]
    BY <1>t, <1>12 DEF RunClearBit
  <2>4. \/ run' = [run EXCEPT ![q] = "poll"] /\ SPAWNED \in state[item[q]]
        \/ run' = [run EXCEPT ![q] = "recv"]
    BY <1>12 DEF RunClearBit
  <2> QED BY <1>t, <2>1, <2>2, <2>3, <2>4
<1>13. ASSUME NEW q \in Queues, RunPollPending(q) \/ RunPollReady(q) PROVE SlotInv'
  BY <1>t, <1>13 DEF RunPollPending, RunPollReady
<1>14. ASSUME NEW q \in Queues, RunDropFuture(q) PROVE SlotInv'
  <2>1. run[q] = "drop" /\ handle[item[q]] /\ QueueOf[item[q]] = q
    BY <1>14, <1>r DEF RunDropFuture
  <2>2. \A r \in Queues : run[r] # "recv" /\ item[r] = item[q] => r = q
    BY <2>1, OnePoll DEF RunInv
  <2> QED BY <1>t, <1>14, <2>1, <2>2 DEF RunDropFuture
<1>15. ASSUME NEW q \in Queues, RunStoreZero(q) PROVE SlotInv'
  <2>1. run[q] = "store" /\ handle[item[q]] /\ QueueOf[item[q]] = q
    BY <1>15, <1>r DEF RunStoreZero
  <2>2. \A r \in Queues : run[r] # "recv" /\ item[r] = item[q] => r = q
    BY <2>1, OnePoll DEF RunInv
  <2>3. \A p \in Callers : pc[p] = "write" => arg[p] # item[q]
    BY <2>1, WriterIsIdle DEF RunInv
  <2> QED BY <1>t, <1>15, <2>1, <2>2, <2>3 DEF RunStoreZero
<1> QED BY <1>1, <1>2, <1>3, <1>4, <1>5, <1>6, <1>7, <1>8, <1>9, <1>10, <1>11, <1>12, <1>13, <1>14, <1>15
        DEF Next, Call, Continue, Run

\* SlotInv in every state of a program that respawns its cells on their queues.
LEMMA SlotInvHolds == Spec /\ []SpawnsOnQueue => []SlotInv
<1>1. Init => SlotInv
  <2> SUFFICES ASSUME Init PROVE SlotInv
    OBVIOUS
  <2>1. /\ \A c \in Cells : SPAWNED \notin state[c] /\ future[c] = "uninit"
        /\ \A p \in Callers : pc[p] = "idle"
        /\ \A q \in Queues : run[q] = "recv" /\ q \in Callers
    BY DEF Init, Callers
  <2> QED BY <2>1 DEF SlotInv, FutureInv, PollsLiveFuture, NoFutureLeaked
<1>2. TypeOK /\ HandleInv /\ RunInv /\ SpawnsOnQueue /\ SlotInv /\ [Next]_vars => SlotInv'
  BY SlotInvStep
<1> QED BY <1>1, <1>2, InvHolds, RunInvHolds, PTL DEF Spec, Inv

\* poll_once only polls an initialised future (cell.rs:172), provided a cell is
\* respawned by tasks of its own queue.  Without that a stale run polls the
\* slot before try_spawn has written it.
THEOREM PollsFutures == Spec /\ []SpawnsOnQueue => []PollsLiveFuture
BY SlotInvHolds, PTL DEF SlotInv

\* try_spawn overwrites no future that has not been dropped (cell.rs:96), under
\* the same proviso.
THEOREM LeaksNoFuture == Spec /\ []SpawnsOnQueue => []NoFutureLeaked
BY SlotInvHolds, PTL DEF SlotInv
=============================================================================
