------------------------------- MODULE Channel -------------------------------
(***************************************************************************)
(* Channel<T, N> (channel.rs): a ring of N slots between one producing and *)
(* one consuming task, two counters that wrap at the width of usize, and   *)
(* an AtomicWaker for each side.                                           *)
(*                                                                         *)
(* The producer runs `for v in 1..=MaxSends { ch.send(v).await }` and      *)
(* ends, the consumer `loop { ch.recv().await }`; both execute as Task     *)
(* promises, on queues of their own.  A thread may also call len().        *)
(* Each access to a counter, a slot or an AtomicWaker is one action.       *)
(***************************************************************************)
EXTENDS Naturals, Sequences

CONSTANTS
    N,              \* capacity
    Width,          \* usize is Width bits wide
    Producer, Consumer, Observer, None,
    LenCaller,      \* who calls len(): one of the three threads, or None
    MaxSends        \* bound: values sent in a behaviour

Sides == {Producer, Consumer}

ASSUME ChannelAssumption ==
    /\ Width \in Nat \ {0} /\ 2^Width \in Nat
    /\ N \in 1..(2^Width - 1)
    /\ MaxSends \in Nat
    /\ Producer # Consumer
    /\ Observer \notin Sides
    /\ None \notin Sides \union {Observer}
    /\ LenCaller \in Sides \union {Observer, None}

Empty == 0                              \* MaybeUninit::uninit()
Values == 1..MaxSends                   \* v is the v-th value sent

Counters == 0..(2^Width - 1)

WrappingInc(n)    == (n + 1) % 2^Width
WrappingSub(m, n) == (m + 2^Width - n) % 2^Width
Index(n)          == n % N              \* the slot of counter value n

VARIABLES
    buf, head, tail,                    \* the ring and its counters
    rstate, rslot, rpc, rheld,          \* recv_waker, see AtomicWaker
    sstate, sslot, spc, sheld,          \* send_waker
    live, owed, polling,                \* the two tasks, see Task
    ppc, cpc,                           \* where each task is inside its poll
    retry,                              \* retry[t]: t has registered and tries again
    next,                               \* the value being sent
    got,                                \* the value the consumer has read
    delivered,                          \* the values recv() returned
    lpc, ltail, length                  \* a len() in progress, and its result

ringVars  == <<buf, head, tail>>
recvWaker == <<rstate, rslot, rpc, rheld>>
sendWaker == <<sstate, sslot, spc, sheld>>
taskVars  == <<live, owed, polling>>
prodVars  == <<ppc, next>>
consVars  == <<cpc, got, delivered>>
lenVars   == <<lpc, ltail, length>>
vars == <<ringVars, recvWaker, sendWaker, taskVars, prodVars, consVars, retry, lenVars>>

RW == INSTANCE AtomicWaker WITH Procs <- Sides, Wakers <- {Consumer},
        state <- rstate, slot <- rslot, pc <- rpc, held <- rheld
SW == INSTANCE AtomicWaker WITH Procs <- Sides, Wakers <- {Producer},
        state <- sstate, slot <- sslot, pc <- spc, held <- sheld
T == INSTANCE Task WITH Cells <- Sides

Typed ==
    /\ buf \in [0..(N - 1) -> Values \union {Empty}]
    /\ head \in Counters /\ tail \in Counters
    /\ RW!TypeOK /\ SW!TypeOK /\ T!TypeOK
    /\ ppc \in {"parked", "load", "write", "store", "wake", "return", "register", "pending", "over"}
    /\ cpc \in {"parked", "load", "read", "store", "wake", "return", "register", "pending"}
    /\ retry \in [Sides -> BOOLEAN]
    /\ next \in 1..(MaxSends + 1)
    /\ got \in Values \union {Empty}
    /\ delivered \in Seq(Values \union {Empty})
    /\ lpc \in {"idle", "head"} /\ ltail \in Counters /\ length \in Counters

\* The values of the variables.  In particular len(), which subtracts a head
\* read now from a tail read before, is the "Number of values currently
\* buffered" (channel.rs:95): at most the capacity.
TypeOK == Typed /\ length <= N

Init ==
    /\ buf = [i \in 0..(N - 1) |-> Empty]
    /\ head = 0 /\ tail = 0
    /\ RW!Init /\ SW!Init
    /\ live = [t \in Sides |-> TRUE]
    /\ owed = [t \in Sides |-> TRUE]
    /\ polling = [t \in Sides |-> FALSE]
    /\ ppc = "parked" /\ cpc = "parked"
    /\ retry = [t \in Sides |-> FALSE]
    /\ next = 1
    /\ got = Empty
    /\ delivered = <<>>
    /\ lpc = "idle" /\ ltail = 0 /\ length = 0

-----------------------------------------------------------------------------
(* The producer: Send::poll and try_send *)

SendPollBegin ==
    /\ ppc = "parked"
    /\ T!BeginPoll(Producer)
    /\ ppc' = IF next \in Values THEN "load" ELSE "over"
    /\ retry' = [retry EXCEPT ![Producer] = FALSE]
    /\ UNCHANGED <<ringVars, recvWaker, sendWaker, next, consVars, lenVars>>

\* Seeded fault: room is taken to be left at tail - head = N.
SendLoadOffByOne ==
    /\ ppc = "load"
    /\ spc[Producer] = "idle"
    /\ LenCaller = Producer => lpc = "idle"
    /\ ppc' = IF WrappingSub(tail, head) <= N THEN "write"
              ELSE IF retry[Producer] THEN "pending" ELSE "register"
    /\ UNCHANGED <<ringVars, recvWaker, sendWaker, taskVars, next, consVars, retry, lenVars>>

\* try_send: full unless tail - head < N; the second refusal is Pending.
SendLoad ==
    /\ ppc = "load"
    /\ spc[Producer] = "idle"
    /\ LenCaller = Producer => lpc = "idle"
    /\ ppc' = IF WrappingSub(tail, head) < N THEN "write"
              ELSE IF retry[Producer] THEN "pending" ELSE "register"
    /\ UNCHANGED <<ringVars, recvWaker, sendWaker, taskVars, next, consVars, retry, lenVars>>

SendWrite ==
    /\ ppc = "write"
    /\ buf' = [buf EXCEPT ![Index(tail)] = next]
    /\ ppc' = "store"
    /\ UNCHANGED <<head, tail, recvWaker, sendWaker, taskVars, next, consVars, retry, lenVars>>

SendStoreTail ==
    /\ ppc = "store"
    /\ tail' = WrappingInc(tail)
    /\ ppc' = "wake"
    /\ UNCHANGED <<buf, head, recvWaker, sendWaker, taskVars, next, consVars, retry, lenVars>>

SendWake ==
    /\ ppc = "wake"
    /\ RW!WakeBegin(Producer)
    /\ ppc' = "return"
    /\ UNCHANGED <<ringVars, sendWaker, taskVars, next, consVars, retry, lenVars>>

\* The send is Ready; the task's loop sends the next value in the same poll.
SendReturn ==
    /\ ppc = "return"
    /\ rpc[Producer] = "idle"
    /\ next' = next + 1
    /\ ppc' = IF next' \in Values THEN "load" ELSE "over"
    /\ retry' = [retry EXCEPT ![Producer] = FALSE]
    /\ UNCHANGED <<ringVars, recvWaker, sendWaker, taskVars, consVars, lenVars>>

\* Seeded fault: Pending right after registering, without a second try.
SendRegisterNoRetry ==
    /\ ppc = "register"
    /\ SW!Register(Producer, Producer)
    /\ ppc' = "pending"
    /\ UNCHANGED <<ringVars, recvWaker, taskVars, next, consVars, retry, lenVars>>

SendRegister ==
    /\ ppc = "register"
    /\ SW!Register(Producer, Producer)
    /\ ppc' = "load"
    /\ retry' = [retry EXCEPT ![Producer] = TRUE]
    /\ UNCHANGED <<ringVars, recvWaker, taskVars, next, consVars, lenVars>>

SendPollEnd ==
    /\ \/ ppc = "pending" /\ T!PollPending(Producer)
       \/ ppc = "over" /\ T!PollReady(Producer)
    /\ ppc' = "parked"
    /\ UNCHANGED <<ringVars, recvWaker, sendWaker, next, consVars, retry, lenVars>>

-----------------------------------------------------------------------------
(* The consumer: Recv::poll and try_recv *)

RecvPollBegin ==
    /\ cpc = "parked"
    /\ T!BeginPoll(Consumer)
    /\ cpc' = "load"
    /\ retry' = [retry EXCEPT ![Consumer] = FALSE]
    /\ UNCHANGED <<ringVars, recvWaker, sendWaker, prodVars, got, delivered, lenVars>>

\* try_recv: empty if head = tail; the second refusal is Pending.
RecvLoad ==
    /\ cpc = "load"
    /\ rpc[Consumer] = "idle"
    /\ LenCaller = Consumer => lpc = "idle"
    /\ cpc' = IF head # tail THEN "read"
              ELSE IF retry[Consumer] THEN "pending" ELSE "register"
    /\ UNCHANGED <<ringVars, recvWaker, sendWaker, taskVars, prodVars, got, delivered, retry, lenVars>>

\* assume_init_read copies the slot and leaves it as it was.
RecvRead ==
    /\ cpc = "read"
    /\ got' = buf[Index(head)]
    /\ cpc' = "store"
    /\ UNCHANGED <<ringVars, recvWaker, sendWaker, taskVars, prodVars, delivered, retry, lenVars>>

\* Seeded fault: head.store(tail), which skips what is still buffered.
RecvStoreTailAsHead ==
    /\ cpc = "store"
    /\ head' = tail
    /\ delivered' = Append(delivered, got)
    /\ cpc' = "wake"
    /\ UNCHANGED <<buf, tail, recvWaker, sendWaker, taskVars, prodVars, got, retry, lenVars>>

RecvStoreHead ==
    /\ cpc = "store"
    /\ head' = WrappingInc(head)
    /\ delivered' = Append(delivered, got)
    /\ cpc' = "wake"
    /\ UNCHANGED <<buf, tail, recvWaker, sendWaker, taskVars, prodVars, got, retry, lenVars>>

RecvWake ==
    /\ cpc = "wake"
    /\ SW!WakeBegin(Consumer)
    /\ cpc' = "return"
    /\ UNCHANGED <<ringVars, recvWaker, taskVars, prodVars, got, delivered, retry, lenVars>>

RecvReturn ==
    /\ cpc = "return"
    /\ spc[Consumer] = "idle"
    /\ cpc' = "load"
    /\ got' = Empty
    /\ retry' = [retry EXCEPT ![Consumer] = FALSE]
    /\ UNCHANGED <<ringVars, recvWaker, sendWaker, taskVars, prodVars, delivered, lenVars>>

RecvRegister ==
    /\ cpc = "register"
    /\ RW!Register(Consumer, Consumer)
    /\ cpc' = "load"
    /\ retry' = [retry EXCEPT ![Consumer] = TRUE]
    /\ UNCHANGED <<ringVars, sendWaker, taskVars, prodVars, got, delivered, lenVars>>

RecvPollEnd ==
    /\ cpc = "pending"
    /\ T!PollPending(Consumer)
    /\ cpc' = "parked"
    /\ UNCHANGED <<ringVars, recvWaker, sendWaker, prodVars, got, delivered, retry, lenVars>>

-----------------------------------------------------------------------------
(* The AtomicWakers, and len() *)

RecvWakerStep(t) ==
    /\ \/ RW!Continue(t) /\ UNCHANGED taskVars
       \/ RW!Invoke(t) /\ T!Wake(rheld[t])
    /\ UNCHANGED <<ringVars, sendWaker, prodVars, consVars, retry, lenVars>>

SendWakerStep(t) ==
    /\ \/ SW!Continue(t) /\ UNCHANGED taskVars
       \/ SW!Invoke(t) /\ T!Wake(sheld[t])
    /\ UNCHANGED <<ringVars, recvWaker, prodVars, consVars, retry, lenVars>>

\* A task calls len() between two sends or two receives.
LenLoadTail ==
    /\ LenCaller # None
    /\ LenCaller = Producer => ppc = "load" /\ spc[Producer] = "idle"
    /\ LenCaller = Consumer => cpc = "load" /\ rpc[Consumer] = "idle"
    /\ lpc = "idle"
    /\ ltail' = tail
    /\ lpc' = "head"
    /\ UNCHANGED <<ringVars, recvWaker, sendWaker, taskVars, prodVars, consVars, retry, length>>

LenLoadHead ==
    /\ lpc = "head"
    /\ length' = WrappingSub(ltail, head)
    /\ ltail' = 0
    /\ lpc' = "idle"
    /\ UNCHANGED <<ringVars, recvWaker, sendWaker, taskVars, prodVars, consVars, retry>>

-----------------------------------------------------------------------------

Produce ==
    \/ SendPollBegin \/ SendLoad \/ SendWrite \/ SendStoreTail \/ SendWake
    \/ SendReturn \/ SendRegister \/ SendPollEnd

Consume ==
    \/ RecvPollBegin \/ RecvLoad \/ RecvRead \/ RecvStoreHead \/ RecvWake
    \/ RecvReturn \/ RecvRegister \/ RecvPollEnd

Next ==
    \/ Produce \/ Consume
    \/ \E t \in Sides : RecvWakerStep(t) \/ SendWakerStep(t)
    \/ LenLoadTail \/ LenLoadHead

Spec == Init /\ [][Next]_vars

\* Running code is scheduled, and the executor polls a task it owes a poll.  A
\* task that calls len() goes on to its send or receive, hence the strong
\* fairness.
Fairness ==
    /\ WF_vars(Produce /\ (ppc = "parked" => owed[Producer]))
    /\ WF_vars(Consume /\ (cpc = "parked" => owed[Consumer]))
    /\ \A t \in Sides : WF_vars(RecvWakerStep(t)) /\ WF_vars(SendWakerStep(t))
    /\ WF_vars(LenLoadHead)
    /\ SF_vars(SendLoad) /\ SF_vars(RecvLoad)

FairSpec == Spec /\ Fairness

-----------------------------------------------------------------------------
(* Properties *)

\* The regions the two sides touch stay disjoint (the SAFETY comment at
\* channel.rs:66): the producer never writes the slot the consumer reads.
SlotsDisjoint == ppc = "write" /\ cpc = "read" => Index(tail) # Index(head)

\* The channel is a FIFO of N values: the k-th value after head is contents[k].
Contents ==
    [k \in 1..WrappingSub(tail, head) |-> buf[Index((head + k - 1) % 2^Width)]]

Queue == INSTANCE BoundedQueue WITH contents <- Contents

ImplementsQueue == Queue!Spec

\* Every value is delivered: the two tasks never both sleep with work left,
\* thanks to the second attempt after register (channel.rs:205).
AllDelivered == <>(Len(delivered) = MaxSends)
=============================================================================
