---------------------------- MODULE ChannelProofs ----------------------------
(***************************************************************************)
(* The ring of Channel<T, N> is a FIFO of N values, for every capacity,    *)
(* width of usize and number of sends for which the slots wrap where the   *)
(* counters do.                                                            *)
(*                                                                         *)
(* The proof replaces the wrapping counters by the numbers they stand for: *)
(* Sent and Received, which never wrap.  tail and head are their           *)
(* remainders, the slot of the k-th value is (k - 1) % N, and the ring     *)
(* holds the values Received + 1 .. Sent.                                  *)
(***************************************************************************)
EXTENDS Channel, Integers, TLAPS

Modulus == 2^Width

\* Where the counters wrap, the slots do: the capacity divides 2^Width, or so
\* few values are sent that the counters do not wrap.  channel.rs does not ask
\* for this, and needs it.
WrapsEvenly == Modulus % N = 0 \/ MaxSends < Modulus

-----------------------------------------------------------------------------
(* Remainders *)

\* A number is a multiple of n and its remainder, so that a counter is the
\* number it stands for but for some wraps.
LEMMA Quotient ==
    ASSUME NEW a \in Nat, NEW n \in Nat, n > 0
    PROVE  /\ a % n \in 0..(n - 1)
           /\ \E q \in Nat : a = (n * q) + (a % n)
<1>1. a = n * (a \div n) + (a % n) /\ a \div n \in Int
  OBVIOUS
<1>2. a % n \in 0..(n - 1)
  OBVIOUS
<1>3. a \div n >= 0
  OBVIOUS
<1> QED BY <1>1, <1>2, <1>3

\* ... in one way only.
LEMMA Remainder ==
    ASSUME NEW a \in Nat, NEW n \in Nat, n > 0,
           NEW q \in Int, NEW r \in 0..(n - 1), a = n * q + r
    PROVE  a % n = r
OBVIOUS

\* Numbers less than n apart have different remainders: fewer than N values use
\* a slot each.
LEMMA CloseDiffer ==
    ASSUME NEW a \in Nat, NEW b \in Nat, NEW n \in Nat, a < b, b < a + n
    PROVE  a % n # b % n
<1> SUFFICES ASSUME a % n = b % n PROVE FALSE
  OBVIOUS
<1>0. n > 0
  OBVIOUS
<1>1. PICK q \in Nat : a = (n * q) + (a % n)
  BY <1>0, Quotient
<1>2. PICK p \in Nat : b = (n * p) + (b % n)
  BY <1>0, Quotient
<1>3. b - a = n * (p - q) /\ p - q \in Int
  BY <1>1, <1>2
<1>4. CASE p - q <= 0
  <2>1. n * (p - q) <= 0
    BY <1>3, <1>4
  <2> QED BY <2>1, <1>3
<1>5. CASE p - q >= 1
  <2>1. n * (p - q) >= n
    BY <1>3, <1>5
  <2> QED BY <2>1, <1>3
<1> QED BY <1>3, <1>4, <1>5

\* Reducing a summand first changes nothing, as in wrapping_add.
LEMMA AddRemainder ==
    ASSUME NEW a \in Nat, NEW b \in Nat, NEW n \in Nat, n > 0
    PROVE  ((a % n) + b) % n = (a + b) % n
<1>1. PICK q \in Nat : a = (n * q) + (a % n)
  BY Quotient
<1>2. a % n \in 0..(n - 1)
  BY Quotient
<1> DEFINE c == (a % n) + b
<1>3. c \in Nat
  BY <1>2
<1>4. PICK p \in Nat : c = (n * p) + (c % n)
  BY <1>3, Quotient
<1>5. c % n \in 0..(n - 1)
  BY <1>3, Quotient
<1> HIDE DEF c
<1>6. a + b = n * (q + p) + (c % n)
  <2>1. a + b = n * q + c
    BY <1>1, <1>2 DEF c
  <2>2. n * (q + p) = n * q + n * p
    OBVIOUS
  <2> QED BY <2>1, <2>2, <1>4, <1>5
<1>7. (a + b) % n = c % n
  BY <1>5, <1>6, Remainder
<1> QED BY <1>7 DEF c

\* The remainders of two numbers less than n apart give their distance, as in
\* wrapping_sub.
LEMMA SubRemainders ==
    ASSUME NEW r \in Nat, NEW s \in Nat, NEW n \in Nat, r <= s, s - r < n
    PROVE  ((s % n) + n - (r % n)) % n = s - r
<1>0. n > 0
  OBVIOUS
<1>1. r % n \in 0..(n - 1) /\ s % n \in 0..(n - 1)
  BY <1>0, Quotient
<1>2. PICK c \in 0..(n - 1) : c = r % n
  BY <1>1
<1>3. PICK q \in Nat : r = n * q + c
  BY <1>0, <1>2, Quotient
<1>4. n * q \in Int /\ n * (q + 1) = n * q + n
  OBVIOUS
<1>5. n - c \in Nat /\ s + (n - c) \in Nat /\ s - r \in 0..(n - 1) /\ q + 1 \in Int
  OBVIOUS
<1>6. s + (n - c) = n * (q + 1) + (s - r)
  BY <1>3, <1>4
<1>7. (s + (n - c)) % n = s - r
  BY <1>0, <1>5, <1>6, Remainder
<1>8. ((s % n) + (n - c)) % n = (s + (n - c)) % n
  BY <1>0, <1>5, AddRemainder
<1>9. (s % n) + n - c = (s % n) + (n - c)
  BY <1>1
<1> QED BY <1>2, <1>7, <1>8, <1>9

\* A remainder of a multiple of n has the same remainder by n.
LEMMA NestedRemainder ==
    ASSUME NEW a \in Nat, NEW n \in Nat, NEW m \in Nat, n > 0, m > 0, m % n = 0
    PROVE  (a % m) % n = a % n
<1>1. PICK q \in Nat : a = (m * q) + (a % m)
  BY Quotient
<1>2. a % m \in Nat
  BY Quotient
<1>3. PICK p \in Nat : (a % m) = (n * p) + ((a % m) % n)
  BY <1>2, Quotient
<1>4. PICK k \in Nat : m = (n * k) + (m % n)
  BY Quotient
<1>5. (a % m) % n \in 0..(n - 1)
  BY <1>2, Quotient
<1>6. m * q = n * (k * q)
  BY <1>4
<1>7. a = n * (k * q + p) + ((a % m) % n)
  <2>1. n * (k * q + p) = n * (k * q) + n * p
    OBVIOUS
  <2>2. n * p \in Nat /\ n * (k * q) \in Nat
    OBVIOUS
  <2>3. a = (n * (k * q)) + ((n * p) + ((a % m) % n))
    BY <1>1, <1>3, <1>6
  <2> QED BY <1>5, <2>1, <2>2, <2>3
<1>8. k * q + p \in Int
  OBVIOUS
<1> QED BY <1>5, <1>7, <1>8, Remainder

\* The counters of the code, as remainders of the numbers they stand for.
LEMMA Constants ==
    /\ Modulus \in Nat /\ N \in Nat /\ MaxSends \in Nat
    /\ 0 < N /\ N < Modulus
    /\ Producer # Consumer /\ None \notin Sides /\ Observer \notin Sides
    /\ LenCaller \in Sides \union {Observer, None}
BY ChannelAssumption DEF Modulus, Sides

\* wrapping_add(1) moves a counter to the next number.
LEMMA IncOfCounter ==
    ASSUME NEW s \in Nat
    PROVE  WrappingInc(s % Modulus) = (s + 1) % Modulus
<1>1. Modulus \in Nat /\ Modulus > 0
  BY Constants
<1>2. ((s % Modulus) + 1) % Modulus = (s + 1) % Modulus
  BY <1>1, AddRemainder
<1> QED BY <1>2 DEF WrappingInc, Modulus

\* wrapping_sub is the distance between two counters that are less than a turn
\* apart.
LEMMA SubOfCounters ==
    ASSUME NEW r \in Nat, NEW s \in Nat, r <= s, s - r < Modulus
    PROVE  WrappingSub(s % Modulus, r % Modulus) = s - r
<1>0. Modulus \in Nat /\ Modulus > 0
  BY Constants
<1>1. ((s % Modulus) + Modulus - (r % Modulus)) % Modulus = s - r
  BY <1>0, SubRemainders
<1> QED BY <1>1 DEF WrappingSub, Modulus

\* The slot of a counter is the slot of the number it stands for.
LEMMA SlotOfCounter ==
    ASSUME WrapsEvenly, NEW s \in 0..MaxSends
    PROVE  Index(s % Modulus) = s % N
<1>1. CASE Modulus % N = 0
  <2>1. s \in Nat /\ N \in Nat /\ Modulus \in Nat /\ N > 0 /\ Modulus > 0
    BY Constants
  <2>2. (s % Modulus) % N = s % N
    BY <1>1, <2>1, NestedRemainder
  <2> QED BY <2>2 DEF Index
<1>2. CASE MaxSends < Modulus
  <2>1. s % Modulus = s
    BY <1>2, Constants
  <2> QED BY <2>1 DEF Index
<1> QED BY <1>1, <1>2 DEF WrapsEvenly

-----------------------------------------------------------------------------
(* The inductive invariant *)

\* How many values have been stored in the ring, and read from it: what tail
\* and head would be if they did not wrap.
Sent == IF ppc \in {"wake", "return"} THEN next ELSE next - 1
Received == Len(delivered)

\* tail and head count these, at most N apart; a side that has found room, or a
\* value, still has it.
Counted ==
    /\ tail = Sent % Modulus /\ head = Received % Modulus
    /\ Received <= Sent /\ Sent - Received <= N
    /\ ppc \notin {"parked", "over"} => next \in Values
    /\ ppc \in {"write", "store"} => Sent - Received < N
    /\ cpc \in {"read", "store"} => Received < Sent

\* Each value that is buffered is in its slot.
Buffered ==
    /\ \A k \in (Received + 1)..Sent : buf[(k - 1) % N] = k
    /\ ppc = "store" => buf[Sent % N] = next
    /\ cpc = "store" => got = Received + 1

\* The tail that len() has read is one that head has not passed, because the
\* task that calls len() does not send, or receive, meanwhile.
LenInv ==
    /\ lpc = "head" =>
        /\ LenCaller = Producer => ppc = "load" /\ ltail = tail
        /\ LenCaller = Consumer => cpc = "load"
        /\ LenCaller \in Sides
        /\ \E s \in Received..Sent : ltail = s % Modulus

-----------------------------------------------------------------------------
(* The invariant holds *)

\* The variables of the two wakers and of the tasks keep their types.
LEMMA PartsTyped ==
    RW!TypeOK /\ SW!TypeOK /\ T!TypeOK /\ [Next]_vars => RW!TypeOK' /\ SW!TypeOK' /\ T!TypeOK'
<1> SUFFICES ASSUME RW!TypeOK, SW!TypeOK, T!TypeOK, [Next]_vars
             PROVE  RW!TypeOK' /\ SW!TypeOK' /\ T!TypeOK'
  OBVIOUS
<1> USE DEF RW!TypeOK, SW!TypeOK, T!TypeOK, Sides, RW!Labels, RW!RegisterLabels, RW!TakeLabels,
        SW!Labels, SW!RegisterLabels, SW!TakeLabels, recvWaker, sendWaker, taskVars
<1>1. CASE UNCHANGED <<recvWaker, sendWaker, taskVars>>
  BY <1>1
<1>2. CASE SendPollBegin \/ SendPollEnd \/ RecvPollBegin \/ RecvPollEnd
  <2>1. CASE SendPollBegin
    BY <2>1 DEF SendPollBegin, T!BeginPoll
  <2>2. CASE SendPollEnd
    <3>1. UNCHANGED <<recvWaker, sendWaker>>
      BY <2>2 DEF SendPollEnd
    <3>2. CASE T!PollPending(Producer)
      BY <3>1, <3>2 DEF T!PollPending
    <3>3. CASE T!PollReady(Producer)
      BY <3>1, <3>3 DEF T!PollReady
    <3> QED BY <2>2, <3>2, <3>3 DEF SendPollEnd
  <2>3. CASE RecvPollBegin
    BY <2>3 DEF RecvPollBegin, T!BeginPoll
  <2>4. CASE RecvPollEnd
    BY <2>4 DEF RecvPollEnd, T!PollPending
  <2> QED BY <1>2, <2>1, <2>2, <2>3, <2>4
<1>3. CASE SendWake \/ RecvWake
  BY <1>3 DEF SendWake, RecvWake, RW!WakeBegin, RW!Goto, SW!WakeBegin, SW!Goto, RW!WAKING, SW!WAKING
<1>4. CASE SendRegister
  BY <1>4 DEF SendRegister, SW!Register, SW!RegisterClaim, SW!RegisterDuringWake,
     SW!RegisterRaced, SW!Goto, SW!Hold, SW!vars
<1>5. CASE RecvRegister
  BY <1>5 DEF RecvRegister, RW!Register, RW!RegisterClaim, RW!RegisterDuringWake,
     RW!RegisterRaced, RW!Goto, RW!Hold, RW!vars
<1>6. ASSUME NEW t \in Sides, RecvWakerStep(t) PROVE RW!TypeOK' /\ SW!TypeOK' /\ T!TypeOK'
  <2>1. CASE RW!Continue(t) /\ UNCHANGED taskVars
    BY <1>6, <2>1 DEF RecvWakerStep, RW!Continue, RW!RegisterStore, RW!RegisterRelease,
       RW!RegisterDrain, RW!RegisterUnlock, RW!WakeTake, RW!WakeClear, RW!Goto, RW!Hold, RW!WAITING
  <2>2. CASE RW!Invoke(t) /\ T!Wake(rheld[t])
    BY <1>6, <2>2 DEF RecvWakerStep, RW!Invoke, RW!Goto, RW!Hold, T!Wake
  <2> QED BY <1>6, <2>1, <2>2 DEF RecvWakerStep
<1>7. ASSUME NEW t \in Sides, SendWakerStep(t) PROVE RW!TypeOK' /\ SW!TypeOK' /\ T!TypeOK'
  <2>1. CASE SW!Continue(t) /\ UNCHANGED taskVars
    BY <1>7, <2>1 DEF SendWakerStep, SW!Continue, SW!RegisterStore, SW!RegisterRelease,
       SW!RegisterDrain, SW!RegisterUnlock, SW!WakeTake, SW!WakeClear, SW!Goto, SW!Hold, SW!WAITING
  <2>2. CASE SW!Invoke(t) /\ T!Wake(sheld[t])
    BY <1>7, <2>2 DEF SendWakerStep, SW!Invoke, SW!Goto, SW!Hold, T!Wake
  <2> QED BY <1>7, <2>1, <2>2 DEF SendWakerStep
<1>8. CASE SendLoad \/ SendWrite \/ SendStoreTail \/ SendReturn
  BY <1>1, <1>8 DEF SendLoad, SendWrite, SendStoreTail, SendReturn
<1>9. CASE RecvLoad \/ RecvRead \/ RecvStoreHead \/ RecvReturn
  BY <1>1, <1>9 DEF RecvLoad, RecvRead, RecvStoreHead, RecvReturn
<1>10. CASE LenLoadTail \/ LenLoadHead \/ UNCHANGED vars
  BY <1>1, <1>10 DEF LenLoadTail, LenLoadHead, vars
<1> QED BY <1>2, <1>3, <1>4, <1>5, <1>6, <1>7, <1>8, <1>9, <1>10 DEF Next, Produce, Consume

\* The numbers behind the counters, and the distance wrapping_sub finds.
LEMMA Numbers ==
    ASSUME Typed, Counted
    PROVE  /\ Sent \in 0..MaxSends /\ Received \in 0..MaxSends
           /\ next \in Nat /\ Modulus \in Nat
           /\ WrappingSub(tail, head) = Sent - Received
           /\ head # tail => Received < Sent
           /\ WrapsEvenly => Index(tail) = Sent % N /\ Index(head) = Received % N
<1>1. next \in Nat /\ next <= MaxSends + 1 /\ next >= 1
  BY Constants DEF Typed
<1>2. Received \in Nat
  BY DEF Typed, Received
<1>3. Sent \in 0..MaxSends /\ Received \in 0..MaxSends
  BY <1>1, <1>2, Constants DEF Sent, Counted, Values
<1>4. WrappingSub(tail, head) = Sent - Received
  <2>1. /\ Sent \in Nat /\ Received \in Nat /\ Received <= Sent
        /\ Sent - Received < Modulus
    BY <1>3, Constants DEF Counted
  <2>2. WrappingSub(Sent % Modulus, Received % Modulus) = Sent - Received
    BY <2>1, SubOfCounters
  <2> QED BY <2>2 DEF Counted
<1>5. head # tail => Received < Sent
  BY <1>3 DEF Counted
<1>6. WrapsEvenly => Index(tail) = Sent % N /\ Index(head) = Received % N
  BY <1>3, SlotOfCounter DEF Counted
<1> QED BY <1>1, <1>3, <1>4, <1>5, <1>6, Constants

\* Every step keeps the count.
LEMMA CountedStep == Typed /\ Counted /\ [Next]_vars => Counted'
<1> SUFFICES ASSUME Typed, Counted, [Next]_vars PROVE Counted'
  OBVIOUS
<1>0. /\ Sent \in Nat /\ Received \in Nat /\ next \in Nat
      /\ N \in Nat /\ MaxSends \in Nat /\ 0 < N
      /\ delivered \in Seq(Values \union {Empty})
  BY Numbers, Constants DEF Typed
<1> USE DEF Values
<1>1. CASE UNCHANGED <<ppc, next, cpc, delivered, head, tail>>
  BY <1>1 DEF Counted, Sent, Received
<1>2. CASE SendStoreTail
  <2>1. Sent' = Sent + 1 /\ Received' = Received /\ tail' = (Sent + 1) % Modulus
    BY <1>0, <1>2, IncOfCounter DEF SendStoreTail, Counted, Sent, Received, consVars
  <2> QED BY <1>0, <1>2, <2>1 DEF SendStoreTail, Counted, consVars
<1>3. CASE RecvStoreHead
  <2>1. Sent' = Sent /\ Received' = Received + 1 /\ head' = (Received + 1) % Modulus
    <3>1. Len(delivered') = Len(delivered) + 1
      BY <1>0, <1>3 DEF RecvStoreHead
    <3> QED BY <1>0, <1>3, <3>1, IncOfCounter DEF RecvStoreHead, Counted, Sent, Received, prodVars
  <2> QED BY <1>0, <1>3, <2>1 DEF RecvStoreHead, Counted, prodVars
<1>4. CASE SendPollBegin \/ SendWrite \/ SendWake \/ SendReturn \/ SendRegister \/ SendPollEnd
  <2>1. Sent' = Sent /\ Received' = Received /\ UNCHANGED <<head, tail, cpc>>
    BY <1>0, <1>4 DEF SendPollBegin, SendWrite, SendWake, SendReturn, SendRegister, SendPollEnd,
       Sent, Received, consVars, ringVars
  <2>2. ppc' \notin {"parked", "over"} => next' \in Values
    BY <1>0, <1>4 DEF SendPollBegin, SendWrite, SendWake, SendReturn, SendRegister, SendPollEnd, Counted
  <2>3. ppc' \in {"write", "store"} => ppc \in {"write", "store"}
    BY <1>4 DEF SendPollBegin, SendWrite, SendWake, SendReturn, SendRegister, SendPollEnd
  <2> QED BY <2>1, <2>2, <2>3 DEF Counted
<1>5. CASE SendLoad
  <2>1. Sent' = Sent /\ Received' = Received /\ UNCHANGED <<head, tail, cpc, next>>
    BY <1>5 DEF SendLoad, Sent, Received, consVars, ringVars
  <2>2. ppc' = "write" => Sent - Received < N
    BY <1>5, Numbers DEF SendLoad
  <2>3. ppc' # "store" /\ next' \in Values
    BY <1>5 DEF SendLoad, Counted
  <2> QED BY <2>1, <2>2, <2>3 DEF Counted
<1>6. CASE RecvPollBegin \/ RecvRead \/ RecvWake \/ RecvReturn \/ RecvRegister \/ RecvPollEnd
  BY <1>6 DEF RecvPollBegin, RecvRead, RecvWake, RecvReturn, RecvRegister, RecvPollEnd,
     Counted, Sent, Received, prodVars, ringVars
<1>7. CASE RecvLoad
  BY <1>7, Numbers DEF RecvLoad, Counted, Sent, Received, prodVars, ringVars
<1>8. ASSUME NEW t \in Sides, RecvWakerStep(t) \/ SendWakerStep(t) PROVE Counted'
  BY <1>1, <1>8 DEF RecvWakerStep, SendWakerStep, ringVars, prodVars, consVars
<1>9. CASE LenLoadTail \/ LenLoadHead \/ UNCHANGED vars
  BY <1>1, <1>9 DEF LenLoadTail, LenLoadHead, vars, ringVars, prodVars, consVars
<1> QED BY <1>2, <1>3, <1>4, <1>5, <1>6, <1>7, <1>8, <1>9 DEF Next, Produce, Consume

\* Every step keeps the values in their slots: the producer writes a slot that
\* no buffered value is in.
LEMMA BufferedStep ==
    ASSUME WrapsEvenly, Typed, Counted, Buffered, [Next]_vars
    PROVE  Buffered'
<1>0. /\ Sent \in Nat /\ Received \in Nat /\ next \in Nat /\ N \in Nat /\ 0 < N
      /\ Index(tail) = Sent % N /\ Index(head) = Received % N
      /\ Received <= Sent
      /\ delivered \in Seq(Values \union {Empty})
  BY Numbers, Constants DEF Typed, Counted
<1>1. CASE UNCHANGED <<ppc, next, cpc, got, delivered, buf>>
  BY <1>1 DEF Buffered, Sent, Received
<1>2. CASE SendWrite
  <2>1. /\ Sent' = Sent /\ Received' = Received /\ next = Sent + 1
        /\ UNCHANGED <<next, cpc, got>>
        /\ buf' = [buf EXCEPT ![Sent % N] = next]
    BY <1>0, <1>2 DEF SendWrite, Sent, Received, consVars
  <2>2. Sent % N \in 0..(N - 1)
    BY <1>0, Quotient
  <2>3. buf'[Sent % N] = next
    BY <2>1, <2>2 DEF Typed
  <2>4. ASSUME NEW k \in (Received + 1)..Sent PROVE buf'[(k - 1) % N] = k
    <3>1. k - 1 \in Nat /\ k - 1 < Sent /\ Sent < (k - 1) + N
      BY <1>0, <1>2 DEF SendWrite, Counted
    <3>2. (k - 1) % N # Sent % N
      BY <1>0, <3>1, CloseDiffer
    <3>3. (k - 1) % N \in 0..(N - 1)
      BY <1>0, <3>1, Quotient
    <3>4. buf'[(k - 1) % N] = buf[(k - 1) % N]
      BY <2>1, <3>2, <3>3 DEF Typed
    <3> QED BY <3>4 DEF Buffered
  <2> QED BY <2>1, <2>3, <2>4 DEF Buffered
<1>3. CASE SendStoreTail
  <2>1. /\ Sent' = Sent + 1 /\ Received' = Received /\ next = Sent + 1 /\ ppc' = "wake"
        /\ buf[Sent % N] = Sent + 1
        /\ UNCHANGED <<buf, cpc, got>>
    BY <1>0, <1>3 DEF SendStoreTail, Sent, Received, Buffered, consVars
  <2>2. ASSUME NEW k \in (Received + 1)..(Sent + 1) PROVE buf[(k - 1) % N] = k
    <3>1. CASE k = Sent + 1
      <4>1. k - 1 = Sent
        BY <1>0, <3>1
      <4> QED BY <2>1, <3>1, <4>1
    <3>2. CASE k # Sent + 1
      <4>1. k \in (Received + 1)..Sent
        BY <1>0, <3>2
      <4> QED BY <4>1 DEF Buffered
    <3> QED BY <3>1, <3>2
  <2> QED BY <2>1, <2>2 DEF Buffered
<1>4. CASE RecvRead
  <2>1. /\ Sent' = Sent /\ Received' = Received
        /\ got' = buf[Received % N]
        /\ UNCHANGED <<buf, ppc, next>>
    BY <1>0, <1>4 DEF RecvRead, Sent, Received, prodVars, ringVars
  <2>2. Received + 1 \in (Received + 1)..Sent /\ (Received + 1) - 1 = Received
    BY <1>0, <1>4 DEF RecvRead, Counted
  <2>3. got' = Received + 1
    BY <2>1, <2>2 DEF Buffered
  <2> QED BY <2>1, <2>3 DEF Buffered
<1>5. CASE RecvStoreHead
  <2>1. Sent' = Sent /\ Received' = Received + 1 /\ cpc' = "wake" /\ UNCHANGED <<buf, ppc, next>>
    <3>1. Len(delivered') = Len(delivered) + 1
      BY <1>0, <1>5 DEF RecvStoreHead
    <3> QED BY <1>5, <3>1 DEF RecvStoreHead, Sent, Received, prodVars
  <2>2. \A k \in (Received + 1 + 1)..Sent : k \in (Received + 1)..Sent
    BY <1>0
  <2> QED BY <2>1, <2>2 DEF Buffered
<1>6. CASE SendPollBegin \/ SendLoad \/ SendWake \/ SendReturn \/ SendRegister \/ SendPollEnd
  <2>1. /\ Sent' = Sent /\ Received' = Received /\ UNCHANGED <<buf, cpc, got>>
        /\ ppc' # "store"
    BY <1>0, <1>6 DEF SendPollBegin, SendLoad, SendWake, SendReturn, SendRegister, SendPollEnd,
       Sent, Received, consVars, ringVars
  <2> QED BY <2>1 DEF Buffered
<1>7. CASE RecvPollBegin \/ RecvLoad \/ RecvWake \/ RecvReturn \/ RecvRegister \/ RecvPollEnd
  <2>1. Sent' = Sent /\ Received' = Received /\ UNCHANGED <<buf, ppc, next>> /\ cpc' # "store"
    BY <1>7 DEF RecvPollBegin, RecvLoad, RecvWake, RecvReturn, RecvRegister, RecvPollEnd,
       Sent, Received, prodVars, ringVars
  <2> QED BY <2>1 DEF Buffered
<1>8. ASSUME NEW t \in Sides, RecvWakerStep(t) \/ SendWakerStep(t) PROVE Buffered'
  BY <1>1, <1>8 DEF RecvWakerStep, SendWakerStep, ringVars, prodVars, consVars
<1>9. CASE LenLoadTail \/ LenLoadHead \/ UNCHANGED vars
  BY <1>1, <1>9 DEF LenLoadTail, LenLoadHead, vars, ringVars, prodVars, consVars
<1> QED BY <1>2, <1>3, <1>4, <1>5, <1>6, <1>7, <1>8, <1>9 DEF Next, Produce, Consume

\* Every step keeps what len() has read, unless a third thread calls it.
LEMMA LenInvStep ==
    ASSUME LenCaller # Observer, Typed, Counted, LenInv, [Next]_vars
    PROVE  LenInv'
<1>0. /\ Sent \in Nat /\ Received \in Nat /\ next \in Nat /\ Received <= Sent
      /\ Producer # Consumer /\ LenCaller \in {Producer, Consumer, None} /\ None \notin Sides
      /\ delivered \in Seq(Values \union {Empty})
      /\ tail = Sent % Modulus /\ head = Received % Modulus
  BY Numbers, Constants DEF Typed, Counted, Sides
<1>1. CASE UNCHANGED <<ppc, next, cpc, delivered, head, tail, lenVars>>
  BY <1>1 DEF LenInv, Sent, Received, lenVars
<1>2. CASE SendStoreTail \/ SendPollBegin \/ SendLoad \/ SendWrite \/ SendWake \/ SendReturn
           \/ SendRegister \/ SendPollEnd
  <2>1. /\ Sent' \in {Sent, Sent + 1} /\ Received' = Received /\ UNCHANGED <<cpc, lpc, ltail>>
        /\ lpc = "head" /\ LenCaller = Producer => FALSE
    BY <1>0, <1>2 DEF SendStoreTail, SendPollBegin, SendLoad, SendWrite, SendWake, SendReturn,
       SendRegister, SendPollEnd, LenInv, Sent, Received, consVars, lenVars
  <2>2. Received..Sent \subseteq Received'..Sent'
    BY <1>0, <2>1
  <2> QED BY <2>1, <2>2 DEF LenInv
<1>3. CASE RecvStoreHead
  <2>1. /\ Sent' = Sent /\ Received' = Received + 1 /\ UNCHANGED <<ppc, tail, lpc, ltail>>
        /\ Received < Sent
    <3>1. Len(delivered') = Len(delivered) + 1
      BY <1>0, <1>3 DEF RecvStoreHead
    <3> QED BY <1>0, <1>3, <3>1 DEF RecvStoreHead, Counted, Sent, Received, prodVars, lenVars
  <2>2. lpc = "head" => LenCaller = Producer /\ ltail = Sent % Modulus
    BY <1>0, <1>3 DEF RecvStoreHead, LenInv, Sides
  <2>3. Sent \in (Received + 1)..Sent
    BY <1>0, <2>1
  <2> QED BY <1>0, <2>1, <2>2, <2>3 DEF LenInv, Sides
<1>4. CASE RecvPollBegin \/ RecvRead \/ RecvWake \/ RecvReturn \/ RecvRegister \/ RecvPollEnd \/ RecvLoad
  <2>1. /\ Sent' = Sent /\ Received' = Received /\ UNCHANGED <<ppc, tail, lpc, ltail>>
        /\ lpc = "head" /\ LenCaller = Consumer => FALSE
    BY <1>4 DEF RecvPollBegin, RecvRead, RecvWake, RecvReturn, RecvRegister, RecvPollEnd, RecvLoad,
       LenInv, Sent, Received, prodVars, ringVars, lenVars
  <2> QED BY <2>1 DEF LenInv
<1>5. CASE LenLoadTail
  <2>1. /\ Sent' = Sent /\ Received' = Received /\ UNCHANGED <<ppc, cpc, tail>> /\ ltail' = tail
        /\ LenCaller = Producer => ppc = "load"
        /\ LenCaller = Consumer => cpc = "load"
        /\ LenCaller \in Sides
    BY <1>0, <1>5 DEF LenLoadTail, Sent, Received, prodVars, consVars, ringVars, Sides
  <2>2. Sent \in Received..Sent
    BY <1>0
  <2> QED BY <1>0, <2>1, <2>2 DEF LenInv
<1>6. CASE LenLoadHead
  BY <1>6 DEF LenLoadHead, LenInv
<1>7. ASSUME NEW t \in Sides, RecvWakerStep(t) \/ SendWakerStep(t) PROVE LenInv'
  BY <1>1, <1>7 DEF RecvWakerStep, SendWakerStep, ringVars, prodVars, consVars
<1>8. CASE UNCHANGED vars
  BY <1>1, <1>8 DEF vars, ringVars, prodVars, consVars
<1> QED BY <1>2, <1>3, <1>4, <1>5, <1>6, <1>7, <1>8 DEF Next, Produce, Consume

\* Every step keeps the types.
LEMMA TypedStep == Typed /\ Counted /\ [Next]_vars => Typed'
<1> SUFFICES ASSUME Typed, Counted, [Next]_vars PROVE Typed'
  OBVIOUS
<1>0. RW!TypeOK' /\ SW!TypeOK' /\ T!TypeOK'
  BY PartsTyped DEF Typed
<1>a. N \in Nat /\ N > 0 /\ MaxSends \in Nat /\ Modulus \in Nat /\ Modulus > 0 /\ Sides = {Producer, Consumer}
      /\ Counters = 0..(Modulus - 1)
  BY Constants DEF Sides, Counters, Modulus
<1>b. head \in Nat /\ tail \in Nat /\ \A n \in Nat : n % Modulus \in Counters /\ n % N \in 0..(N - 1)
  BY <1>a, Quotient DEF Typed
<1> DEFINE Labels == /\ ppc \in {"parked", "load", "write", "store", "wake", "return", "register", "pending", "over"}
                     /\ cpc \in {"parked", "load", "read", "store", "wake", "return", "register", "pending"}
                     /\ retry \in [Sides -> BOOLEAN]
           Ring   == buf \in [0..(N - 1) -> Values \union {Empty}] /\ head \in Counters /\ tail \in Counters
           Sends  == next \in 1..(MaxSends + 1)
           Recvs  == got \in Values \union {Empty} /\ delivered \in Seq(Values \union {Empty})
           Lens   == lpc \in {"idle", "head"} /\ ltail \in Counters /\ length \in Counters
<1>1. Labels'
  <2>1. CASE UNCHANGED <<ppc, cpc, retry>>
    BY <2>1 DEF Typed
  <2>2. CASE Produce
    BY <1>a, <2>2 DEF Produce, SendPollBegin, SendLoad, SendWrite, SendStoreTail, SendWake, SendReturn,
       SendRegister, SendPollEnd, Typed, consVars
  <2>3. CASE Consume
    BY <1>a, <2>3 DEF Consume, RecvPollBegin, RecvLoad, RecvRead, RecvStoreHead, RecvWake, RecvReturn,
       RecvRegister, RecvPollEnd, Typed, prodVars
  <2>4. ASSUME NEW t \in Sides, RecvWakerStep(t) \/ SendWakerStep(t) PROVE UNCHANGED <<ppc, cpc, retry>>
    BY <2>4 DEF RecvWakerStep, SendWakerStep, prodVars, consVars
  <2>5. CASE LenLoadTail \/ LenLoadHead \/ UNCHANGED vars
    BY <2>1, <2>5 DEF LenLoadTail, LenLoadHead, vars, prodVars, consVars
  <2> QED BY <2>1, <2>2, <2>3, <2>4, <2>5 DEF Next
<1>2. Ring'
  <2>1. CASE UNCHANGED ringVars
    BY <2>1 DEF ringVars, Typed
  <2>2. CASE SendWrite
    <3>1. next \in Values /\ Index(tail) \in 0..(N - 1)
      BY <1>b, <2>2 DEF SendWrite, Counted, Index
    <3> QED BY <2>2, <3>1 DEF SendWrite, Typed
  <2>3. CASE SendStoreTail \/ RecvStoreHead
    <3>1. WrappingInc(tail) \in Counters /\ WrappingInc(head) \in Counters
      BY <1>b DEF WrappingInc, Modulus
    <3> QED BY <2>3, <3>1 DEF SendStoreTail, RecvStoreHead, Typed
  <2>4. ASSUME NEW t \in Sides, RecvWakerStep(t) \/ SendWakerStep(t) PROVE UNCHANGED ringVars
    BY <2>4 DEF RecvWakerStep, SendWakerStep
  <2>5. CASE UNCHANGED vars \/ LenLoadTail \/ LenLoadHead
    BY <2>1, <2>5 DEF vars, LenLoadTail, LenLoadHead
  <2>6. CASE SendPollBegin \/ SendLoad \/ SendWake \/ SendReturn \/ SendRegister \/ SendPollEnd
    BY <2>1, <2>6 DEF SendPollBegin, SendLoad, SendWake, SendReturn, SendRegister, SendPollEnd
  <2>7. CASE RecvPollBegin \/ RecvLoad \/ RecvRead \/ RecvWake \/ RecvReturn \/ RecvRegister \/ RecvPollEnd
    BY <2>1, <2>7 DEF RecvPollBegin, RecvLoad, RecvRead, RecvWake, RecvReturn, RecvRegister, RecvPollEnd
  <2> QED BY <2>1, <2>2, <2>3, <2>4, <2>5, <2>6, <2>7 DEF Next, Produce, Consume
<1>3. Sends'
  <2>1. CASE SendReturn
    BY <1>a, <2>1 DEF SendReturn, Counted, Typed, Values
  <2>2. CASE UNCHANGED next
    BY <2>2 DEF Typed
  <2>3. CASE Produce
    BY <2>1, <2>2, <2>3 DEF Produce, SendPollBegin, SendLoad, SendWrite, SendStoreTail, SendWake,
       SendRegister, SendPollEnd
  <2>4. CASE Consume
    BY <2>2, <2>4 DEF Consume, RecvPollBegin, RecvLoad, RecvRead, RecvStoreHead, RecvWake, RecvReturn,
       RecvRegister, RecvPollEnd, prodVars
  <2>5. ASSUME NEW t \in Sides, RecvWakerStep(t) \/ SendWakerStep(t) PROVE UNCHANGED next
    BY <2>5 DEF RecvWakerStep, SendWakerStep, prodVars
  <2>6. CASE LenLoadTail \/ LenLoadHead \/ UNCHANGED vars
    BY <2>2, <2>6 DEF LenLoadTail, LenLoadHead, vars, prodVars
  <2> QED BY <2>2, <2>3, <2>4, <2>5, <2>6 DEF Next
<1>4. Recvs'
  <2>1. CASE RecvRead
    BY <1>b, <2>1 DEF RecvRead, Typed, Index
  <2>2. CASE RecvStoreHead \/ RecvReturn
    <3>1. got \in Values \union {Empty} /\ delivered \in Seq(Values \union {Empty})
      BY DEF Typed
    <3>2. Append(delivered, got) \in Seq(Values \union {Empty})
      BY <3>1
    <3>3. got' \in {got, Empty} /\ delivered' \in {delivered, Append(delivered, got)}
      BY <2>2 DEF RecvStoreHead, RecvReturn
    <3> QED BY <3>1, <3>2, <3>3
  <2>3. CASE UNCHANGED <<got, delivered>>
    BY <2>3 DEF Typed
  <2>4. CASE Produce
    BY <2>3, <2>4 DEF Produce, SendPollBegin, SendLoad, SendWrite, SendStoreTail, SendWake, SendReturn,
       SendRegister, SendPollEnd, consVars
  <2>5. CASE Consume
    BY <2>1, <2>2, <2>3, <2>5 DEF Consume, RecvPollBegin, RecvLoad, RecvWake, RecvRegister, RecvPollEnd
  <2>6. ASSUME NEW t \in Sides, RecvWakerStep(t) \/ SendWakerStep(t) PROVE UNCHANGED <<got, delivered>>
    BY <2>6 DEF RecvWakerStep, SendWakerStep, consVars
  <2>7. CASE LenLoadTail \/ LenLoadHead \/ UNCHANGED vars
    BY <2>3, <2>7 DEF LenLoadTail, LenLoadHead, vars, consVars
  <2> QED BY <2>3, <2>4, <2>5, <2>6, <2>7 DEF Next
<1>5. Lens'
  <2>1. CASE LenLoadTail
    BY <2>1 DEF LenLoadTail, Typed
  <2>2. CASE LenLoadHead
    <3>1. ltail + Modulus - head \in Nat
      BY <1>a DEF Typed
    <3>2. WrappingSub(ltail, head) \in Counters /\ 0 \in Counters
      BY <1>a, <1>b, <3>1 DEF WrappingSub, Modulus
    <3> QED BY <2>2, <3>2 DEF LenLoadHead
  <2>3. CASE UNCHANGED lenVars
    BY <2>3 DEF lenVars, Typed
  <2>4. CASE Produce
    BY <2>3, <2>4 DEF Produce, SendPollBegin, SendLoad, SendWrite, SendStoreTail, SendWake, SendReturn,
       SendRegister, SendPollEnd
  <2>5. CASE Consume
    BY <2>3, <2>5 DEF Consume, RecvPollBegin, RecvLoad, RecvRead, RecvStoreHead, RecvWake, RecvReturn,
       RecvRegister, RecvPollEnd
  <2>6. ASSUME NEW t \in Sides, RecvWakerStep(t) \/ SendWakerStep(t) PROVE UNCHANGED lenVars
    BY <2>6 DEF RecvWakerStep, SendWakerStep
  <2>7. CASE UNCHANGED vars
    BY <2>3, <2>7 DEF vars
  <2> QED BY <2>1, <2>2, <2>3, <2>4, <2>5, <2>6, <2>7 DEF Next
<1> QED BY <1>0, <1>1, <1>2, <1>3, <1>4, <1>5 DEF Typed

\* The counters, and the values in the ring, in every reachable state.
LEMMA CountedHolds == Spec => [](Typed /\ Counted)
<1>1. Init => Typed /\ Counted
  <2> SUFFICES ASSUME Init PROVE Typed /\ Counted
    OBVIOUS
  <2>0. N \in Nat /\ N > 0 /\ MaxSends \in Nat /\ Modulus \in Nat /\ Modulus > 0
    BY Constants
  <2>1. 0 \in Counters /\ 0 % Modulus = 0
    BY <2>0 DEF Counters, Modulus
  <2>2. RW!TypeOK /\ SW!TypeOK
    BY DEF Init, RW!Init, SW!Init, RW!TypeOK, SW!TypeOK, RW!Labels, SW!Labels, RW!WAITING, SW!WAITING
  <2>3. T!TypeOK
    BY DEF Init, T!TypeOK
  <2>4. Typed
    BY <2>0, <2>1, <2>2, <2>3 DEF Init, Typed
  <2>5. Sent = 0 /\ Received = 0
    BY DEF Init, Sent, Received
  <2>6. Counted
    BY <2>0, <2>1, <2>5 DEF Init, Counted
  <2> QED BY <2>4, <2>6
<1> QED BY <1>1, TypedStep, CountedStep, PTL DEF Spec

\* The slots hold what the counters say, in every state.
LEMMA BufferedHolds ==
    ASSUME WrapsEvenly
    PROVE  Spec => []Buffered
<1>1. Init => Buffered
  <2> SUFFICES ASSUME Init PROVE Buffered
    OBVIOUS
  <2>1. Sent = 0 /\ Received = 0
    BY DEF Init, Sent, Received
  <2> QED BY <2>1 DEF Init, Buffered
<1>2. Typed /\ Counted /\ Buffered /\ [Next]_vars => Buffered'
  BY BufferedStep
<1> QED BY <1>1, <1>2, CountedHolds, PTL DEF Spec

-----------------------------------------------------------------------------
(* The theorems *)

\* len() is at most the capacity when one of the two tasks calls it between its
\* sends or receives: its own counter stands still between the two loads.
LEMMA LenOfATask ==
    ASSUME LenCaller # Observer
    PROVE  Spec => [](length <= N)
<1> DEFINE I == LenInv /\ length <= N
<1>1. Init => I
  BY Constants DEF Init, LenInv
<1>2. Typed /\ Counted /\ I /\ [Next]_vars => I'
  <2> SUFFICES ASSUME Typed, Counted, I, [Next]_vars PROVE I'
    OBVIOUS
  <2>1. LenInv'
    BY LenInvStep
  <2>2. CASE LenLoadHead
    <3>1. PICK s \in Received..Sent : ltail = s % Modulus
      BY <2>2 DEF LenLoadHead, LenInv
    <3>2. /\ Received \in Nat /\ s \in Nat /\ Received <= s /\ s - Received <= N
          /\ N < Modulus /\ Modulus \in Nat /\ N \in Nat /\ head = Received % Modulus
      BY Numbers, Constants DEF Counted
    <3>3. s - Received < Modulus
      BY <3>2
    <3>4. WrappingSub(ltail, head) = s - Received
      BY <3>1, <3>2, <3>3, SubOfCounters
    <3>5. length' <= N
      BY <2>2, <3>2, <3>4 DEF LenLoadHead
    <3> QED BY <2>1, <3>5
  <2>3. CASE ~LenLoadHead
    <3>1. ASSUME Produce PROVE length' = length
      BY <3>1 DEF Produce, SendPollBegin, SendLoad, SendWrite, SendStoreTail, SendWake, SendReturn,
         SendRegister, SendPollEnd, lenVars
    <3>2. ASSUME Consume PROVE length' = length
      BY <3>2 DEF Consume, RecvPollBegin, RecvLoad, RecvRead, RecvStoreHead, RecvWake, RecvReturn,
         RecvRegister, RecvPollEnd, lenVars
    <3>3. ASSUME NEW t \in Sides, RecvWakerStep(t) \/ SendWakerStep(t) PROVE length' = length
      BY <3>3 DEF RecvWakerStep, SendWakerStep, lenVars
    <3>4. ASSUME UNCHANGED vars \/ LenLoadTail PROVE length' = length
      BY <3>4 DEF vars, LenLoadTail, lenVars
    <3>5. length' = length
      BY <2>3, <3>1, <3>2, <3>3, <3>4 DEF Next
    <3> QED BY <2>1, <3>5
  <2> QED BY <2>2, <2>3
<1> QED BY <1>1, <1>2, CountedHolds, PTL DEF Spec

\* The variables of the channel keep their types, whoever calls len(): among
\* others, both counters and what len() returns stay within their width.  That
\* len() is at most the capacity, the rest of TypeOK, is shown for the two tasks.
\* It does not hold for a third thread, which both may overtake between the loads.
THEOREM ChannelTypeCorrect == Spec => [](Typed /\ (LenCaller # Observer => TypeOK))
<1>1. CASE LenCaller = Observer
  <2>1. Typed => Typed /\ (LenCaller # Observer => TypeOK)
    BY <1>1
  <2> QED BY <2>1, CountedHolds, PTL
<1>2. CASE LenCaller # Observer
  <2>1. Spec => [](length <= N)
    BY <1>2, LenOfATask
  <2>2. Typed /\ length <= N => Typed /\ (LenCaller # Observer => TypeOK)
    BY DEF TypeOK
  <2> QED BY <2>1, <2>2, CountedHolds, PTL
<1> QED BY <1>1, <1>2

\* The producer and the consumer never touch the same slot: a slot in use by the
\* consumer is one of the Sent - Received < N values the producer stays ahead of.
THEOREM SlotsStayDisjoint ==
    ASSUME WrapsEvenly
    PROVE  Spec => []SlotsDisjoint
<1>1. Typed /\ Counted => SlotsDisjoint
  <2> SUFFICES ASSUME Typed, Counted, ppc = "write", cpc = "read" PROVE Index(tail) # Index(head)
    BY DEF SlotsDisjoint
  <2>1. /\ Sent \in Nat /\ Received \in Nat /\ N \in Nat
        /\ Index(tail) = Sent % N /\ Index(head) = Received % N
    BY Numbers, Constants
  <2>2. Received < Sent /\ Sent < Received + N
    BY <2>1 DEF Counted
  <2>3. Received % N # Sent % N
    BY <2>1, <2>2, CloseDiffer
  <2> QED BY <2>1, <2>3
<1> QED BY <1>1, CountedHolds, PTL

\* The value after head by k - 1 is the (Received + k)-th that was sent.
ContentsInOrder == Contents = [k \in 1..(Sent - Received) |-> Received + k]

\* The ring holds the values that were sent and not received, in order.
LEMMA ContentsHold ==
    ASSUME WrapsEvenly
    PROVE  Typed /\ Counted /\ Buffered => ContentsInOrder
<1> SUFFICES ASSUME Typed, Counted, Buffered PROVE ContentsInOrder
  OBVIOUS
<1>1. /\ Sent \in 0..MaxSends /\ Received \in 0..MaxSends /\ Received <= Sent
      /\ N \in Nat /\ N > 0 /\ MaxSends \in Nat /\ Modulus \in Nat /\ Modulus > 0
      /\ WrappingSub(tail, head) = Sent - Received
      /\ head = Received % Modulus
  BY Numbers, Constants DEF Counted
<1>2. ASSUME NEW k \in 1..(Sent - Received)
      PROVE  buf[Index((head + k - 1) % Modulus)] = Received + k
  <2>1. /\ k - 1 \in Nat /\ Received \in Nat /\ Received + (k - 1) \in 0..MaxSends
        /\ Received + k \in (Received + 1)..Sent /\ (Received + k) - 1 = Received + (k - 1)
    BY <1>1
  <2>2. head \in Nat
    BY <1>1, <2>1, Quotient
  <2>3. head + k - 1 = (Received % Modulus) + (k - 1)
    BY <1>1, <2>1, <2>2
  <2>4. (head + k - 1) % Modulus = (Received + (k - 1)) % Modulus
    BY <1>1, <2>1, <2>3, AddRemainder
  <2>5. Index((head + k - 1) % Modulus) = (Received + (k - 1)) % N
    BY <2>1, <2>4, SlotOfCounter
  <2> QED BY <2>1, <2>5 DEF Buffered
<1> QED BY <1>1, <1>2 DEF ContentsInOrder, Contents, Modulus

\* The channel implements BoundedQueue: storing tail sends, storing head
\* receives the oldest value, and every other step leaves the queue alone.
THEOREM ChannelIsQueue ==
    ASSUME WrapsEvenly
    PROVE  Spec => ImplementsQueue
<1> DEFINE I == Typed /\ Counted /\ Buffered /\ ContentsInOrder
<1>1. Init => Queue!Init
  <2> SUFFICES ASSUME Init PROVE Queue!Init
    OBVIOUS
  <2>1. WrappingSub(tail, head) = 0
    <3>1. Modulus \in Nat /\ Modulus > 0
      BY Constants
    <3>2. (0 + Modulus - 0) % Modulus = 0
      BY <3>1, Remainder
    <3> QED BY <3>2 DEF Init, WrappingSub, Modulus
  <2> QED BY <2>1 DEF Init, Queue!Init, Contents
<1>2. I /\ ContentsInOrder' /\ [Next]_vars => [Queue!Next]_(Queue!vars)
  <2> SUFFICES ASSUME I, ContentsInOrder', [Next]_vars PROVE [Queue!Next]_(Queue!vars)
    OBVIOUS
  <2>0. /\ Sent \in Nat /\ Received \in Nat /\ Received <= Sent /\ N \in Nat /\ next \in Nat
        /\ Contents = [k \in 1..(Sent - Received) |-> Received + k]
        /\ Contents' = [k \in 1..(Sent' - Received') |-> Received' + k]
        /\ delivered \in Seq(Values \union {Empty})
    BY Numbers, Constants DEF Counted, Typed, ContentsInOrder
  <2>1. CASE SendStoreTail
    <3>1. /\ Sent' = Sent + 1 /\ Received' = Received /\ next = Sent + 1 /\ delivered' = delivered
          /\ Sent - Received < N /\ next \in Values
      BY <2>0, <2>1 DEF SendStoreTail, Counted, Sent, Received, consVars
    <3>2. Len(Contents) = Sent - Received /\ Contents \in Seq(Nat)
      BY <2>0
    <3>3. Contents' = Append(Contents, next)
      BY <2>0, <3>1, <3>2
    <3>4. Queue!Send(next)
      BY <3>1, <3>2, <3>3 DEF Queue!Send
    <3> QED BY <3>1, <3>4 DEF Queue!Next
  <2>2. CASE RecvStoreHead
    <3>1. /\ Sent' = Sent /\ Received' = Received + 1 /\ delivered' = Append(delivered, got)
          /\ got = Received + 1 /\ Received < Sent
      <4>1. Len(delivered') = Len(delivered) + 1
        BY <2>0, <2>2 DEF RecvStoreHead
      <4> QED BY <2>0, <2>2, <4>1 DEF RecvStoreHead, Counted, Buffered, Sent, Received, prodVars
    <3>2. Len(Contents) = Sent - Received /\ Contents \in Seq(Nat) /\ Contents # <<>>
      BY <2>0, <3>1
    <3>3. Head(Contents) = got
      BY <2>0, <3>1, <3>2
    <3>4. Contents' = Tail(Contents)
      BY <2>0, <3>1, <3>2
    <3>5. Queue!Recv
      BY <3>1, <3>2, <3>3, <3>4 DEF Queue!Recv
    <3> QED BY <3>5 DEF Queue!Next
  <2>3. CASE ~SendStoreTail /\ ~RecvStoreHead
    <3>1. Sent' = Sent /\ delivered' = delivered
      <4>0. next \in Nat
        BY Numbers
      <4>1. CASE Produce
        BY <2>3, <4>0, <4>1 DEF Produce, SendPollBegin, SendLoad, SendWrite, SendWake, SendReturn,
           SendRegister, SendPollEnd, Sent, consVars
      <4>2. CASE Consume
        BY <2>3, <4>2 DEF Consume, RecvPollBegin, RecvLoad, RecvRead, RecvWake, RecvReturn,
           RecvRegister, RecvPollEnd, Sent, prodVars
      <4>3. ASSUME NEW t \in Sides, RecvWakerStep(t) \/ SendWakerStep(t)
            PROVE  Sent' = Sent /\ delivered' = delivered
        BY <4>3 DEF RecvWakerStep, SendWakerStep, prodVars, consVars, Sent
      <4>4. CASE LenLoadTail \/ LenLoadHead \/ UNCHANGED vars
        BY <4>4 DEF LenLoadTail, LenLoadHead, vars, prodVars, consVars, Sent
      <4> QED BY <4>1, <4>2, <4>3, <4>4 DEF Next
    <3>2. Contents' = Contents
      BY <2>0, <3>1 DEF Received
    <3> QED BY <3>1, <3>2 DEF Queue!vars
  <2> QED BY <2>1, <2>2, <2>3
<1> QED BY <1>1, <1>2, CountedHolds, BufferedHolds, ContentsHold, PTL DEF Spec, ImplementsQueue, Queue!Spec
=============================================================================
