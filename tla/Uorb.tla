-------------------------------- MODULE Uorb --------------------------------
(***************************************************************************)
(* One uORB topic: the broker of px4-uorb (the mock of ffi.rs), a          *)
(* Publication that several threads share (pub_.rs, and its byte-shaped    *)
(* twin in raw.rs) and a Subscription in the future of one task (sub.rs,   *)
(* raw.rs).  Subscriptions meet only in the callback list, so one stands   *)
(* for all.                                                                *)
(*                                                                         *)
(* The threads publish, advertise and unadvertise as they like; the task   *)
(* runs `loop { sub.recv().await }`, asks for missed_count() now and then, *)
(* and may drop the Subscription.  The broker takes its locks (data, seq,  *)
(* callbacks) one after the other, so each critical section is an action;  *)
(* only the callback list stays locked over several.                       *)
(***************************************************************************)
EXTENDS Naturals, FiniteSets

CONSTANTS
    Threads,            \* the threads that share the Publication
    Sub,                \* the subscribing task; also its waker and its thread
    None,
    UnadvertiseRaces,   \* TRUE: unadvertise() may overlap other calls
    MaxCalls            \* bound: calls of publish, advertise and unadvertise

ASSUME UorbAssumption ==
    /\ IsFiniteSet(Threads)
    /\ Sub \notin Threads
    /\ None \notin Threads \union {Sub}
    /\ UnadvertiseRaces \in BOOLEAN
    /\ MaxCalls \in Nat

Procs == Threads \union {Sub}

VARIABLES
    data,                       \* TopicState.data: the message last copied into it
    writes, written,            \* history: how many copies, and of which messages
    seq,                        \* TopicState.seq
    lock,                       \* the owner of TopicState.callbacks, or None
    registered,                 \* the Subscription's callback is in the list
    handle,                     \* Publication.handle is non-null
    adverts,                    \* handles advertised and not unadvertised
    tpc,                        \* tpc[t]: where t is inside its call
    call,                       \* call[t]: the method t is in, the broker function
                                \* it has called, and the message it is about
    calls,                      \* calls so far
    wstate, slot, wpc, held,    \* Subscription.waker, see AtomicWaker
    live, owed, polling,        \* the subscribing task, see Task
    spc,                        \* where the task is
    retry,                      \* it has registered its waker and tries again
    cur,                        \* the sequence number sub_cb_update read
    lastSeen, lost,             \* SubCbInner.last_seen, SubCbInner.lost
    missed,                     \* the sum of what missed_count() returned
    got, seen,                  \* history: how many samples recv() has returned,
                                \* of which messages,
    newest                      \* ... and which write the last of them was

topicVars  == <<data, writes, written, seq, lock, registered>>
pubVars    == <<handle, adverts, tpc, call, calls>>
wakerVars  == <<wstate, slot, wpc, held>>
taskVars   == <<live, owed, polling>>
cbVars     == <<lastSeen, lost, missed, got, seen, newest>>
subVars    == <<spc, retry, cur, cbVars>>
vars == <<topicVars, pubVars, wakerVars, taskVars, subVars>>

W == INSTANCE AtomicWaker WITH Wakers <- {Sub}, state <- wstate, pc <- wpc
T == INSTANCE Task WITH Cells <- {Sub}

\* A message is named after the thread that publishes it and a number of its own.
Messages == (Threads \union {None}) \X (0..MaxCalls)
NoMessage == <<None, 0>>

NoCall == [method |-> "none", ffi |-> "none", id |-> NoMessage]
Methods == {"publish", "advertise"}
CallType == [method : Methods \union {"none"}, ffi : {"none", "advertise", "publish"}, id : Messages]
PubLabels == {"idle", "ensure", "write", "bump", "lock", "dispatch", "unlock",
              "cas", "release", "reload", "null"}
SubLabels == {"parked", "try", "copy", "got", "register", "pending", "delete", "over", "gone"}

\* The topic, the Publication's handle, the calls in progress and the
\* Subscription.
TypeOK ==
    /\ {writes, seq, adverts, cur, lastSeen, lost, missed, got, newest} \subseteq Nat
    /\ lock \in Threads \union {None}
    /\ {registered, handle, retry} \subseteq BOOLEAN
    /\ tpc \in [Threads -> PubLabels]
    /\ data \in Messages /\ written \subseteq Messages /\ seen \subseteq Messages
    /\ call \in [Threads -> CallType]
    /\ calls \in 0..MaxCalls
    /\ W!TypeOK /\ T!TypeOK
    /\ spc \in SubLabels

\* The task has been spawned; its Subscription has no callback yet.
Init ==
    /\ data = NoMessage /\ writes = 0 /\ written = {} /\ seq = 0
    /\ lock = None /\ registered = FALSE
    /\ handle = FALSE /\ adverts = 0
    /\ tpc = [t \in Threads |-> "idle"]
    /\ call = [t \in Threads |-> NoCall]
    /\ calls = 0
    /\ W!Init
    /\ live = [c \in {Sub} |-> TRUE]
    /\ owed = [c \in {Sub} |-> TRUE]
    /\ polling = [c \in {Sub} |-> FALSE]
    /\ spc = "parked" /\ retry = FALSE
    /\ cur = 0 /\ lastSeen = 0 /\ lost = 0 /\ missed = 0
    /\ got = 0 /\ seen = {} /\ newest = 0

\* A step within a call, or the return from it.
Goto(t, label) ==
    /\ tpc' = [tpc EXCEPT ![t] = label]
    /\ call' = IF label = "idle" THEN [call EXCEPT ![t] = NoCall] ELSE call

\* The call of a broker function, ffi::advertise or ffi::publish.
Enter(t, f) ==
    /\ tpc' = [tpc EXCEPT ![t] = "write"]
    /\ call' = [call EXCEPT ![t].ffi = f]

-----------------------------------------------------------------------------
(* Publication *)

\* publish(), or advertise() and advertise_multi() with an initial sample: each
\* is about a message of its own, named by the next number the thread has not used.
Begin(t, m) ==
    /\ tpc[t] = "idle"
    /\ calls < MaxCalls
    /\ calls' = calls + 1
    /\ tpc' = [tpc EXCEPT ![t] = "ensure"]
    /\ \E k \in 0..MaxCalls :
          /\ <<t, k>> \notin written /\ \A j \in 0..MaxCalls : j < k => <<t, j>> \in written
          /\ call' = [call EXCEPT ![t] = [method |-> m, ffi |-> "none", id |-> <<t, k>>]]
    /\ UNCHANGED <<topicVars, handle, adverts, wakerVars, taskVars, subVars>>

\* Seeded fault: the handle is read and left in place.
UnadvertiseLoads(t) ==
    /\ tpc[t] = "idle"
    /\ calls < MaxCalls
    /\ UnadvertiseRaces \/ \A u \in Threads : tpc[u] = "idle"
    /\ calls' = calls + 1
    /\ Goto(t, IF handle THEN "release" ELSE "idle")
    /\ UNCHANGED <<topicVars, handle, adverts, wakerVars, taskVars, subVars>>

\* unadvertise(), and Drop: swap(null), then give up what was there.
Unadvertise(t) ==
    /\ tpc[t] = "idle"
    /\ calls < MaxCalls
    /\ UnadvertiseRaces \/ \A u \in Threads : tpc[u] = "idle"
    /\ calls' = calls + 1
    /\ handle' = FALSE
    /\ Goto(t, IF handle THEN "release" ELSE "idle")
    /\ UNCHANGED <<topicVars, adverts, wakerVars, taskVars, subVars>>

\* What follows ensure_advertised.
AfterEnsure(t) == IF call[t].method = "publish" THEN "reload" ELSE "idle"

\* ensure_advertised: advertise with this sample unless there is a handle.
EnsureLoad(t) ==
    /\ tpc[t] = "ensure"
    /\ IF handle
       THEN Goto(t, AfterEnsure(t))
       ELSE Enter(t, "advertise")
    /\ UNCHANGED <<topicVars, handle, adverts, calls, wakerVars, taskVars, subVars>>

\* Seeded fault: the loser of the race keeps its handle.
EnsureCasLeaks(t) ==
    /\ tpc[t] = "cas"
    /\ handle' = TRUE
    /\ Goto(t, AfterEnsure(t))
    /\ UNCHANGED <<topicVars, adverts, calls, wakerVars, taskVars, subVars>>

\* compare_exchange(null, h): the loser gives its handle up.
EnsureCas(t) ==
    /\ tpc[t] = "cas"
    /\ handle' = TRUE
    /\ Goto(t, IF handle THEN "release" ELSE AfterEnsure(t))
    /\ UNCHANGED <<topicVars, adverts, calls, wakerVars, taskVars, subVars>>

\* ffi::unadvertise drops one reference to the topic; the broker keeps its own.
Release(t) ==
    /\ tpc[t] = "release"
    /\ adverts' = adverts - 1
    /\ Goto(t, AfterEnsure(t))
    /\ UNCHANGED <<topicVars, handle, calls, wakerVars, taskVars, subVars>>

\* publish loads the handle again; a null handle would be dereferenced.
PublishLoad(t) ==
    /\ tpc[t] = "reload"
    /\ IF handle THEN Enter(t, "publish") ELSE Goto(t, "null")
    /\ UNCHANGED <<topicVars, handle, adverts, calls, wakerVars, taskVars, subVars>>

-----------------------------------------------------------------------------
(* The broker: what ffi::advertise and ffi::publish share *)

\* The message is copied over the one that was there.
Copied(id) ==
    /\ data' = id
    /\ writes' = writes + 1
    /\ written' = written \union {id}

\* Seeded fault: advertise does not write the initial sample.
WriteDataPublishOnly(t) ==
    /\ tpc[t] = "write"
    /\ call[t].ffi # "publish" => UNCHANGED <<data, writes, written>>
    /\ call[t].ffi = "publish" => Copied(call[t].id)
    /\ Goto(t, "bump")
    /\ UNCHANGED <<seq, lock, registered, handle, adverts, calls,
                   wakerVars, taskVars, subVars>>

WriteData(t) ==
    /\ tpc[t] = "write"
    /\ Copied(call[t].id)
    /\ Goto(t, "bump")
    /\ UNCHANGED <<seq, lock, registered, handle, adverts, calls,
                   wakerVars, taskVars, subVars>>

\* Seeded fault: advertise resets the sequence to 1.
BumpSeqResets(t) ==
    /\ tpc[t] = "bump"
    /\ seq' = IF call[t].ffi = "advertise" THEN 1 ELSE seq + 1
    /\ Goto(t, "lock")
    /\ UNCHANGED <<data, writes, written, lock, registered, handle, adverts, calls,
                   wakerVars, taskVars, subVars>>

BumpSeq(t) ==
    /\ tpc[t] = "bump"
    /\ seq' = seq + 1
    /\ Goto(t, "lock")
    /\ UNCHANGED <<data, writes, written, lock, registered, handle, adverts, calls,
                   wakerVars, taskVars, subVars>>

\* Seeded fault: the list is copied and unlocked before the dispatch.
NotifyLockSnapshot(t) ==
    /\ tpc[t] = "lock"
    /\ lock = None
    /\ Goto(t, IF registered THEN "dispatch" ELSE "unlock")
    /\ UNCHANGED <<topicVars, handle, adverts, calls, wakerVars, taskVars, subVars>>

\* notify: the list stays locked until every callback has returned.
NotifyLock(t) ==
    /\ tpc[t] = "lock"
    /\ lock = None
    /\ lock' = t
    /\ Goto(t, IF registered THEN "dispatch" ELSE "unlock")
    /\ UNCHANGED <<data, writes, written, seq, registered, handle, adverts, calls,
                   wakerVars, taskVars, subVars>>

\* wake_trampoline
NotifyCall(t) ==
    /\ tpc[t] = "dispatch"
    /\ W!WakeBegin(t)
    /\ Goto(t, "unlock")
    /\ UNCHANGED <<topicVars, handle, adverts, calls, taskVars, subVars>>

\* The end of notify; advertise makes a handle, publish returns.
NotifyUnlock(t) ==
    /\ tpc[t] = "unlock"
    /\ wpc[t] = "idle"
    /\ lock' = None
    /\ IF call[t].ffi = "advertise"
       THEN adverts' = adverts + 1 /\ Goto(t, "cas")
       ELSE UNCHANGED adverts /\ Goto(t, "idle")
    /\ UNCHANGED <<data, writes, written, seq, registered, handle, calls,
                   wakerVars, taskVars, subVars>>

-----------------------------------------------------------------------------
(* Subscription *)

RecvPollBegin ==
    /\ spc = "parked"
    /\ T!BeginPoll(Sub)
    /\ spc' = "try"
    /\ retry' = FALSE
    /\ UNCHANGED <<topicVars, pubVars, wakerVars, cur, cbVars>>

\* ensure_registered: the callback is created and pushed on the list.
EnsureRegistered ==
    /\ spc = "try"
    /\ ~registered
    /\ lock = None
    /\ registered' = TRUE
    /\ UNCHANGED <<data, writes, written, seq, lock, pubVars, wakerVars, taskVars, subVars>>

\* sub_cb_update reads the sequence number; the second refusal is Pending.
UpdateSeq ==
    /\ spc = "try"
    /\ registered
    /\ wpc[Sub] = "idle"
    /\ cur' = IF seq > lastSeen THEN seq ELSE 0
    /\ spc' = IF seq > lastSeen THEN "copy" ELSE IF retry THEN "pending" ELSE "register"
    /\ UNCHANGED <<topicVars, pubVars, wakerVars, taskVars, retry, cbVars>>

\* Seeded fault: the sample that is delivered counts as lost too.
UpdateCopyCountsAll ==
    /\ spc = "copy"
    /\ lost' = lost + (cur - lastSeen)
    /\ lastSeen' = cur
    /\ got' = got + 1
    /\ seen' = seen \union {data}
    /\ newest' = writes
    /\ spc' = "got"
    /\ cur' = 0
    /\ UNCHANGED <<topicVars, pubVars, wakerVars, taskVars, retry, missed>>

\* ... counts what it steps over, and copies what the buffer holds by now,
\* which may be newer.
UpdateCopy ==
    /\ spc = "copy"
    /\ lost' = lost + (cur - lastSeen - 1)
    /\ lastSeen' = cur
    /\ got' = got + 1
    /\ seen' = seen \union {data}
    /\ newest' = writes
    /\ spc' = "got"
    /\ cur' = 0
    /\ UNCHANGED <<topicVars, pubVars, wakerVars, taskVars, retry, missed>>

\* recv() is Ready, and the loop goes on within the same poll.
RecvReturn ==
    /\ spc = "got"
    /\ spc' = "try"
    /\ retry' = FALSE
    /\ UNCHANGED <<topicVars, pubVars, wakerVars, taskVars, cur, cbVars>>

\* missed_count(): swap(0).
MissedCount ==
    /\ spc = "got"
    /\ lost > 0
    /\ missed' = missed + lost
    /\ lost' = 0
    /\ UNCHANGED <<topicVars, pubVars, wakerVars, taskVars, spc, retry, cur, lastSeen,
                   got, seen, newest>>

RecvRegister ==
    /\ spc = "register"
    /\ W!Register(Sub, Sub)
    /\ spc' = "try"
    /\ retry' = TRUE
    /\ UNCHANGED <<topicVars, pubVars, taskVars, cur, cbVars>>

\* register_waker() by a task that waits for more than this topic: it stores
\* its waker first and then looks, once, with try_recv().
RegisterWaker ==
    /\ spc = "try"
    /\ registered /\ ~retry
    /\ W!Register(Sub, Sub)
    /\ retry' = TRUE
    /\ UNCHANGED <<topicVars, pubVars, taskVars, spc, cur, cbVars>>

RecvPollEnd ==
    /\ spc = "pending"
    /\ wpc[Sub] = "idle"
    /\ T!PollPending(Sub)
    /\ spc' = "parked"
    /\ UNCHANGED <<topicVars, pubVars, wakerVars, retry, cur, cbVars>>

\* The task leaves the loop, between two receives or at a poll in which
\* another branch of its select! won, and drops the Subscription.
DropSubscription ==
    /\ spc = "got" \/ (spc = "try" /\ ~retry)
    /\ spc' = IF registered THEN "delete" ELSE "over"
    /\ UNCHANGED <<topicVars, pubVars, wakerVars, taskVars, retry, cur, cbVars>>

\* sub_cb_delete: unregister waits for the list.
SubDelete ==
    /\ spc = "delete"
    /\ lock = None
    /\ registered' = FALSE
    /\ spc' = "over"
    /\ UNCHANGED <<data, writes, written, seq, lock, pubVars, wakerVars, taskVars,
                   retry, cur, cbVars>>

TaskEnd ==
    /\ spc = "over"
    /\ T!PollReady(Sub)
    /\ spc' = "gone"
    /\ UNCHANGED <<topicVars, pubVars, wakerVars, retry, cur, cbVars>>

-----------------------------------------------------------------------------

WakerStep(p) ==
    /\ \/ W!Continue(p) /\ UNCHANGED taskVars
       \/ W!Invoke(p) /\ T!Wake(held[p])
    /\ UNCHANGED <<topicVars, pubVars, subVars>>

PubCall(t) == (\E m \in Methods : Begin(t, m)) \/ Unadvertise(t)

PubStep(t) ==
    \/ EnsureLoad(t) \/ EnsureCas(t) \/ Release(t) \/ PublishLoad(t)
    \/ WriteData(t) \/ BumpSeq(t) \/ NotifyLock(t) \/ NotifyCall(t) \/ NotifyUnlock(t)

SubStep ==
    \/ RecvPollBegin \/ EnsureRegistered \/ UpdateSeq \/ UpdateCopy \/ RecvReturn
    \/ MissedCount \/ RecvRegister \/ RegisterWaker \/ RecvPollEnd \/ DropSubscription \/ SubDelete \/ TaskEnd

Next ==
    \/ \E t \in Threads : PubCall(t) \/ PubStep(t)
    \/ \E p \in Procs : WakerStep(p)
    \/ SubStep

Spec == Init /\ [][Next]_vars

-----------------------------------------------------------------------------
(* Properties *)

\* Handles are neither leaked nor given up twice, whoever wins the race to
\* advertise (pub_.rs:111): one belongs to the Publication, and one to each
\* thread that has advertised and not yet stored it or that is giving it up.
AdvertsBalanced ==
    adverts = (IF handle THEN 1 ELSE 0)
              + Cardinality({t \in Threads : tpc[t] \in {"cas", "release"}})

\* publish always has a handle ("handle is non-null after ensure_advertised",
\* pub_.rs:132).
PublishHasHandle == \A t \in Threads : tpc[t] # "null"

\* notify only calls into a Subscription that exists: its drop waits for the
\* callback list (ffi.rs:251).
CallbackInLifetime ==
    \A t \in Threads :
        tpc[t] = "dispatch" \/ wpc[t] \in {"take", "clear"} => spc \notin {"over", "gone"}

\* What missed_count() tells is not the exact count of the messages missed that
\* it is said to be (raw.rs:271), and this is how far off it is.  It exceeds the
\* messages never received by no more than there were second copies of a message:
\* a first publish advertises with the sample and then publishes it again.  And
\* once the subscriber has seen the last number, every message never received is
\* reported or will be, but for as many as were received twice: the number and
\* the message are read under different locks (ffi.rs:359).
MissedCountBounds ==
    LET never == Cardinality(written \ seen)
        again == writes - Cardinality(written)
        twice == got - Cardinality(seen)
    IN  /\ lost + missed <= never + again
        /\ lastSeen = writes => never <= lost + missed + twice

\* The subscriber is never behind the number it has recorded: with number n it
\* has got the n-th sample or a newer one, although the number and the sample
\* are read under different locks.
NeverStale == newest >= lastSeen

\* No sample is slept over: the task sleeps without having got the newest one
\* only while its publisher has not called the waker yet (the re-check of
\* sub.rs:162, the callback that is registered before the first look at the
\* topic, and the sequence that survives an unadvertise, ffi.rs:181).
NoLostSample ==
    spc = "parked" /\ ~owed[Sub] /\ newest < writes
        => \E t \in Threads : tpc[t] \in {"bump", "lock", "dispatch"} \/ wpc[t] # "idle"
=============================================================================
