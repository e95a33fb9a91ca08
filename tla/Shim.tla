-------------------------------- MODULE Shim --------------------------------
(***************************************************************************)
(* The Subscription of Uorb on PX4 instead of the mock: ffi.rs calls       *)
(* RustSubscriptionCallback, the C++ object of px4-sys/wrapper.cpp, which  *)
(* counts publications in its callback to tell how many samples were lost. *)
(* The task and its waker are those of Uorb.                               *)
(*                                                                         *)
(* PX4's topic node is external: writing a sample, raising the generation  *)
(* and calling the callbacks happen under one lock, which copying a sample *)
(* takes too, and it keeps one sample.  The counters of the shim are not   *)
(* under that lock.  Publishers are any threads of PX4.                    *)
(***************************************************************************)
EXTENDS Uorb

VARIABLES
    px4,            \* TRUE: on PX4; FALSE: on the host, where Uorb says it all
    cb,             \* the C++ object exists
    lastGen,        \* the generation its Subscription copied last
    base,           \* the generation when the callback was registered
    publishCount, lastPubsAtUpdate, lostAccum,
    delivered,      \* samples recv() has returned
    reported        \* the sum of what missed_count() returned

countVars == <<publishCount, lastPubsAtUpdate, lostAccum, delivered, reported>>
shimVars  == <<cb, lastGen, base, countVars>>
allVars   == <<vars, px4, shimVars>>

ShimInit ==
    /\ Init
    /\ px4 \in BOOLEAN
    /\ cb = FALSE
    /\ lastGen = 0 /\ base = 0
    /\ publishCount = 0 /\ lastPubsAtUpdate = 0 /\ lostAccum = 0
    /\ delivered = 0 /\ reported = 0

-----------------------------------------------------------------------------
(* PX4 *)

\* orb_publish: the node's lock is held from the write to the last callback,
\* and call() counts before it wakes.
NodePublish(t) ==
    /\ tpc[t] = "idle" /\ calls < MaxCalls
    /\ lock = None
    /\ lock' = t
    /\ calls' = calls + 1
    /\ writes' = writes + 1
    /\ seq' = seq + 1
    /\ publishCount' = IF registered THEN publishCount + 1 ELSE publishCount
    /\ tpc' = [tpc EXCEPT ![t] = IF registered THEN "dispatch" ELSE "unlock"]
    /\ call' = [call EXCEPT ![t] = [method |-> "publish", ffi |-> "publish", id |-> NoMessage]]
    /\ UNCHANGED <<data, written, registered, handle, adverts, wakerVars, taskVars, subVars,
                   cb, lastGen, base, lastPubsAtUpdate, lostAccum, delivered, reported>>

-----------------------------------------------------------------------------
(* RustSubscriptionCallback *)

\* px4_rs_sub_cb_new: a new subscription starts one short of the node's
\* generation, so that the sample it holds counts as new.
SubCbNew ==
    /\ spc = "try" /\ ~cb
    /\ cb' = TRUE
    /\ lastGen' = IF seq > 0 THEN seq - 1 ELSE 0
    /\ UNCHANGED <<vars, base, countVars>>

\* px4_rs_sub_cb_register
SubCbRegister ==
    /\ cb /\ EnsureRegistered
    /\ base' = seq
    /\ UNCHANGED <<cb, lastGen, countVars>>

\* updateTrackLost, first half: update() copies what is newer, under the lock.
Update ==
    /\ spc = "try" /\ registered
    /\ wpc[Sub] = "idle"
    /\ lock = None
    /\ \/ /\ seq > lastGen
          /\ lastGen' = seq
          /\ newest' = writes
          /\ spc' = "copy"
       \/ /\ seq = lastGen
          /\ spc' = IF retry THEN "pending" ELSE "register"
          /\ UNCHANGED <<lastGen, newest>>
    /\ UNCHANGED <<topicVars, pubVars, wakerVars, taskVars, retry, cur,
                   lastSeen, lost, missed, got, seen, cb, base, countVars>>

\* Seeded fault: losses are counted from the third publication on.
TrackLostOffByOne ==
    LET delta == publishCount - lastPubsAtUpdate
    IN  /\ spc = "copy"
        /\ lastPubsAtUpdate' = publishCount
        /\ lostAccum' = IF delta > 2 THEN lostAccum + (delta - 1) ELSE lostAccum
        /\ delivered' = delivered + 1
        /\ spc' = "got"
        /\ UNCHANGED <<topicVars, pubVars, wakerVars, taskVars, retry, cur, cbVars,
                       cb, lastGen, base, publishCount, reported>>

\* ... second half: the counter is read once the lock is free again, when
\* another publication may have raised it.
TrackLost ==
    LET delta == publishCount - lastPubsAtUpdate
    IN  /\ spc = "copy"
        /\ lastPubsAtUpdate' = publishCount
        /\ lostAccum' = IF delta > 1 THEN lostAccum + (delta - 1) ELSE lostAccum
        /\ delivered' = delivered + 1
        /\ spc' = "got"
        /\ UNCHANGED <<topicVars, pubVars, wakerVars, taskVars, retry, cur, cbVars,
                       cb, lastGen, base, publishCount, reported>>

\* missed_count(): px4_rs_sub_cb_lost_take.
LostTake ==
    /\ spc = "got" /\ lostAccum > 0
    /\ reported' = reported + lostAccum
    /\ lostAccum' = 0
    /\ UNCHANGED <<vars, cb, lastGen, base, publishCount, lastPubsAtUpdate, delivered>>

-----------------------------------------------------------------------------

\* px4_rs_sub_cb_delete: "destruction unregisters implicitly" (wrapper.h:153).
SubCbDelete == SubDelete /\ cb' = FALSE /\ UNCHANGED <<lastGen, base, countVars>>

Px4Step ==
    \/ \E t \in Threads : NodePublish(t)
    \/ SubCbNew \/ SubCbRegister \/ Update \/ TrackLost \/ LostTake \/ SubCbDelete

\* What the task, its waker and the dispatch of a callback do as in Uorb.
Shared ==
    /\ \/ \E t \in Threads : NotifyCall(t) \/ NotifyUnlock(t)
       \/ \E p \in Procs : WakerStep(p)
       \/ RecvPollBegin \/ RecvReturn \/ RecvRegister \/ RegisterWaker \/ RecvPollEnd
       \/ (cb = registered /\ DropSubscription) \/ TaskEnd
    /\ UNCHANGED shimVars

ShimNext ==
    /\ \/ px4 /\ (Px4Step \/ Shared)
       \/ ~px4 /\ Next /\ UNCHANGED shimVars
    /\ UNCHANGED px4

ShimSpec == ShimInit /\ [][ShimNext]_allVars

-----------------------------------------------------------------------------
(* Properties *)

\* The counters of the shim, next to the variables of Uorb.
ShimTypeOK ==
    /\ TypeOK
    /\ px4 \in BOOLEAN /\ cb \in BOOLEAN
    /\ {lastGen, base, publishCount, lastPubsAtUpdate, lostAccum, delivered, reported} \subseteq Nat

\* missed_count() never hides a loss: every sample published since the callback
\* was registered, up to the last one received, was delivered, reported or will
\* be, although updateTrackLost reads the counter some time after the copy
\* (wrapper.cpp:189).  A publication in between makes it count too many, never
\* too few.
NeverUndercounts ==
    px4 /\ registered /\ spc # "copy" => lastGen <= base + delivered + lostAccum + reported
=============================================================================
