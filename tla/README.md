# px4-rs in TLA+

px4-rs lets a PX4 module be written as `async` Rust. Its core is a small,
hand-written, lock-free runtime: an executor on top of PX4's work queues, a
waker store, a one-permit notification, a bounded channel, a timer future and a
uORB publish/subscribe layer. Each piece is a few atomics and a documented
argument about their order. Around it are a generator that turns PX4's message
files into Rust structs and a small crate for entry points and logging. This
project writes those pieces down as TLA+, checks them with TLC on small
instances, and proves their safety properties with TLAPS for instances of any
size.

## The system

| component | state | operations | talks to |
|---|---|---|---|
| `WorkItemCell` (`cell.rs`, `waker.rs`), work queue (`ffi.rs`) | two state bits, a handle, the future's slot; a FIFO per queue | `try_spawn`, wake, `wi_schedule_now`, `poll_once` | PX4's `WorkQueue`; every future |
| `AtomicWaker` (`atomic_waker.rs`) | two state bits, one waker slot | `register`, `take`, `wake` | the wakers of cells |
| `Notify` (`notify.rs`) | a permit, an `AtomicWaker` | `notify`, `Notified::poll` | any thread, one task |
| `Channel` (`channel.rs`) | a ring, two wrapping counters, two `AtomicWaker`s | `send`, `recv`, `try_send`, `try_recv`, `len` | one producing and one consuming task |
| `Sleep` (`timer.rs`) and the HRT (`hrt.rs`) | IDLE/ARMED/FIRED, an `AtomicWaker`, a timer entry | `poll`, `drop`, `call_after`, `cancel`, the callout | the HRT thread or interrupt |
| `Publication`, `Subscription`, broker (`px4-uorb`) | a lazily advertised handle; payload, sequence number, callback list; last seen number, loss counter, `AtomicWaker` | `publish`, `advertise`, `unadvertise`, `recv`, `missed_count`, `drop` | each other, through PX4's uORB or the mock |
| `yield_now` (`yield_.rs`) | one flag | `poll` | the cell that polls it |
| C++ shim (`wrapper.cpp`) | a publish counter per subscription | `call`, `updateTrackLost`, `lostTake` | PX4 |
| entry point and logging (`px4-log`, `px4-macros`) | argument cursor, a 256-byte buffer, the installed logger | argument iteration, log macros, `log` backend, conversion of the result | PX4's shell and log |
| message generator (`px4-msg-codegen`; `xtask gen-msgs`, `#[px4_message]`) | the parser's position, a stack of layouts in progress, a cache | parse a line, place a field, resolve a nested type, emit | the build |
| other macros, build scripts, examples, SITL and Renode fixtures | none that matters at run time | | |

What makes the runtime hard: a wake may come from any thread, or from an
interrupt, between any two accesses of the task it wakes; wakers outlive their
tasks; a cell is respawned while an old run of it is still queued; timer
callouts carry an address that may by now belong to another `Sleep`; counters
wrap; the payload and the sequence number of a topic are under different locks,
and so, on PX4, are a sample and the counter that tells how many were lost. The
generator must arrive at the very bytes of PX4's C++ structs, and one bad file
among hundreds must cost only the messages that need it.
`PROJECT.json` lists these hazards with the line at which each bites and the
property that would catch it.

## The modules

| module | models | role |
|---|---|---|
| `Task` | the contract between a future and its executor | abstract specification |
| `WorkItemCell` | `cell.rs`, `waker.rs`, the queue of `ffi.rs` | implements `Task` |
| `WorkItemCellProofs` | | theorems about `WorkItemCell` |
| `Yield` | `yield_.rs` | extends `WorkItemCell` by tasks that yield |
| `AtomicWaker` | `atomic_waker.rs` | component, instantiated below |
| `AtomicWakerProofs` | | theorems about `AtomicWaker` |
| `Notify` | `notify.rs` | composes `AtomicWaker` and `Task` |
| `NotifyProofs` | | theorems about `Notify` |
| `BoundedQueue` | a FIFO of N values | abstract specification |
| `Channel` | `channel.rs` | composes two `AtomicWaker`s and `Task`, implements `BoundedQueue` |
| `ChannelProofs` | | theorems about `Channel`, with the refinement of `BoundedQueue` |
| `Sleep` | `timer.rs`, `hrt.rs` | composes `AtomicWaker` and `Task` |
| `SleepProofs` | | theorems about `Sleep` |
| `Uorb` | `pub_.rs`, `sub.rs`, `raw.rs`, the broker of px4-uorb's `ffi.rs` | composes `AtomicWaker` and `Task` |
| `Shim` | the subscription half of `wrapper.cpp`, the PX4 half of px4-uorb's `ffi.rs` | extends `Uorb`: its Subscription on PX4 |
| `UorbProofs` | | theorems about `Uorb` and `Shim` |
| `Codegen` | `px4-msg-codegen`, `gen_msgs` of `xtask`, `#[px4_message]` | component |
| `Entry` | `px4-log`, the entry point of `px4-macros` | component |
| `EntryProofs` | | theorems about `Entry`, and about flattened sequences |
| `ToolsProofs` | | theorems about `Codegen`, and the type invariant of both |
| `MC...` | | constants for TLC |

**Grain.** An action is one access to memory that another thread can see: one
atomic operation, one access to an `UnsafeCell`, one critical section of a
mutex. Labels (`pc`, `run`, `fpc`, ...) say which access is next. Every shared
access in the code is an acquire, a release or both on a single atomic, and
non-atomic slots are handed over only through them, so interleavings of single
accesses cover the executions of the memory model. What the code does between
two such accesses, including every call that changes state, belongs to the
action before or after it.

**Data.** State bits are sets of names, a handle is a Boolean, a payload is the
number of the call that sent it. Counters keep their width where they wrap
(`Channel`). Futures are nondeterministic: a poll may call `try_spawn` and
`wake` as often as it likes and return Pending or Ready.

**WorkItemCell.** `state[c]`, `handle[c]` and `future[c]` are the three fields of
a cell; `queue[q]` is the FIFO of a work queue. A `Caller` is a thread or a queue
that is inside a poll. `SpawnClaim` to `SpawnUndoStore` are the steps of
`try_spawn`, `WakeSetBit` and `WakeLoadHandle` those of `waker_wake_by_ref`,
`RunRecv` to `RunStoreZero` those of `poll_once`. `Dedup` chooses between the
mock's mpsc queue, which takes an item any number of times, and PX4's intrusive
queue, which ignores an item it holds.

**AtomicWaker.** `Register` and `WakeBegin` start a call, `Continue` its later
steps, `Invoke` the call of the waker; the modules that use it conjoin `Invoke`
with `Task`'s `Wake`.

**Notify, Channel, Sleep, Uorb.** Each models a task whose body is the loop
named in the module's header, executed as `Task` promises: polled when it is
owed a poll, and at any other time too. Since `WorkItemCell` is checked to
implement `Task`, these modules need not repeat the executor.

**Sleep.** All Sleeps of the task share one address, so a timer entry of one may
meet its successor; `gen` and `hgen` tell them apart. `host` is the way callouts
run: an interrupt, which suspends the task, or the mock's thread, which does
not.

**Yield.** A poll may at any point await a new `YieldNow` (`YieldPoll`): it sets
`yielded[c]`, wakes its own task and can then only return Pending. The next poll
of the task begins by resolving it (`BeginPoll`). All other steps are those of
`WorkItemCell`.

**Uorb.** `data` is the message in the topic's buffer, named after the call of
`publish` or `advertise` that brought it, and `seq` the topic's number.
`writes`, `written`, `seen` and `newest` are histories: how many copies went
into the buffer and of which messages, which messages `recv()` has returned, and
with which copy. A first `publish` copies its message twice, under two numbers.
A `Publication` and a `RawPublication` take the same steps. The task receives
with `recv()`, or registers its waker and looks once (`RegisterWaker`).

**Shim.** The same task and waker over the C++ object. PX4's topic is external
and is taken from how the shim relies on it: a publication writes, raises the
generation and calls the callbacks under one lock, which `update()` takes to
copy. The shim's counters are outside it, so `Update` and `TrackLost` are two
actions. `px4` chooses between the mock and PX4. On PX4 the Publication, the
mock's number and the mock's loss counter are not in use: `AdvertsBalanced`,
`NeverStale` and `MissedCountBounds` speak of the mock only, `NeverUndercounts`
of PX4 only, and `CallbackInLifetime` and `NoLostSample` of both.

**Codegen.** A file is a sequence of lines, and a line is reduced to what
`parse_str` and the emitter ask of it: how it begins, its first word as a type,
the other words, and what follows an `=`. The parser takes any word for a name
and any text for a value; of a value only the emitter asks whether it can be cut
into tokens, and of a name whether it is a Rust identifier (`Idents`). `stack` holds the calls of `layout` in progress, one per
nested type, each with the fields still `todo`, the members `placed` and the
running size; `cache` is the Resolver's. One action handles one line, places one
field or enters one nested type. An error unwinds every call (`Fail`), and the
driver goes on with the next file. A panic of the emitter (`panicked`) ends the
driver, which catches none. Which file comes next is the file system's choice;
`asked` remembers which files there were to do. Hashes are represented by the string that is hashed.

**Entry.** The user's `main()` iterates over its arguments, asks for the
subcommand, logs, installs the backend, returns or panics, in any order. Text is
a sequence of characters with their width in UTF-8, so that the buffer can cut
one in two. `host` tells the std build, which prints text, from the PX4 build,
which passes a C string. `log_backend::init` installs the logger unless there is
one, and in either case sets the log crate's level (`maxLevel`).

**Seeded faults.** A definition whose comment begins "Seeded fault" is a wrong
version of the definition that follows it, and is used by no specification.
`PROJECT.json` names, for every property of a passing run, the fault that
violates it.

## The runs

| run | shows | instance |
|---|---|---|
| `cell_live` | no wake is lost, no wake finds a null handle, the executor implements `Task` with its liveness | two cells on two queues, one thread that spawns each twice; everyone wakes everyone; PX4's queue |
| `cell_onqueue` | if a cell is respawned only from its own queue, only initialised futures are polled and none is leaked; a task that yields goes on, and no sibling starves | two cells on one queue whose tasks yield, two threads that wake; the mock's queue |
| `cell_respawn` | violated: a resolved cell can be claimed again | one cell |
| `cell_stale_run` | violated: `poll_once` only polls an initialised future | one cell respawned by a thread |
| `waker` | the slot has one owner, no bit is left behind, a wake in mid-registration is honoured | four threads that register and wake at will |
| `notify` | no notification lost or invented, every permit is consumed | two notifiers, four notifications |
| `channel` | the channel is a bounded FIFO; the sides never meet in a slot; both never sleep with work left; `len()` is in range; all is delivered | two slots, counters that wrap at four, six values |
| `sleep` | no Sleep completes early or never; an interrupt only touches its own Sleep | three Sleeps, both hosts |
| `sleep_short` | violated: a Sleep completes | delays shorter than a poll |
| `uorb` | callbacks stay within the life of the Subscription and no sample is slept over, on either broker; on the mock, handles balance, no sample is stale, and `missed_count()` is off by no more than the second copies and second deliveries of a message; on PX4 no loss goes uncounted | two publishing threads, three calls; the mock and PX4 |
| `uorb_unadvertise` | violated: `publish` has a handle | `unadvertise` may overlap `publish` |
| `tools` | structs are packed, in PX4's order, of the size they assert, told apart by their hash, and left out only for cause; every file asked for ends written or left out; log messages are prefixes, arguments come in order, no failure is silent | some 4450 file trees, both drivers; eight argument vectors, seven messages at the limits of a 7-byte buffer, seven results |

**Bounds.** Two cells on two queues are the least in which polls on different
threads wake and respawn each other; two spawns per cell are the least in which
a run or a waker of the first task meets the second. Four threads at an
`AtomicWaker` allow a registration, a competing registration and two wakes at
once. Four notifications over two notifiers leave one to arrive at each of the
two checks of a poll, with one to spare. Six values through two slots take each
counter once round its four values and beyond. Three Sleeps let a callout of
the first meet the second and the third. Three calls on a Publication are the
least for publish, unadvertise, publish again, for a message that is missed
between two that are not, and give both threads a first publish at once; the two threads are interchangeable, which the run uses as a
symmetry. On PX4 three publications are the least for one that is received, one
that falls between the copy and the count, and one after it. The file trees
combine three fields out of every width, odd and empty arrays and nested types
with six texts for the nested type (empty, odd, nested again, containing itself,
malformed), every kind of bad line, a type in the other directory, one in both
and a missing one, and each place where a name or a value need not be Rust, in a
file of its own right and in one that is nested; four frames (`MaxDepth`) are one more than the deepest tree
without a cycle needs. A buffer of seven bytes has the same edges as one of 256:
pieces that fit, fill it, are cut at a character and inside one, and a piece
after the buffer is full. Spawns, sends, notifications, Sleeps and calls are the only bounded
quantities (`MaxSpawns`, `MaxSends`, `MaxNotifies`, `MaxSleeps`, `MaxCalls`, `MaxLogs`).
Deadlock is not checked: with these bounds a behaviour ends when everything has
been sent and everybody sleeps, and that nobody sleeps too early is what
`NoLostWake`, `AllDelivered`, `NoLostNotify` and `NoLostSample` say.

**Fairness.** A call that has begun is scheduled until it returns (weak
fairness of its steps): PX4's threads are preemptive and no modelled code
blocks but on a short mutex. A queue with items runs. A poll returns, however
often the future wakes somebody meanwhile, and a task that calls `len()` goes on
to its send; both need strong fairness of the step that goes on, since the calls
disable it again and again. Deadlines pass and the HRT serves them. The generator is a program that runs. Nobody is
obliged to call anything: spawns, wakes, notifications and drops have no
fairness; a task may also yield for ever. In the composed modules a task that is owed a poll is polled, which is
what `cell_live` shows of the executor.

## What is proved

Every safety property of the passing runs is a theorem for instances of any size,
some under a hypothesis on the constants or the runs that is named here and that
the section after this one discusses. The theorems are about the specifications
the runs check; the fairness of those plays no part.

**Executor** (`WorkItemCellProofs`; `ConstantsAssumption`, `CellsAssumption`), for
any sets of cells, threads and queues, either kind of queue, any number of spawns:

* `TypeCorrect`, `LosesNoWake` (`NoLostWake`), `WakesFindHandle`
  (`WakeFindsHandle`). A waker that finds RUN_QUEUED set does nothing, so the bit
  has to mean that a run is on its way. `NoLostWake` alone is not inductive: a
  wake between its `fetch_or` and its `schedule` keeps the obligation only if it
  does not stop at the null check. `HandleInv` says that everything that can lead
  to a run of a cell has the cell's handle: a cell with SPAWNED and without
  RUN_QUEUED, a caller past the handle check, an item in a queue and an item
  being run. It is inductive with `TypeOK` because a handle, once stored, is
  never removed (`HandleKept`) and because SPAWNED is first set together with
  RUN_QUEUED, which only a run that needs the handle clears.
* `StepsAreTaskSteps`: `Spec => TaskSteps`, the safety part of the refinement of
  `Task`. `RunInv` is what it needs: until a cell has its handle one spawn at a
  time is in progress and only that one can fail (`FirstSpawn`), an item is only
  ever on the queue it is bound to (`Bound`), and what a queue polls is a task
  (`RunsTask`).
* `PollsFutures` (`PollsLiveFuture`) and `LeaksNoFuture` (`NoFutureLeaked`), from
  `Spec /\ []SpawnsOnQueue`: the discipline that a cell which has been spawned
  before is spawned by tasks of its own queue only. Without it both are false,
  which is what `cell_stale_run` shows. `FutureInv` says where the future is
  between the spawn and the end of its task.

**AtomicWaker** (`AtomicWakerProofs`; `NoneAssumption`), for any threads and wakers:
`SlotIsExclusive` (`SlotExclusive`) and `IdleWakerIsWaiting` (`IdleIsWaiting`).
Both follow from `OwnerInv`: at most one thread is inside a registration or a
take, and the bits say which of the two it is; a wake that meets a registration
adds WAKING and leaves. The modules that contain an `AtomicWaker` use `OwnerInv`
through an instance (`WP`) of this module, and do not prove it again.

**Notify** (`NotifyProofs`): `NotifyTypeCorrect`, `LosesNoNotify` (`NoLostNotify`),
`InventsNoNotify` (`NoInventedNotify`). A waiter that has registered is *armed*:
its waker is in the slot, in the hands of a notifier that will call it, or has
been called (`WaiterArmed`, with `WakerPlace` for the steps in between). So a
permit that the second look of a poll does not see is stored by a `notify()`
that still has the waker to come to. `PermitsCounted` counts a stored permit as
a completion to be.

**Channel** (`ChannelProofs`), for any capacity, width and number of values:

* `ChannelTypeCorrect`: every variable keeps its type and the counters and the
  result of `len()` their width, whoever calls it; and `TypeOK`, which adds that
  `len()` returns at most the capacity, when one of the two sides calls it. The
  code lets anyone call it, and for a third thread the bound is false (see
  Limits). `LenOfATask`: the tail that `len()` has read is one that `head` has
  not passed (`LenInv`).
* `SlotsStayDisjoint` (`SlotsDisjoint`) and `ChannelIsQueue`
  (`Spec => ImplementsQueue`, a whole refinement), from `WrapsEvenly`: the
  capacity divides `2^Width`, or the counters do not wrap. `Sent` and `Received`
  are what the counters would be without a wrap; `Counted` says that the
  counters are their remainders and that they are at most N apart, `Buffered`
  that each value between them is in the slot of its number. The lemmas about
  remainders (`Quotient` and those after it) carry this across the wrap.

**Sleep** (`SleepProofs`): `SleepTypeCorrect`; `CalloutsInLifetime`
(`CalloutInLifetime`); `CompletesInTime` (`NeverEarly`), from
`"thread" \notin MayDrop`. `Entries` says where the timer entry of the Sleep at
the address is: in the queue, popped by the HRT and not yet fired, or past its
deadline. An interrupt keeps the task where it is (`InterruptHolds`), so the
entry cannot meet a successor; on the mock's thread that holds only of Sleeps
that are not dropped early, hence the hypothesis.

**uORB** (`UorbProofs`; `UorbAssumption`), for any set of publishing threads and any
number of calls:

* `MissedCountBounded` (`MissedCountBounds`). `CopyInv`: between its two reads
  `sub_cb_update` holds a number that is ahead of the one it has recorded, so the
  difference it adds to the losses is never negative, and every number it has
  passed is a delivery or a loss. `MessagesInv` ties numbers to messages: each
  message written was copied at least once, each one received was returned at
  least once, and none is received that was not written. What is left over is
  the excess of copies over messages and of deliveries over messages, which are
  the two bounds.
* `CallbacksInLifetime` (`CallbackInLifetime`), by `LockInv`: whoever dispatches
  holds the lock of the callback list and has seen the callback in it, a wake in
  progress belongs to such a dispatch, and the Subscription is freed only after
  the callback has left the list under that lock.
* `AdvertsBalance` (`AdvertsBalanced`) and `SamplesNeverStale` (`NeverStale`), by
  `PubInv`, which counts threads by their label: `writes = seq` plus the threads
  between the copy of a payload and its number. `OneMore` and its neighbours are
  the lemmas about such counts.
* `LosesNoSample` (`NoLostSample`), by `WakeInv`, the argument of `Notify` with a
  sequence number for the permit and a callback list in front of the waker.
* `CountsEveryLoss` (`NeverUndercounts`): from the registration on the shim's
  counter keeps step with the generation, and deliveries and losses together are
  at least what the counter was at the last update (`CountInv`). Since the
  counter is read after the copy, it covers the sample that was copied.
* `ShimTypeCorrect` (`ShimTypeOK`), and `SameOnPX4`: `CallbackInLifetime` and
  `NoLostSample` on either broker. The other properties are about state that only
  the mock has, and claim nothing of PX4. By `ShimCases` a step of `Shim` is a
  step of `Uorb` or one of the three that PX4 replaces, so only those are proved
  anew. On PX4 the generation takes the place of the sequence number (`GenInv`).

**Message generator** (`ToolsProofs`; `CodegenAssumption`), for any set of file
trees:

* `LayoutsArePacked` (`NoImplicitPadding`). A struct under construction is packed
  up to its running size (`Chain`), and that size is a multiple of the width of
  every scalar still to be placed (`FrameInv`): sizes are powers of two and come
  in descending order, and nested types, whose own size is a multiple of 8,
  follow all scalars, behind a gap that `AlignGap` closes. `LaidInv` carries the
  result through the cache to the frames that use it.
* `FieldsInPX4Order` (`PX4Order`): the members placed are in order, before
  everything still to do, and with it are all the fields (`Ordered`).
* `SkipsForCause` (`SkippedForCause`), by `CauseInv`: the lines a call has read
  are ones the parser accepts, its file is one that the outermost call reaches
  and is the one found for the type it lays out, and what is in the cache comes
  from sound files. A file with good lines that needs sound files only is sound
  (`SoundFrom`), which makes the result of every call sound in its turn, and a
  cause met in any call is one of the outermost. The names and values that the
  emitter gets are those of the lines read (`Writable`), so it panics over these
  and no others. By `AccountInv` every file asked for is still to come, in
  progress, written or left out.
* `SizesAgree` (`SizeAssertHolds`) and `HashDecidesLayout` (`HashTellsLayouts`)
  compare structs of different Resolvers, whose caches are gone when the
  comparison is made. `StructsInv` says that there is one map K from names to
  structs that explains the whole run: every cache is part of it, and each
  struct written is what its lines and K make of it (`Derived`). K grows when a
  type is resolved for the first time (`Extend`). When a later Resolver comes to
  the type again it gets the same struct, since parsing and layout are functions
  of the lines and of K (`ParsedOnce`, `LaidOnce`), so the sizes agree. This needs
  that a name stands for one file: types with a file in both directories are left
  out of `SizeAssertHolds`, and for them the assertion can fail. For the
  hash, the string is read from left to right (`FlattenDecodes` in
  `EntryProofs`): each field says which type's string comes next, so equal
  strings have equal fields (`HashTellsFields`) and equal fields equal layouts
  (`SameFields`).

**Entry point and logging** (`EntryProofs`; `EntryAssumption`), for any argument
vectors, messages, results and buffer length:

* `LogsPrefix` (`LogIsPrefix`). Between two pieces the buffer is what fits of the
  pieces so far, joined (`MsgInv`): a statement about `FlattenSeq` of sequences of
  any length. The proof system cannot instantiate the library's induction
  theorems, so `SetInduction` restates induction with a set for the predicate,
  from the well-foundedness of < on the naturals; `FlattenExists`,
  `FlattenAppend`, `FlattenConcat`, `BytesConcat` and `ClipConcat` are the theory
  of flattening that follows from it.
* `YieldsArgs` (`ArgsInOrder`): what has been yielded are the slots before the
  cursor that are not NULL (`ArgsInv`), counted with the theorems about finite
  sets.
* `FailsAloud` (`ErrorsAreLogged`), from `LogInv`: a message that ends the module
  says why.
* `ToolsTypeCorrect` (`ToolsTypeOK`, in `ToolsProofs`), from `LogInv`, `ArgsInv`,
  `MaxLevelInv` and `LayoutInv`.

**Only model-checked.** Liveness, which with `ENABLED` is beyond the proof system:
`WakeHonoured`, `PermitConsumed`, `AllDelivered`, `Completes`, `YieldResumes`,
`SiblingsRun`, `EveryFileSettles`, and of `ImplementsTask` the part that rests on
fairness (`StepsAreTaskSteps` proves the rest). Nothing is proved about
the FNV-1a value of the hashed string, which the model leaves out: two strings
may collide.

## Limits of what holds

Four things the code, its comments or its documentation promise do not hold; a
run exhibits each, and `PROJECT.json` quotes the promise.

* `cell_respawn`: a waker called after its task resolved sets RUN_QUEUED on an
  idle cell; nothing clears it, and `try_spawn` answers Busy for ever.
* `cell_stale_run`: a wake during the last poll leaves an item in the queue. A
  respawn from another thread sets SPAWNED before it writes the future, and the
  left-over run polls the unwritten slot. `cell_onqueue` shows that respawns
  from the cell's own queue are safe.
* `sleep_short`: a callout between `call_after` and the store of ARMED is
  overwritten. `sleep` assumes delays longer than the poll that arms them
  (`LongDelays`).
* `uorb_unadvertise`: `unadvertise` may take the handle from under a `publish`.
  `uorb` assumes that `unadvertise` does not overlap other calls
  (`UnadvertiseRaces`).

Other instances that the passing runs leave out, since the property fails there:

* `Channel` with an N that does not divide `2^Width` (try N = 3, Width = 2):
  slots of consecutive counter values collide at the wrap, and `SlotsDisjoint`
  fails. Nothing in `channel.rs` requires such an N, and its SAFETY comment
  ("cross-task access is fully disciplined by `head`/`tail`", `channel.rs:66`) is
  not true of the others, though a target of 32 bits first gets there after
  2^32 values. `SlotsDisjoint` and the refinement are claimed for an N that
  divides `2^Width` or for runs in which the counters do not wrap (`WrapsEvenly`).
* `len()` called by a third thread (`LenCaller = Observer`): it reads `tail`
  before `head`, and a value that passes in between makes it wrap below zero.
* `Sleep` with `"thread"` in `MayDrop`: the mock's `cancel` does not wait for a
  callout on its way, which then fires the next Sleep at the address, before its
  time (`NeverEarly`). Also in the mock, a callout goes on to the waker of a
  Sleep that its own store let complete, so `CalloutInLifetime` is claimed for
  interrupts only.
* In the mock a sample may be delivered under two numbers, since a first
  `publish` advertises with the sample and then publishes it again, and since an
  update between the copy of a payload and its number meets the payload early;
  `ffi.rs:98` says "without re-delivering".
* Nor is the mock's `missed_count()` the "exact count" of "messages published on
  this topic that this subscriber missed" (`raw.rs:266-272`). It counts numbers.
  A first `publish` takes two, so a subscriber that then polls for the first time
  is told of one loss and has missed nothing. A message overwritten between the
  read of the number and the copy is never received and not counted, and its
  successor is delivered twice. Messages from before the subscription count as
  missed, since `last_seen` starts at 0. `MissedCountBounds` is what holds: it
  tells too many by at most the second copies, and too few, once the subscriber
  is up to date, by at most the second deliveries.
* On PX4 `missed_count()` may count a sample that is delivered after all: a
  publication between `update()` and the read of the counter adds one to the
  losses, and the update that delivers it takes nothing back. `NeverUndercounts`
  is the half that holds of "that delta minus one (the one we delivered) is the
  lost-message count" (`wrapper.cpp:178`).
* "re-queues the WorkItem behind any sibling work" (`yield_.rs:24`) is true of a
  task that nobody else wakes. If another thread wakes it during the poll, before
  it yields, its item is already in the queue and stays ahead of siblings that
  come later. `SiblingsRun` is what holds in any case.
* A message name that is in both `msg/` and `msg/versioned/`: "a versioned topic
  shadows any same-named legacy entry" (`xtask/src/main.rs:152`) is true of the
  file that is written, but nested uses of the type are laid out from `msg/`,
  the first directory of the search, so the size assertion of the user of the
  type fails to compile if the two differ. `SizeAssertHolds` leaves such types
  out; the trees contain them.
* A type that contains itself is resolved until the stack of the generator
  overflows (`overflow`); `EveryFileSettles` leaves such trees out.
* The parser takes more than the grammar in its header (`parser.rs:6-13`): any
  word for an `ident` and any text, or none, for a `value`. `uint8 K =` is laid
  out and emitted as a constant without a value, which does not compile. "Left
  out for cause" is therefore said of the lines the parser accepts (`Accepted`).
* If what it took cannot be made an identifier or tokens of, the emitter panics
  (`emit.rs:42`, `131`, `205`, `208`, `226`), in every file in which it is not
  in a nested type only. `gen_msgs` collects errors but catches no panic
  (`xtask/src/main.rs:173`), so one such file ends the generation, and the
  messages that would have come after it are neither written nor reported.
  `SkippedForCause` says when this happens and `EveryFileSettles` that nothing
  else but a cycle keeps a file from its end.
* `message_hash` parses nested files again, although the Resolver is said to
  process each file "at most once" (`layout.rs:54`); the result is the same.
* `log_backend::init` promises that "subsequent calls are no-ops" and that with
  another logger "we simply coexist" (`log_backend.rs:44`, `50`), but every call
  sets the log crate's maximum level to Info, for that logger too and whatever
  the module has set since.
* In a std build a log message cut inside a character is replaced by
  `<non-utf8>` as a whole; on PX4 it is passed on with the cut.

## Not modelled

* `SpawnToken`, `WqConfig`, topic metadata: no state that changes.
* The expansion of `#[task]` (a static cell and a `try_spawn`), the Rust text
  that is emitted, FNV-1a, snake-case file names, the truncation of `o_size` to
  16 bits, two messages whose snake-case names are one file, build scripts, `gen-sys`, bindings, fixtures, examples: compile-time
  text transformation or I/O.
* PX4 itself, except for the work queue's membership test, interrupt-driven
  callouts and the lock of a topic, which the code relies on. In particular its
  topic instances, the minimum interval of a subscription, topics that queue more
  than one sample, and a `registerCallback` that fails.
* `advertise_multi`'s instance numbers (`pub_.rs:51`), the size checks of
  `raw.rs`, the wrap of the u32 loss counters, `Drop for Channel`, the `usleep`
  of `yield_now` on NuttX.

## Plan

1. Done: executor, yield, waker, notification, channel, timer, uORB over the mock
   and over the C++ shim, message generator, entry point and logging.
2. Done: proofs of every safety property of the runs, and of the safety part of
   both refinements.
3. Models that remain: `Drop for Channel`, liveness of `Uorb`.
