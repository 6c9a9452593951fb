# A TLA+ model of the oneAPI Construction Kit runtime

This directory holds TLA+ specifications of the parts of the oneAPI Construction
Kit in which threads meet: the thread pool and queue of the host target, the
execution of ND-ranges, the queue of the RISC-V target, the asynchronous queue
of clik, and, in OpenCL, command queues, events and reference counts. TLC checks
the specifications on small instances; TLAPS proves the main safety properties
of six of them for every instance. `PROJECT.json` lists the runs, the theorems,
the lines of code each definition models, the hazards and the findings.

## The system

The kit implements OpenCL (`source/cl`), Vulkan (`source/vk`) and a Unified
Runtime adapter (`source/ur`) over one device interface, *mux*
(`modules/mux`). A target implements mux: `host` runs kernels on the CPU with a
thread pool, `riscv` runs them on a device behind a HAL (`hal`), `stub` is a
skeleton. `modules/compiler` compiles kernels; `modules/cargo` has containers;
`clik` is a small runtime for teaching. The other modules (loader, debug,
tracer, metadata, utils, kts, lit) are file formats, logging and tests.

How a kernel gets executed through OpenCL on host:

1. `clEnqueue...` records the command into a mux command buffer that is still
   pending, or takes another, with the semaphores of what it must follow. A
   flush, a wait or the completion of a user event dispatches it.
2. `muxDispatch` gets a command buffer (the host code calls it a *group*), a
   fence, semaphores to wait for and semaphores to signal. `hostDispatch`
   enqueues a group without waits on the thread pool, and otherwise tracks the
   number of signals it still needs.
3. A thread of the pool takes the group from the ring and runs its commands. An
   ND-range is cut into slices that are enqueued on the *same* pool, and the
   thread helps the pool until they are done.
4. `threadPoolCleanup` sets the fence's result, calls the user's function (which
   completes the OpenCL events) and signals the semaphores, which enqueues the
   groups whose last signal this was.
5. `threadFuncBody` sets the fence's signal, lowers the count of running groups
   and wakes the waiters.

On `riscv` one thread per queue replaces steps 3 to 5. It takes the first
dispatch whose semaphores are signalled, executes it, calls the user's function,
and signals.

## Modules

| module | models | role |
|---|---|---|
| `HostThreadPool` | `thread_pool.h`, `thread_pool.cpp`, and `hostWaitAll`'s wait | the ring, two mutexes, three condition variables, counts and signals |
| `WorkPool` | what the pool promises | abstract: a bounded FIFO whose items each start once |
| `HostQueue` | `queue.cpp`, `semaphore.cpp`, `fence.cpp` of host | dispatch, tracking, cleanup, fences, semaphores, over a FIFO pool |
| `HostQueueOrder` | | what that queue promises: fairness, liveness, and its refinement of `DispatchOrder` |
| `DispatchOrder` | what `muxDispatch` promises | abstract: a dispatch starts after those it waits for; implemented by both targets |
| `HostNDRange` | `commandNDRange`, `enqueue_range`, the helping wait | call stacks, slices, lifetime of the locals, the wait for space |
| `RiscvQueue` | `queue.cpp` of riscv, fence and semaphore of `mux/source/hal` | one queue thread, failures that terminate dependents, resets, destructor |
| `ClikQueue` | `clik_command_queue.cpp` | timestamps, the worker's pass, wait and release |
| `InOrderQueue` | what clik promises | abstract: commands run in order, after their dispatch |
| `ClCommandQueue` | `command_queue.cpp`, `event.cpp`, `semaphore.cpp` of OpenCL | batching, wait lists, user events, flush, finish, reuse of command buffers, over a mux queue |
| `ClRefCount` | `cl/base.h` | two counts changed by compare-exchange loops |
| `HostThreadPoolSteps`, `HostThreadPoolProofs`, `HostQueueProofs`, `HostQueueTheorems`, `HostNDRangeProofs`, `RiscvQueueProofs`, `ClikQueueProofs`, `ClRefCountProofs` | | theorems and the lemmas under them |
| `MC*` | | constants for TLC |

The modules compose by what the lower one promises. `HostThreadPool` is shown to
implement `WorkPool`, and `HostQueue` uses the pool as such a FIFO, keeping what
a caller can still notice (a full ring blocks until some item completes, waits
help, the signal changes before the count). `HostNDRange` does the same for the
items that call back into the pool. `HostQueue` and `RiscvQueue` implement
`DispatchOrder`. `ClCommandQueue` runs over a mux queue that keeps that promise
and little more: a dispatch may execute once its wait semaphores are signalled
(`Unblocked`, `MuxExecute`), signals its semaphore (`MuxSignal`) and then its
fence (`MuxComplete`). `muxWaitAll` may return when nothing that is left in the
queue can run, as `hostWaitAll` does, which looks at the groups in the pool only
(`MuxWaitAll`). It is obliged to return when the queue is empty. Both targets do
what this queue does; its definitions are mapped to the lines of host.

**State and steps.** Variables keep the names of the members they stand for. A
step is one atomic access of shared memory or one critical section. A mutex is
a variable only where a thread keeps it across steps. A condition variable is
the set of threads asleep on it, or their label `asleep`, and any sleeper may
wake for nothing (`SpuriousWake`). Variables marked *history* (`status` in the
pool, `stage`, `times`, `since`, `ran`, `phase`, `failed`, `extRefs`, `intRefs`)
are not in the code. No guard of the code's own steps reads them. They state
properties and the callers' obligations.

All command queues of an OpenCL context share one mutex. `ClCommandQueue`
therefore writes what happens under it as functions on one record, `cl`, named
after the C++ functions (`GetCommandBuffer`, `FlushIn`, `Cleanup`,
`DropDispatchesPending`...), and makes a step of each locked section. The
exception is an enqueue, which is cut where it reads the status of a user event
that another thread sets without the mutex (`EnqueueLock`, `EnqueueTest`,
`AddCallback`, `EnqueueEnd`).

**Callers' obligations.** A signal or fence is reused when its last item has
completed and nobody waits on it. A destructor runs when no other call is in
progress. A semaphore is reset when no dispatch that is under way uses it, and
has one dispatch under way that is to signal it. A dispatch may be made before
the one it waits for. A thread that retains or releases an OpenCL object holds
the reference it names.

**Left out of the modelled parts.** The data the commands move and the body of
a kernel; the terminate paths of the host queue (every call starts from
`terminate = false` and nothing records `command_type_terminate`); PAPI
counters, profiling and tracing; the number of threads the constructor chooses.
In `ClCommandQueue`: failures of mux and of allocations other than the creation
of a command buffer, wait calls on several events, the application's own event
callbacks, two threads that set the status of one user event, and the
destructor.

## What the runs check

| run | instance | shows |
|---|---|---|
| `pool` | 2 workers, 1 client, 3 items (two on one signal, two enqueued as a range), a ring that holds one | no item is lost, duplicated or miscounted (`IInv`, the invariant of the proofs, which includes `RingHoldsQueued`, `CountIsOutstanding` and `SignalMeansComplete`); no wake-up is lost (`WorkIsNoticed`, `WaiterIsWoken`); waits outlast their items; the refinement `ImplementsWorkPool`; items get done, every call returns and the destructor joins (`WorkIsDone`, `CallsReturn`) |
| `queue_reuse` | 3 groups, a join with a semaphore listed twice, all dispatched twice with resets, ring of 1, failing allocations | the order of dispatches (`ImplementsDispatchOrder`), nothing runs twice (`RunsOnce`), a wait that says the fence is signalled reads its final result (`TryWaitIsFinal`) |
| `queue_live` | 3 groups in a chain, dispatched in any order, ring of 1 | wait counts are exact, `muxWaitAll` covers waiting groups, dispatches complete and waits return, but for the stall described below |
| `ndrange` | 2 threads, 3 ND-ranges of 3 slices, ring of 3 | the locals outlive their users, every slice is executed once, groups end unless every thread sleeps for space or two hold the mutexes in a cycle |
| `riscv_chain` | 3 dispatches in a chain, each twice, from a client and from callbacks, failing commands | `ImplementsDispatchOrder`; a failure reaches all that follows it (`FailurePropagates`); `muxWaitAll` means that no command buffer is in use; `TryWaitIsFinal`; dispatches complete and calls return; the proofs' invariant |
| `clik_waited` | 2 clients, 4 commands, no dispatch while commands are left | an in-order queue whose waits and release return; the proofs' invariant |
| `cl_queue` | 2 queues, 5 commands that wait across queues and for a user event, one khr command buffer used twice, 2 mux buffers, a cache of one; each queue waits for the other | commands run in order (`RunsInOrder`) and after their wait lists (`RunsAfterWaits`); semaphores are counted exactly; buffers are reused when done; a khr command buffer keeps its own; `clFinish` outlasts the commands that no user event holds back; calls return; a user event releases what waits for it |
| `cl_refs` | 3 threads, 4 references, counts up to 2 | the invariant of the proofs, with it that counts are exact and asserts hold; the object is destroyed once and last, an invalid object stays invalid, and it is destroyed in the end |

Four runs end in a counterexample on purpose, each against a comment of the
code; `PROJECT.json` quotes them under `findings`.

* `pool_lock_cycle`: two clients that enqueue on a full ring lock `mutex` and
  `wait_mutex` in opposite orders (`thread_pool.cpp:200` and `:204`).
* `clik_overlap`: a dispatch made while the worker executes is notified before
  the worker waits; the worker does not test for it (`clik_command_queue.cpp:123`),
  and `clik_wait` never returns.
* `cl_order`: a command is appended to the only *pending* dispatch of its queue
  although the command in its wait list was already dispatched past that one
  (`command_queue.cpp:608`); it runs first.
* `cl_khr_lost`: `enqueueCommandBuffer` reads a user event's status twice. If the
  event completes in between, the dispatch is held back for an event that has no
  callback (`command_queue.cpp:1468`).

**Exceptions that properties name.** Some things the code does are known
conditions of a property, defined in the module beside it; TLC reaches each.

* `Stalled` (`HostQueueOrder`): `enqueue` sleeps for space with `queue->mutex` held
  while every other worker needs that mutex to complete its item.
* `NoneLeft` and `LockCycle` (`HostNDRange`): all threads sleep for space in
  `enqueue_range`, so that none is left to complete an item; or one of them has
  woken with `wait_mutex` and wants `mutex`, while another holds `mutex` and
  wants `wait_mutex` to begin to wait. A thread that finds the ring full while
  others go on is woken by the next completion, and `GroupEnds` covers it. The
  shipped ring has 4096 places, so `Stalled`, `NoneLeft` and the lock cycle need
  thousands of outstanding items; the models use a ring of one to three.
* `Starved` (`RiscvQueue` and `HostQueueOrder`): a dispatch waits, on host
  possibly through a chain of others, for a semaphore that nothing is to signal.
  `muxWaitAll` on host does not wait for a group that was dispatched before its
  signaller.
* `Released` (`ClCommandQueue`): the commands `clFinish` has to outlast are those
  whose dispatch has the signals it waits for on their way when the call flushes.
  One held back by a user event is excepted, and so is one that was dispatched
  and waits for a semaphore of a dispatch held back, or dropped. On host
  `muxWaitAll` returns with such dispatches still in the queue, although `mux.h`
  says "Wait for all previously pushed command buffers to complete"; on `riscv`
  it waits for them.
* `SelfLocked` (`ClCommandQueue`): a user event that completes between the test
  of its status and `addCallback` has its callback run inline, by a thread that
  holds the mutex the callback locks (`command_queue.cpp:547`; `validate.h:100`
  speaks of such a deadlock).
* `Orphaned` (`ClCommandQueue`): the semaphore of a dispatch dropped for a failed
  user event is never signalled, and what was dispatched behind it stays in the
  mux queue.

**Observed, without a run.** `hostDispatch` drops the out-of-memory results of
`addGroup` and `addWait` and returns `mux_success` (`queue.cpp:560`, `:565`);
`queue_reuse` has the lost group and shows that it disturbs no other. The RISC-V
queue signals a fence while it holds the command buffer's mutex
(`riscv/source/queue.cpp:164`). `dropDispatchesPending` puts the mux buffer of a
khr command buffer into the cache and leaves `execution_refcount` raised;
`KhrKeepsItsBuffer` is therefore stated for khr command buffers that wait for no
user event. When `createSemaphore` fails, a command buffer stays pending without
a dispatch.

**Bounds.** A ring of one to three places makes full, empty and wrapped rings
all happen within three items. Two dispatches per group (`MaxTimes`) are the
least that reuse every object once. Three groups are the least with a join, or
with a failure that travels through a dispatch that did not execute. Two workers
and a client that helps give each pair of roles in the pool; two clients at once
are covered by the proofs, and by `pool_lock_cycle`. Four clik commands are
two dispatches of two. Two OpenCL queues, a user event and a shared khr
command buffer are the least in which each kind of dependency occurs, and two
mux buffers the least that run out. Counts up to 2 overflow with three threads.

**Symmetry** is over the workers, in `queue_reuse`, which has no liveness.

**Deadlock** is checked except where the code may really stop: the stalls and
exceptions above, and instances that end when all they may do is done.

**Fairness.** Weak fairness of each thread inside the runtime, commands that
end, and spurious wake-ups that do not go on for ever: what an operating
system's scheduler and a device give. Clients are never obliged to call. `pool`
has one enqueuing client, since two may run into the lock cycle. `ClCommandQueue`
states weak fairness (`WeakFairness`, used by `cl_khr_lost`) and spells it out
for the larger `cl_queue`: a thread or a mux buffer is again and again unable to
go on, or again and again goes on (`Fairness`). A thread in `clFinish` is obliged
to go on only when the mux queue is empty, the weaker of what the two targets
give. No strong fairness is needed: with boundedly many calls every mutex is
taken finitely often.

Every property has a mutant in `PROJECT.json`: a small plausible error in one
definition that TLC finds through that property.

## What is proved

Each theorem holds for any sets of threads, items, groups, semaphores, fences and
references, and any bounds, under the one named assumption of its module on
constants (`PoolAssumption`, `QueueAssumption`, `NDRangeAssumption`, `RiscvAssumption`,
`ClikAssumption`, `RefAssumption`), which TLC evaluates on every run of that module.

| module | theorem | states |
|---|---|---|
| `HostThreadPoolProofs` | `Invariance` | `[]IInv` |
| | `TypeCorrect` | `[]TypeOK`; indices stay in the ring |
| | `RingIsExact`, `CountIsExact`, `SignalIsExact` | `[]RingHoldsQueued`, `[]CountIsOutstanding`, `[]SignalMeansComplete` |
| | `WaitIsSound` | `WaitOutlastsItems`, an action property |
| | `WakeInvariance` | `[]WakeInv` |
| | `NoStrandedWork`, `NoLostWakeup` | `[]WorkIsNoticed`, `[]WaiterIsWoken` |
| | `PoolIsWorkPool` | the pool implements `WorkPool` |
| `HostQueueProofs` | `BaseInvariance` | `[]BaseInv` |
| | `PoolRunsOnce` | `[]RunsOnce` |
| | `TryWaitIsSound` | `TryWaitIsFinal`, an action property |
| | `OrderInvariance` | `[]OrderInv`, under `SignalsOnce` |
| `HostQueueTheorems` | `HostImplementsOrder` | the queue implements `DispatchOrder`, under `SignalsOnce` and `OneSignaller` |
| | `CountsAreExact` | `[]WaitCountIsExact`, under `SignalsOnce` and `~AllocFails` |
| | `WaitAllIsSound` | `WaitAllOutlastsGroups`, an action property, under the same |
| `HostNDRangeProofs` | `QueuedCounts` | `[]CountInv`: `queued` is the number of slices counted and not completed |
| | `LocalsOutliveSlices` | `[]LocalsOutlive` |
| | `NDRangeRunsWhole` | `[]NDRangeIsWhole` |
| `RiscvQueueProofs` | `RiscvInvariance` | `[]IInv` |
| | `WaitAllIsSound`, `TryWaitIsSound` | `[]WaitAllMeansUnused`, `TryWaitIsFinal` |
| | `FailureIsSound` | `[]FailurePropagates`, where each semaphore has one signaller |
| | `RiscvImplementsOrder` | the queue implements `DispatchOrder`, with the same condition |
| `ClikQueueProofs` | `ClikInvariance`, `WaitIsSound` | `[]IInv`, `WaitOutlastsCommands` |
| | `ClikImplementsInOrder` | the queue implements `InOrderQueue` |
| `ClRefCountProofs` | `RefInvariance` | `[]IInv` |
| | `CountsExact`, `DestroyedOnce`, `AssertsHold` | `[]CountsAreExact`, `[]DestroyedLast`, `[]AssertionsHold` |
| | `InvalidForGood` | `StaysInvalid`, an action property |

**Thread pool.** The safety properties are not inductive alone. `RingHoldsQueued`
needs to know that the item about to be stored is nowhere else; that is
`TodoInv`, each item yet to be stored belongs to one call. `CountIsOutstanding`
needs `WorkInv`, the item a thread completes is its own. `SignalMeansComplete`
needs `SignalInv`, a signal serves one unfinished item at a time and is clear
when its item may be stored. `WaitOutlastsItems` needs `SinceInv`, what a wait
covers is on its goal and never moves back. `ControlInv` ties these to the
program counters. Their conjunction with the properties is `IInv`. `NextInv` has
one lemma per group of actions; those that change an item are in
`HostThreadPoolSteps`. Steps that change only control share `QuietStep`,
`QuietMove` and `QuietSleep`. `StoreStep` and `TakeStep` carry the ring's
arithmetic (`WindowGrows`, `WindowShrinks`), `CountOneMore` and `CountOneLess`
the cardinalities.

For the wake-ups, `WakeInv` says who is on the way to notify whom: while the
ring holds work and a worker sleeps there is a thread past its store and before
its `notify_one`, or a worker awake; and a waiter asleep with its condition true
has a thread between the last count and its `notify_all`. For the refinement,
the ring between its indices is the FIFO of `WorkPool`; each action is shown to
be one of its steps or to leave its state alone.

**Host queue.** `BaseInv` says where a thread holds the mutex of the queue and
has a group (`ControlInv`), that a group is tracked until it is enqueued and that
the place of the thread that runs it tells how far it is (`StageInv`), and that a
fence serves one dispatch at a time, has its result before that dispatch is
called and its signal only when no dispatch uses it (`FenceInv`). `RunsOnce`
needs `StageInv`: a group about to be stored is nowhere in the pool, because it
is still `dispatched`. `TryWaitIsFinal` needs that the signal stays set as long
as a client is between its two reads. Steps that move one thread share
`ThreadMoves`, `OnlyThreadMoves` and `GroupMoves`, which say what such a step has
to show; failing allocations are included.

`OrderInv` is inductive relative to `BaseInv`. A semaphore has at most one
active signaller, is not signalled before that one calls its function, and a
thread in its cleanup has yet to signal exactly what is not signalled
(`SemaphoreInv`). The count of a group is at least the number of its waits not
yet signalled and of the calls under way for it, so the group is enqueued only
when all are signalled (`CountInv`). When no allocation fails the two are equal,
entry by entry in the lists of the semaphores (`ExactInv`). The calls under way
matter: inside `hostDispatch` and `semaphore_s::signal` the flag is already set
and the count is not yet lowered. The refinement maps a group's stage to a
phase of `DispatchOrder`, and what it comes after to the groups that signal its
semaphores not yet signalled.

`muxWaitAll` looks only at the number of groups in the pool, yet outlasts groups
that are not there yet. `RunningInv` says that the count is what the ring, the
threads and a thread on its way into the ring hold. `WaitAllInv` says that the
groups a wait has to outlast are *founded*: in any set of them some group waits
only for semaphores that are signalled or that one outside of the set will
signal. That is what the least fixed point `Supplied` gives when the wait begins
(`SuppliedIsFounded`), and each step keeps it. When the count is zero a
group still owed has all its waits signalled, and `ExactInv` says that it is
counted: a contradiction.

The hypotheses are on the callers and the machine. `SignalsOnce`, no group lists
a semaphore twice among those it signals, and `OneSignaller` are met by the
OpenCL command queue, which creates a semaphore per dispatch. Without
`OneSignaller`, "the groups it waits for" is not determined by the semaphores.
Where an allocation fails `hostDispatch` loses the group, which is then counted
nowhere.

**ND-ranges.** A thread's calls nest: a wait that helps executes slices of other
groups, whole groups included, which wait in turn. `LocalsOutlive` is about one
count, `queued`, that all of these change. `IInv` follows each item instead. It
is in at most one call of one thread (`HeldOnce`) or once in the ring, never in
both (`RingOnce`). The place of a call says whether the locals of its group are
there, and whether it holds the wait mutex (`PlacesInv`). The slices that exist
are those below the `next` of the call that makes them (`NextInv`). From this
`queued` is the number of slices in the ring or in a call that has not counted
them down, and one more while `enqueue_range` has counted a slice and not stored
it, also while it sleeps for space (`CountInv`). So a wait that sees zero sees
that no slice is left, but for a thread between its decrement and its last look
at the count. That thread holds the wait mutex, which `SecondWait` needs.
`RanInv` adds that a slice that was made and is no longer in the ring or about
to run has been executed once.

**RISC-V queue.** `IInv` says that the queue thread has one dispatch at a time
and that its place tells how far that is (`WorkerInv`), that the pending list
holds each pending dispatch once (`PendingInv`), that a fence has one dispatch
and completes with it (`FenceInv`), that a failed dispatch leaves none of its
semaphores signalled but not terminated (`FailInv`), and that what a
`muxWaitAll` covers has been dispatched (`SinceInv`). There is one lemma per
action. `OneSignaller`, each semaphore has one command buffer that signals it, is
a hypothesis of two theorems and not an assumption: without it a semaphore
reset after a failure may be signalled by another command buffer, and "the
dispatches it waits for" is not determined by the semaphores. The OpenCL command
queue creates a semaphore per dispatch and meets it.

**clik.** `IInv` says that the list holds the timestamps after
`executed_timestamp` without a gap. The lost wake-up of `clik_overlap` is a
matter of liveness: the theorems hold for that behaviour too.

**Reference counts.** `IInv` relates each count to the set of references it
counts, says that an object with an external reference has the internal one that
stands for it, and which references the threads inside a function rely on.

Only model-checked: everything about `ClCommandQueue` (whose recursive operators
are outside the prover), and all liveness, which is beyond it too.

## Not modelled

The inventory with reasons is under `components` in `PROJECT.json`. Measured in
lines, the models cover a small part of the repository, about one per cent
of its roughly 270,000 lines. Most of those are the compiler, vecz, the SPIR-V
translator and the builtins library: transformations of LLVM IR and numeric
kernels, without states and steps of their own that a model checker could
explore. What is modelled is nearly all of the code in which threads share state
at run time.

* The **compiler, vecz, spirv-ll and builtins**: see above.
* **Vulkan and Unified Runtime**: front ends that submit to the same
  `muxDispatch`; the latter is incomplete in the repository.
* **mux API layer, recording of command buffers, query pools, kernels, memory
  objects, programs**: validation and appending under one mutex.
* **cargo**: sequential containers.
* **HAL clients, loader, debug, tracer, metadata, utils, test suites**: I/O,
  formats and logging.
* The **destructor of the OpenCL command queue**, the application's event
  callbacks and mux failures: the next things to add to `ClCommandQueue`.

## Running

    tlc -config Pool.cfg MCHostThreadPool
    tlc -config ClCross.cfg MCClCommandQueue
    tlapm RiscvQueueProofs.tla

Each run's module and configuration are in `PROJECT.json`; `tlapm` takes each of
the eight modules with theorems. The runs take one to three minutes each, the
proofs less than an hour together.
