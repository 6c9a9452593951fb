---------------------------- MODULE HostThreadPool ----------------------------
(***************************************************************************)
(* The thread pool of the host target: host::thread_pool_s of              *)
(* modules/mux/targets/host (thread_pool.h, thread_pool.cpp).              *)
(*                                                                         *)
(* A step is one atomic access of shared memory or one critical section.   *)
(* A mutex is a variable only where a thread holds it across steps (the    *)
(* wait for space in a full ring, the whole of enqueue_range); a critical  *)
(* section that blocks on nothing is a single step guarded by the mutex    *)
(* being free.  A condition variable is the set of the threads asleep on   *)
(* it; leaving the set (notify or a spurious wake-up) lets the thread      *)
(* compete for the mutex again.                                            *)
(*                                                                         *)
(* A member of Items is one call of enqueue, or one slice of               *)
(* enqueue_range: the function to run, its signal and its count.  The      *)
(* functions are opaque here; HostNDRange models those that call back      *)
(* into the pool.                                                          *)
(***************************************************************************)
EXTENDS Integers, Sequences, FiniteSets

CONSTANTS
    Workers,     \* the threads of the pool, threadFunc
    Clients,     \* the threads that call the pool's member functions
    Enqueuers,   \* the clients that call enqueue and enqueue_range
    Items,       \* the work items, each enqueued at most once
    Ranges,      \* the sequences of items callers pass to enqueue_range
    Signals,     \* the std::atomic<bool>s items carry
    Counts,      \* the std::atomic<uint32_t>s items carry
    SignalOf,    \* the signal of an item, NoSignal when it is null
    CountOf,     \* the count of an item
    QueueMax,    \* queue_max: the ring holds QueueMax - 1 items
    NoSignal, NoItem, NoGoal, NoThread

Threads == Workers \cup Clients

ASSUME PoolAssumption ==
    /\ Workers # {} /\ Workers \cap Clients = {} /\ NoThread \notin Threads
    /\ Enqueuers \subseteq Clients
    /\ NoItem \notin Items /\ IsFiniteSet(Items)
    /\ Signals \cap Counts = {}
    /\ NoSignal \notin Signals \cup Counts /\ NoGoal \notin Signals \cup Counts
    /\ SignalOf \in [Items -> Signals \cup {NoSignal}]
    /\ CountOf \in [Items -> Counts]
    /\ Ranges \subseteq Seq(Items) \ {<< >>}
    /\ \A r \in Ranges : \A k, l \in DOMAIN r :
          k # l => r[k] # r[l] /\ SignalOf[r[k]] \in {NoSignal} \cup
                                     (Signals \ {SignalOf[r[l]]})
    /\ QueueMax \in Nat \ {0, 1}

VARIABLES
    queue, readIndex, writeIndex,  \* the ring and its two indices
    mutex, waitMutex,              \* the owner of each mutex, or NoThread
    newWork, doneWork, finished,   \* the threads asleep on each condition
    stayAlive,
    signal, count,                 \* the atomics the items carry
    pc,                            \* where each thread is
    work,                          \* the item a thread is running
    todo,                          \* the items a client has yet to store
    bulk,                          \* whether that call is enqueue_range
    goal,                          \* what a client waits for
    status,                        \* history: how far each item has come
    since                          \* history: items a wait has to outlast

ringVars == <<queue, readIndex, writeIndex>>
lockVars == <<mutex, waitMutex>>
poolVars == <<ringVars, lockVars, stayAlive>>
condVars == <<newWork, doneWork, finished>>
itemVars == <<signal, count, status>>
callVars == <<todo, bulk, goal, since>>
vars == <<poolVars, condVars, itemVars, callVars, pc, work>>

-------------------------------------------------------------------------------
\* Helpers

Indices == 0..(QueueMax - 1)

NextIndex(i) == (i + 1) % QueueMax

RingEmpty == readIndex = writeIndex

RingFull == readIndex = NextIndex(writeIndex)

\* condition_variable::notify_one wakes one sleeper when there is one.
NotifyOne(sleepers) ==
    IF sleepers = {} THEN {{}} ELSE {sleepers \ {t} : t \in sleepers}

\* An item is outstanding from the increment of its count to the decrement.
Outstanding(i) ==
    status[i] \in {"counted", "queued", "running", "ran", "signalled"}

\* The signal of such an item is not going to be set or cleared any more.
Settled == {"new", "signalled", "done"}

\* Mutant: a count of one passes for done.
SatisfiedEarly(g) == IF g \in Signals THEN signal[g] ELSE count[g] <= 1

\* The test of both overloads of wait: the signal is set, the count is zero.
Satisfied(g) == IF g \in Signals THEN signal[g] ELSE count[g] = 0

\* The destructor may not run while another thread is inside a member function.
DtorLabels == {"dtor_notify", "dtor_join", "dead"}

MayCall(t) == pc[t] = "idle" /\ \A c \in Clients : pc[c] \notin DtorLabels

\* A signal is reused only after it was set and when nobody waits on it.
SignalFree(i) ==
    SignalOf[i] # NoSignal =>
        /\ \A j \in Items :
              SignalOf[j] = SignalOf[i] => status[j] \in Settled
        /\ \A c \in Clients : goal[c] # SignalOf[i]

Goto(t, label) == pc' = [pc EXCEPT ![t] = label]

-------------------------------------------------------------------------------
\* enqueue and enqueue_range

\* *count += 1, before the signal is touched.
AddToCount(i) ==
    /\ count' = [count EXCEPT ![CountOf[i]] = @ + 1]
    /\ status' = [status EXCEPT ![i] = "counted"]

\* Mutant: a reused signal keeps its old value.
ClearSignalMissing(i) == UNCHANGED signal

\* *signal = false, when there is a signal.
ClearSignal(i) ==
    signal' = [s \in Signals |-> IF s = SignalOf[i] THEN FALSE ELSE signal[s]]

\* With the queue mutex held: block on a full ring, else store the item and
\* go on with the next slice or leave the critical section.
StoreOrBlock(t) ==
    LET i == Head(todo[t])
        rest == Tail(todo[t])
    IN  \/ /\ RingFull
           /\ mutex' = t
           /\ Goto(t, "full_lock")
           /\ UNCHANGED <<ringVars, todo, status>>
        \/ /\ ~RingFull
           /\ queue' = [queue EXCEPT ![writeIndex] = i]
           /\ writeIndex' = NextIndex(writeIndex)
           /\ status' = [status EXCEPT ![i] = "queued"]
           /\ todo' = [todo EXCEPT ![t] = rest]
           /\ IF rest = << >>
              THEN mutex' = NoThread /\ Goto(t, "enq_notify")
              ELSE mutex' = t /\ Goto(t, "range_count")
           /\ UNCHANGED readIndex

Enqueue(t, i) ==
    /\ MayCall(t)
    /\ status[i] = "new"
    /\ SignalFree(i)
    /\ AddToCount(i)
    /\ todo' = [todo EXCEPT ![t] = <<i>>]
    /\ bulk' = [bulk EXCEPT ![t] = FALSE]
    /\ Goto(t, "enq_signal")
    /\ UNCHANGED <<poolVars, condVars, goal, since, signal, work>>

EnqueueSignal(t) ==
    /\ pc[t] = "enq_signal"
    /\ ClearSignal(Head(todo[t]))
    /\ Goto(t, "enq_lock")
    /\ UNCHANGED <<poolVars, condVars, callVars, count, work, status>>

EnqueueStore(t) ==
    /\ pc[t] = "enq_lock"
    /\ mutex = NoThread
    /\ StoreOrBlock(t)
    /\ UNCHANGED <<condVars, waitMutex, bulk, goal, since, stayAlive, signal,
                   count, work>>

EnqueueRange(t, slices) ==
    /\ MayCall(t)
    /\ \A k \in DOMAIN slices :
          status[slices[k]] = "new" /\ SignalFree(slices[k])
    /\ status' = [i \in Items |-> IF \E k \in DOMAIN slices : slices[k] = i
                                THEN "called" ELSE status[i]]
    /\ todo' = [todo EXCEPT ![t] = slices]
    /\ bulk' = [bulk EXCEPT ![t] = TRUE]
    /\ Goto(t, "range_lock")
    /\ UNCHANGED <<poolVars, condVars, goal, since, signal, count, work>>

RangeLock(t) ==
    /\ pc[t] = "range_lock"
    /\ mutex = NoThread
    /\ mutex' = t
    /\ Goto(t, "range_count")
    /\ UNCHANGED <<ringVars, condVars, itemVars, callVars, waitMutex, stayAlive,
                   work>>

RangeCount(t) ==
    /\ pc[t] = "range_count"
    /\ AddToCount(Head(todo[t]))
    /\ Goto(t, "range_store")
    /\ UNCHANGED <<poolVars, condVars, callVars, signal, work>>

RangeStore(t) ==
    /\ pc[t] = "range_store"
    /\ ClearSignal(Head(todo[t]))
    /\ StoreOrBlock(t)
    /\ UNCHANGED <<condVars, waitMutex, bulk, goal, since, stayAlive, count,
                   work>>

\* A full ring: take the wait mutex with the queue mutex still held, give the
\* queue mutex up, wake a worker and sleep until some item completes.
FullWait(t) ==
    /\ pc[t] = "full_lock"
    /\ waitMutex = NoThread
    /\ mutex' = NoThread
    /\ newWork' \in NotifyOne(newWork)
    /\ doneWork' = doneWork \cup {t}
    /\ Goto(t, "full_wait")
    /\ UNCHANGED <<ringVars, itemVars, callVars, waitMutex, finished, stayAlive,
                   work>>

\* Woken, the sleeper owns the wait mutex again ...
FullWake(t) ==
    /\ pc[t] = "full_wait"
    /\ t \notin doneWork
    /\ waitMutex = NoThread
    /\ waitMutex' = t
    /\ Goto(t, "full_relock")
    /\ UNCHANGED <<ringVars, condVars, itemVars, callVars, mutex, stayAlive,
                   work>>

\* ... and keeps it while it locks the queue mutex to look at the ring again.
FullRelock(t) ==
    /\ pc[t] = "full_relock"
    /\ mutex = NoThread
    /\ waitMutex' = NoThread
    /\ StoreOrBlock(t)
    /\ UNCHANGED <<condVars, bulk, goal, since, stayAlive, signal, count, work>>

\* Mutant: enqueue returns without waking a worker.
EnqueueNotifyMissing(t) ==
    /\ pc[t] = "enq_notify"
    /\ Goto(t, "idle")
    /\ UNCHANGED <<poolVars, condVars, itemVars, callVars, work>>

\* new_work.notify_one at the end of enqueue, notify_all after enqueue_range.
EnqueueNotify(t) ==
    /\ pc[t] = "enq_notify"
    /\ IF bulk[t] THEN newWork' = {} ELSE newWork' \in NotifyOne(newWork)
    /\ Goto(t, "idle")
    /\ UNCHANGED <<poolVars, itemVars, callVars, doneWork, finished, work>>

-------------------------------------------------------------------------------
\* getWork, tryGetWork, threadFunc and threadFuncBody

\* Mutant: the read index stays where it was.
TakeKeeps(t) ==
    /\ work' = [work EXCEPT ![t] = queue[readIndex]]
    /\ status' = [status EXCEPT ![queue[readIndex]] = "running"]
    /\ readIndex' = readIndex
    /\ Goto(t, "run")

Take(t) ==
    /\ work' = [work EXCEPT ![t] = queue[readIndex]]
    /\ status' = [status EXCEPT ![queue[readIndex]] = "running"]
    /\ readIndex' = NextIndex(readIndex)
    /\ Goto(t, "run")

\* The test of stayAlive without the mutex at the top of getWork.
GetWorkCheck(t) ==
    /\ pc[t] = "get_check"
    /\ Goto(t, IF stayAlive THEN "get_lock" ELSE "exit")
    /\ UNCHANGED <<poolVars, condVars, itemVars, callVars, work>>

\* new_work.wait with its predicate, then the result of getWork.
GetWork(t) ==
    /\ pc[t] = "get_lock"
    /\ t \notin newWork
    /\ mutex = NoThread
    /\ \/ /\ RingEmpty /\ stayAlive
          /\ newWork' = newWork \cup {t}
          /\ UNCHANGED <<ringVars, pc, work, status>>
       \/ /\ ~stayAlive
          /\ Goto(t, "exit")
          /\ UNCHANGED <<ringVars, newWork, work, status>>
       \/ /\ ~RingEmpty /\ stayAlive
          /\ Take(t)
          /\ UNCHANGED <<queue, writeIndex, newWork>>
    /\ UNCHANGED <<lockVars, callVars, doneWork, finished, stayAlive, signal,
                   count>>

\* item.function(...)
RunItem(t) ==
    /\ pc[t] = "run"
    /\ status' = [status EXCEPT ![work[t]] = "ran"]
    /\ Goto(t, "body_lock")
    /\ UNCHANGED <<poolVars, condVars, callVars, signal, count, work>>

\* Under the wait mutex: the signal is set first, when there is one ...
SetSignal(t) ==
    /\ pc[t] = "body_lock"
    /\ waitMutex = NoThread
    /\ waitMutex' = t
    /\ signal' = [s \in Signals |-> s = SignalOf[work[t]] \/ signal[s]]
    /\ status' = [status EXCEPT ![work[t]] = "signalled"]
    /\ Goto(t, "body_count")
    /\ UNCHANGED <<ringVars, condVars, callVars, mutex, stayAlive, count, work>>

\* ... then the count is decremented ...
DecrementCount(t) ==
    /\ pc[t] = "body_count"
    /\ count' = [count EXCEPT ![CountOf[work[t]]] = @ - 1]
    /\ status' = [status EXCEPT ![work[t]] = "done"]
    /\ Goto(t, "body_zero")
    /\ UNCHANGED <<poolVars, condVars, callVars, signal, work>>

\* Mutant: the count is compared with one, its value before the decrement.
TestZeroStale(t) ==
    /\ pc[t] = "body_zero"
    /\ waitMutex' = NoThread
    /\ work' = [work EXCEPT ![t] = NoItem]
    /\ Goto(t, IF count[CountOf[work[t]]] = 1 THEN "body_finished"
                                             ELSE "body_done")
    /\ UNCHANGED <<ringVars, condVars, itemVars, callVars, mutex, stayAlive>>

\* ... and read again, while enqueue may be incrementing it.
TestZero(t) ==
    /\ pc[t] = "body_zero"
    /\ waitMutex' = NoThread
    /\ work' = [work EXCEPT ![t] = NoItem]
    /\ Goto(t, IF count[CountOf[work[t]]] = 0 THEN "body_finished"
                                             ELSE "body_done")
    /\ UNCHANGED <<ringVars, condVars, itemVars, callVars, mutex, stayAlive>>

\* finished.notify_all, when the count reached zero.
NotifyFinished(t) ==
    /\ pc[t] = "body_finished"
    /\ finished' = {}
    /\ Goto(t, "body_done")
    /\ UNCHANGED <<poolVars, itemVars, callVars, newWork, doneWork, work>>

\* Mutant: those asleep on done_work are not woken.
NotifyDoneMissing(t) ==
    /\ pc[t] = "body_done"
    /\ Goto(t, IF t \in Workers THEN "get_check" ELSE "wait_loop")
    /\ UNCHANGED <<poolVars, condVars, itemVars, callVars, work>>

\* done_work.notify_all, then back to the loop that took the item.
NotifyDone(t) ==
    /\ pc[t] = "body_done"
    /\ doneWork' = {}
    /\ Goto(t, IF t \in Workers THEN "get_check" ELSE "wait_loop")
    /\ UNCHANGED <<poolVars, itemVars, callVars, newWork, finished, work>>

-------------------------------------------------------------------------------
\* wait(signal), wait(count) and hostWaitAll

\* A signal is waited on after the call that stored its item, never before or
\* while that call is about to clear it.
Waitable(g) ==
    g \in Signals =>
        LET uses == {status[i] : i \in {j \in Items : SignalOf[j] = g}}
        IN  /\ uses \cap {"queued", "running", "ran", "signalled", "done"} # {}
            /\ uses \cap {"called", "counted"} = {}

\* The items a wait on g has to outlast.
Covered(g) ==
    {i \in Items :
        \/ CountOf[i] = g /\ Outstanding(i)
        \/ SignalOf[i] = g /\ status[i] \in {"queued", "running", "ran"}}

BeginWait(t, g, label) ==
    /\ MayCall(t)
    /\ Waitable(g)
    /\ goal' = [goal EXCEPT ![t] = g]
    /\ since' = [since EXCEPT ![t] = Covered(g)]
    /\ Goto(t, label)
    /\ UNCHANGED <<poolVars, condVars, itemVars, todo, bulk, work>>

Wait(t, g) == BeginWait(t, g, "wait_enter")

\* hostWaitAll goes straight to the condition, without helping.
WaitAll(t, c) == BeginWait(t, c, "wait_lock")

Return(t) ==
    /\ goal' = [goal EXCEPT ![t] = NoGoal]
    /\ since' = [since EXCEPT ![t] = {}]
    /\ Goto(t, "idle")

\* The first test of wait, and the test after its helping loop.
WaitTest(t) ==
    /\ pc[t] \in {"wait_enter", "wait_test"}
    /\ IF Satisfied(goal[t])
       THEN Return(t)
       ELSE /\ Goto(t, IF pc[t] = "wait_enter" THEN "wait_loop" ELSE "wait_lock")
            /\ UNCHANGED <<goal, since>>
    /\ UNCHANGED <<poolVars, condVars, itemVars, todo, bulk, work>>

\* The test of the helping loop.
WaitLoop(t) ==
    /\ pc[t] = "wait_loop"
    /\ Goto(t, IF Satisfied(goal[t]) THEN "wait_test" ELSE "wait_try")
    /\ UNCHANGED <<poolVars, condVars, itemVars, callVars, work>>

\* tryGetWork; the pool is alive whenever a client is inside a call.
TryGetWork(t) ==
    /\ pc[t] = "wait_try"
    /\ mutex = NoThread
    /\ \/ /\ RingEmpty
          /\ Goto(t, "wait_test")
          /\ UNCHANGED <<ringVars, work, status>>
       \/ /\ ~RingEmpty
          /\ Take(t)
          /\ UNCHANGED <<queue, writeIndex>>
    /\ UNCHANGED <<lockVars, condVars, callVars, stayAlive, signal, count>>

\* done_work.wait or finished.wait with its predicate, under the wait mutex.
WaitBlocked(t) ==
    /\ pc[t] = "wait_lock"
    /\ t \notin doneWork \cup finished
    /\ waitMutex = NoThread
    /\ IF Satisfied(goal[t])
       THEN Return(t) /\ UNCHANGED <<doneWork, finished>>
       ELSE /\ IF goal[t] \in Signals
               THEN doneWork' = doneWork \cup {t} /\ UNCHANGED finished
               ELSE finished' = finished \cup {t} /\ UNCHANGED doneWork
            /\ UNCHANGED <<pc, goal, since>>
    /\ UNCHANGED <<poolVars, itemVars, newWork, todo, bulk, work>>

\* condition_variable::wait may wake without a notification.
SpuriousWake(t) ==
    /\ t \in newWork \cup doneWork \cup finished
    /\ newWork' = newWork \ {t}
    /\ doneWork' = doneWork \ {t}
    /\ finished' = finished \ {t}
    /\ UNCHANGED <<poolVars, itemVars, callVars, pc, work>>

-------------------------------------------------------------------------------
\* ~thread_pool_s

DtorStop(t) ==
    /\ MayCall(t)
    /\ \A c \in Clients : pc[c] = "idle"
    /\ mutex = NoThread
    /\ stayAlive' = FALSE
    /\ Goto(t, "dtor_notify")
    /\ UNCHANGED <<ringVars, lockVars, condVars, itemVars, callVars, work>>

DtorNotify(t) ==
    /\ pc[t] = "dtor_notify"
    /\ newWork' = {}
    /\ Goto(t, "dtor_join")
    /\ UNCHANGED <<poolVars, itemVars, callVars, doneWork, finished, work>>

DtorJoin(t) ==
    /\ pc[t] = "dtor_join"
    /\ \A w \in Workers : pc[w] = "exit"
    /\ Goto(t, "dead")
    /\ UNCHANGED <<poolVars, condVars, itemVars, callVars, work>>

-------------------------------------------------------------------------------
Init ==
    /\ queue = [i \in Indices |-> NoItem]
    /\ readIndex = 0 /\ writeIndex = 0
    /\ mutex = NoThread /\ waitMutex = NoThread
    /\ newWork = {} /\ doneWork = {} /\ finished = {}
    /\ stayAlive = TRUE
    /\ signal = [s \in Signals |-> FALSE]
    /\ count = [c \in Counts |-> 0]
    /\ pc = [t \in Threads |-> IF t \in Workers THEN "get_check" ELSE "idle"]
    /\ work = [t \in Threads |-> NoItem]
    /\ todo = [t \in Clients |-> << >>]
    /\ bulk = [t \in Clients |-> FALSE]
    /\ goal = [t \in Clients |-> NoGoal]
    /\ status = [i \in Items |-> "new"]
    /\ since = [t \in Clients |-> {}]

\* What a client decides to call.
Call(t) ==
    \/ t \in Enqueuers /\ \E i \in Items : Enqueue(t, i)
    \/ t \in Enqueuers /\ \E slices \in Ranges : EnqueueRange(t, slices)
    \/ \E g \in Signals \cup Counts : Wait(t, g)
    \/ \E c \in Counts : WaitAll(t, c)
    \/ DtorStop(t)

\* A step inside a call, or of the loop of a worker.
EnqueueStep(t) ==
    \/ EnqueueSignal(t) \/ EnqueueStore(t) \/ EnqueueNotify(t)
    \/ RangeLock(t) \/ RangeCount(t) \/ RangeStore(t)
    \/ FullWait(t) \/ FullWake(t) \/ FullRelock(t)

WaitStep(t) == WaitTest(t) \/ WaitLoop(t) \/ TryGetWork(t) \/ WaitBlocked(t)

BodyStep(t) ==
    \/ RunItem(t) \/ SetSignal(t) \/ DecrementCount(t) \/ TestZero(t)
    \/ NotifyFinished(t) \/ NotifyDone(t)

WorkerStep(t) == GetWorkCheck(t) \/ GetWork(t)

DtorStep(t) == DtorNotify(t) \/ DtorJoin(t)

ClientStep(t) == EnqueueStep(t) \/ WaitStep(t) \/ BodyStep(t) \/ DtorStep(t)

\* The pool is gone; nothing is left to do.
Terminated ==
    /\ \E c \in Clients : pc[c] = "dead"
    /\ UNCHANGED vars

Next ==
    \/ \E t \in Clients : Call(t) \/ ClientStep(t)
    \/ \E t \in Workers : WorkerStep(t) \/ BodyStep(t)
    \/ \E t \in Threads : SpuriousWake(t)
    \/ Terminated

\* Every thread inside the pool keeps being scheduled, and wake-ups without a
\* notification do not go on for ever; clients need not call.
Fairness ==
    /\ <>[][\A t \in Threads : ~SpuriousWake(t)]_vars
    /\ \A t \in Clients : WF_vars(ClientStep(t))
    /\ \A t \in Workers : WF_vars(WorkerStep(t) \/ BodyStep(t))

Spec == Init /\ [][Next]_vars

FairSpec == Spec /\ Fairness

-------------------------------------------------------------------------------
\* Properties

Labels ==
    {"idle", "enq_signal", "enq_lock", "enq_notify", "range_lock",
     "range_count", "range_store", "full_lock", "full_wait", "full_relock",
     "wait_enter", "wait_loop", "wait_try", "wait_test", "wait_lock",
     "get_check", "get_lock", "exit", "run", "body_lock", "body_count",
     "body_zero", "body_finished", "body_done", "dtor_notify", "dtor_join", "dead"}

Statuses == {"new", "called", "counted", "queued", "running", "ran", "signalled",
             "done"}

\* Types of the members of thread_pool_s and of the locals of its callers.
TypeOK ==
    /\ queue \in [Indices -> Items \cup {NoItem}]
    /\ readIndex \in Indices /\ writeIndex \in Indices
    /\ mutex \in Threads \cup {NoThread}
    /\ waitMutex \in Threads \cup {NoThread}
    /\ newWork \subseteq Threads
    /\ doneWork \subseteq Threads
    /\ finished \subseteq Threads
    /\ stayAlive \in BOOLEAN
    /\ signal \in [Signals -> BOOLEAN]
    /\ count \in [Counts -> Nat]
    /\ pc \in [Threads -> Labels]
    /\ work \in [Threads -> Items \cup {NoItem}]
    /\ todo \in [Clients -> Seq(Items)]
    /\ bulk \in [Clients -> BOOLEAN]
    /\ goal \in [Clients -> Signals \cup Counts \cup {NoGoal}]
    /\ status \in [Items -> Statuses]
    /\ since \in [Clients -> SUBSET Items]

\* The positions between the read and the write index, cyclically.
Window ==
    {k \in Indices : IF readIndex <= writeIndex
                     THEN readIndex <= k /\ k < writeIndex
                     ELSE readIndex <= k \/ k < writeIndex}

\* The ring neither loses nor duplicates work: its window holds exactly the
\* items stored and not yet taken, each once, however enqueue, enqueue_range,
\* getWork and tryGetWork interleave and wrap around the end of the array.
RingHoldsQueued ==
    /\ \A k \in Window : queue[k] \in Items /\ status[queue[k]] = "queued"
    /\ \A i \in Items : status[i] = "queued" => \E k \in Window : queue[k] = i
    /\ \A k, l \in Window : queue[k] = queue[l] => k = l

\* A count is the number of items enqueued on it and not complete: wait(count)
\* and hostWaitAll may take zero to mean that nothing is left.
CountIsOutstanding ==
    \A c \in Counts :
        count[c] = Cardinality({i \in Items : CountOf[i] = c /\ Outstanding(i)})

\* A signal is never set while its item has yet to run and complete: what
\* fence_s::tryWait relies on when it reads the result of the fence.
SignalMeansComplete ==
    \A i \in Items :
        SignalOf[i] # NoSignal /\ status[i] \in {"queued", "running", "ran"} =>
            ~signal[SignalOf[i]]

\* wait returns only after every item that was outstanding on its signal or
\* count when it was called has run and completed.
WaitOutlastsItems ==
    [][\A t \in Clients :
         goal[t] # NoGoal /\ goal'[t] = NoGoal =>
             \A i \in since[t] :
                \/ status[i] = "done"
                \/ status[i] = "signalled" /\ goal[t] \in Signals]_vars

Completing == {"body_count", "body_zero", "body_finished", "body_done"}

\* No lost wake-up for those who wait: a client asleep although what it waits
\* for has happened is about to be woken by the thread that made it happen
\* (threadFuncBody changes signal and count under wait_mutex and notifies
\* after).
WaiterIsWoken ==
    \A t \in Clients :
        pc[t] = "wait_lock" /\ Satisfied(goal[t]) =>
            /\ t \in finished =>
                  \E u \in Threads : pc[u] \in {"body_zero", "body_finished"}
            /\ t \in doneWork => \E u \in Threads : pc[u] \in Completing

Notifying == {"enq_notify", "range_count", "range_store", "full_lock"}

\* No stranded work: while the ring holds an item, some worker is awake or a
\* thread is on its way to wake one (enqueue and enqueue_range store the item
\* under the mutex and notify new_work after unlocking it).
WorkIsNoticed ==
    ~RingEmpty /\ stayAlive /\ Workers \subseteq newWork =>
        \E t \in Clients : pc[t] \in Notifying

\* The two mutexes are never waited for in a circle: no thread holds the queue
\* mutex and waits for the wait mutex while another holds the wait mutex and
\* waits for the queue mutex.  (enqueue on a full ring takes them in both
\* orders.)
NoLockCycle ==
    ~ \E t, u \in Clients :
        /\ pc[t] = "full_lock" /\ mutex = t
        /\ pc[u] = "full_relock" /\ waitMutex = u

\* Every call returns: enqueue and enqueue_range, a full ring included; each wait,
\* whose items are taken by a worker or by the waiting thread itself; and the
\* destructor, as no worker sleeps through the end.
CallsReturn ==
    \A t \in Clients :
        /\ todo[t] # << >> ~> pc[t] = "idle"
        /\ goal[t] # NoGoal ~> goal[t] = NoGoal
        /\ pc[t] = "dtor_notify" ~> pc[t] = "dead"

\* Work that was stored is run unless the pool is destroyed first.
WorkIsDone ==
    \A i \in Items : status[i] = "queued" ~> status[i] = "done" \/ ~stayAlive

-------------------------------------------------------------------------------
\* The inductive invariant behind the safety properties.

AwaitsSpace == {"full_lock", "full_wait", "full_relock"}
AwaitsStore == AwaitsSpace \cup {"enq_signal", "enq_lock", "range_store"}
InRange == {"range_lock", "range_count"}
InWait == {"wait_enter", "wait_loop", "wait_try", "wait_test", "wait_lock"}
InItem == {"run", "body_lock", "body_count", "body_zero"}
InBody == InItem \cup {"body_finished", "body_done"}
InGet == {"get_check", "get_lock", "exit"}

\* Workers and callers stay in their own code, with the locals that go with it.
ControlInv ==
    /\ \A t \in Workers : pc[t] \in InGet \cup InBody
    /\ \A t \in Clients :
          /\ pc[t] \notin InGet
          /\ pc[t] \in AwaitsStore \cup InRange <=> todo[t] # << >>
          /\ pc[t] \in InWait \cup InBody <=> goal[t] # NoGoal

\* An item that was taken belongs to one thread, until it completes.
WorkInv ==
    \A t \in Threads :
        /\ pc[t] \in InItem <=> work[t] # NoItem
        /\ pc[t] = "run" => status[work[t]] = "running"
        /\ pc[t] = "body_lock" => status[work[t]] = "ran"
        /\ pc[t] = "body_count" => status[work[t]] = "signalled"
        /\ pc[t] = "body_zero" => status[work[t]] = "done"
        /\ \A u \in Threads : work[t] = work[u] => t = u \/ work[t] = NoItem

\* An item that has yet to be stored belongs to one call; the first of a range
\* is counted, the others are not.
TodoInv ==
    \A t \in Clients : \A k \in 1..Len(todo[t]) :
        /\ status[todo[t][k]] =
              IF k = 1 /\ pc[t] \in AwaitsStore THEN "counted" ELSE "called"
        /\ \A u \in Clients : \A l \in 1..Len(todo[u]) :
              todo[t][k] = todo[u][l] => t = u /\ k = l

\* A signal serves one item at a time and is clear once its item may be stored.
SignalInv ==
    /\ \A i, j \in Items :
          /\ SignalOf[i] = SignalOf[j] /\ SignalOf[i] # NoSignal
          /\ status[i] \notin Settled /\ status[j] \notin Settled
          => i = j
    /\ \A t \in Clients :
          /\ pc[t] \in AwaitsSpace \cup {"enq_lock"}
          /\ SignalOf[Head(todo[t])] # NoSignal
          => ~signal[SignalOf[Head(todo[t])]]

\* What a wait has to outlast was enqueued on its goal, and only moves forward.
SinceInv ==
    \A t \in Clients : \A i \in since[t] :
        /\ goal[t] \in {SignalOf[i], CountOf[i]}
        /\ status[i] \in {"queued", "running", "ran", "signalled", "done"} \cup
                         (IF goal[t] \in Signals THEN {} ELSE {"counted"})

IInv ==
    /\ TypeOK
    /\ ControlInv
    /\ WorkInv
    /\ TodoInv
    /\ RingHoldsQueued
    /\ CountIsOutstanding
    /\ SignalMeansComplete
    /\ SignalInv
    /\ SinceInv

\* The invariant behind the wake-ups.  Only workers sleep on new_work, only those
\* who wait for a count on finished, only those who wait for a signal or for space
\* on done_work.
SleepInv ==
    /\ newWork \subseteq Workers
    /\ finished \subseteq {t \in Clients : pc[t] = "wait_lock" /\ goal[t] \in Counts}
    /\ doneWork \subseteq {t \in Clients : \/ pc[t] = "full_wait"
                                           \/ pc[t] = "wait_lock" /\ goal[t] \in Signals}

\* A count that is zero will be told to those who sleep on it: by the thread that
\* took the last one off, which is yet to test it, or by one that found a zero.
ZeroIsTold ==
    \A t \in finished : count[goal[t]] = 0 =>
        \E u \in Threads : \/ pc[u] = "body_finished"
                           \/ pc[u] = "body_zero" /\ CountOf[work[u]] = goal[t]

SignalIsTold ==
    \A t \in doneWork : pc[t] = "wait_lock" /\ signal[goal[t]] =>
        \E u \in Threads : pc[u] \in Completing

WakeInv == SleepInv /\ WorkIsNoticed /\ ZeroIsTold /\ SignalIsTold

-------------------------------------------------------------------------------
\* The pool implements WorkPool.

Occupied == (writeIndex + QueueMax - readIndex) % QueueMax

StageOf(i) ==
    CASE status[i] \in {"called", "counted"} -> "submitted"
      [] status[i] \in {"running", "ran", "signalled"} -> "running"
      [] OTHER -> status[i]

Pending == [k \in 1..Occupied |-> queue[(readIndex + k - 1) % QueueMax]]

Abstract == INSTANCE WorkPool WITH
    Capacity <- QueueMax - 1,
    pending <- Pending,
    stage <- [i \in Items |-> StageOf(i)],
    open <- stayAlive

\* The ring, its two mutexes and its notifications behave as the bounded FIFO
\* of WorkPool: items start in the order they were stored, each once, and none
\* starts after the destructor has cleared stayAlive.
ImplementsWorkPool == Abstract!Spec
===============================================================================
