------------------------------- MODULE HostQueue -------------------------------
(***************************************************************************)
(* The queue of the host target with its semaphores and fences: host       *)
(* queue.cpp, semaphore.cpp and fence.cpp of modules/mux/targets/host.     *)
(*                                                                         *)
(* A group is a command buffer, the name the code uses.  The thread pool   *)
(* is the bounded FIFO of WorkPool, which HostThreadPool is shown to       *)
(* implement; what stays visible of it here is that enqueue blocks on a    *)
(* full ring until some item completes, that wait helps, and the order in  *)
(* which a completed item changes its signal and its count.                *)
(*                                                                         *)
(* Every step under queue->mutex is taken by its owner.  The terminate     *)
(* paths are left out: each call starts from terminate = false, so no      *)
(* execution takes them.                                                   *)
(***************************************************************************)
EXTENDS Integers, Sequences, FiniteSets

CONSTANTS
    Workers,      \* the threads of the pool
    Clients,      \* the threads that call the mux entry points
    Groups,       \* the command buffers
    Semaphores,
    Fences,
    WaitsOf,      \* the wait_semaphores a group is dispatched with
    SignalsOf,    \* its signal_semaphores
    FenceOf,      \* its fence, NoFence when it is null
    Capacity,     \* how many groups the ring of the pool holds
    MaxTimes,     \* bound: how often a group is dispatched
    AllocFails,   \* whether the allocations of a dispatch may fail
    NoFence, NoGroup, NoThread

Threads == Workers \cup Clients

SemsIn(list) == {list[k] : k \in DOMAIN list}

ASSUME QueueAssumption ==
    /\ Workers # {} /\ Workers \cap Clients = {} /\ NoThread \notin Threads
    /\ NoFence \notin Fences /\ NoGroup \notin Groups
    /\ WaitsOf \in [Groups -> Seq(Semaphores)]
    /\ SignalsOf \in [Groups -> Seq(Semaphores)]
    /\ FenceOf \in [Groups -> Fences \cup {NoFence}]
    /\ Capacity \in Nat \ {0} /\ MaxTimes \in Nat /\ AllocFails \in BOOLEAN

VARIABLES
    mutex,             \* the owner of queue->mutex, or NoThread
    waitCount,         \* signalInfos: the wait_count of a group, 0 if absent
    signalled, waitingGroups,      \* the members of each semaphore
    fenceSignal, fenceResult,      \* thread_pool_signal and result of a fence
    signalSemaphores,  \* of each command buffer
    runningGroups,
    pending,           \* the ring of the pool
    asleep,            \* the threads in enqueue waiting for an item to complete
    pc,
    job,               \* the group a thread is running
    sems,              \* the semaphores a thread has yet to signal
    calls,             \* the groups it has yet to call signalCompleted for
    enq,               \* the group it is enqueueing
    goal,              \* the fence a client waits for
    got,               \* the result of its last muxTryWait
    stage,             \* history: how far the dispatch of a group has come
    times,             \* history: how often a group was dispatched
    since              \* history: the groups a muxWaitAll has to outlast

semVars == <<signalled, waitingGroups>>
fenceVars == <<fenceSignal, fenceResult>>
poolVars == <<runningGroups, pending, asleep>>
waitVars == <<goal, got, since>>
loopVars == <<sems, calls, enq>>
vars == <<mutex, waitCount, semVars, fenceVars, signalSemaphores, poolVars,
          waitVars, loopVars, pc, job, stage, times>>

-------------------------------------------------------------------------------
\* Helpers

Goto(t, label) == pc' = [pc EXCEPT ![t] = label]

Idle(g) == stage[g] \in {"idle", "complete"}

\* The groups that have been dispatched and will signal s.
Signallers(s) == {g \in Groups : ~Idle(g) /\ s \in SemsIn(SignalsOf[g])}

\* What muxDispatch asks of its caller: the group and its fence are free, and the
\* semaphores it signals are fresh and its own.  A group may be dispatched before
\* the one it waits for.
MayDispatch(g) ==
    /\ Idle(g)
    /\ times[g] < MaxTimes
    /\ FenceOf[g] # NoFence =>
          /\ \A h \in Groups : FenceOf[h] = FenceOf[g] => Idle(h)
          /\ \A c \in Clients : goal[c] # FenceOf[g]
    /\ \A s \in SemsIn(SignalsOf[g]) :
          ~signalled[s] /\ Signallers(s) = {}

\* The steps of a caller of enqueue: the count and the signal of the fence are
\* changed before the pool is asked for space.
EnqueueGroup(t, g) ==
    /\ enq' = [enq EXCEPT ![t] = g]
    /\ Goto(t, "enq_count")

-------------------------------------------------------------------------------
\* hostDispatch

\* addGroup tracks a group with waits; the semaphores not yet signalled learn
\* of the group, those already signalled call signalCompleted at once.  The
\* results of addGroup and of addWait are dropped: an allocation that failed in
\* either changes nothing else.  When the first allocation, of the semaphores to
\* signal, fails the call returns with nothing changed, which is a stutter.
Dispatch(t, g) ==
    LET waits == WaitsOf[g]
        early == {k \in DOMAIN waits : signalled[waits[k]]}
    IN
    \E lost \in IF AllocFails THEN SUBSET (DOMAIN waits \ early) ELSE {{}} :
    LET late(s) == {k \in DOMAIN waits \ (early \cup lost) : waits[k] = s} IN
    /\ pc[t] = "idle"
    /\ mutex = NoThread
    /\ MayDispatch(g)
    /\ mutex' = t
    /\ times' = [times EXCEPT ![g] = @ + 1]
    /\ signalSemaphores' = [signalSemaphores EXCEPT ![g] = @ \o SignalsOf[g]]
    /\ fenceSignal' = [f \in Fences |-> f # FenceOf[g] /\ fenceSignal[f]]
    /\ fenceResult' = [f \in Fences |-> IF f = FenceOf[g] THEN "not_ready"
                                        ELSE fenceResult[f]]
    /\ stage' = [stage EXCEPT ![g] = "dispatched"]
    /\ waitingGroups' = [s \in Semaphores |->
          waitingGroups[s] \o [k \in 1..Cardinality(late(s)) |-> g]]
    /\ calls' = [calls EXCEPT ![t] = [k \in 1..Cardinality(early) |-> g]]
    /\ IF waits = << >>
       THEN EnqueueGroup(t, g) /\ UNCHANGED waitCount
       ELSE /\ \/ waitCount' = [waitCount EXCEPT ![g] = Len(waits)]
               \/ AllocFails /\ UNCHANGED waitCount
            /\ Goto(t, "notify")
            /\ UNCHANGED enq
    /\ UNCHANGED <<signalled, poolVars, waitVars, job, sems>>

\* Mutant: the tracking info outlives the last signal.
OneWaitLessKeeps(g) ==
    waitCount' = [waitCount EXCEPT ![g] = IF @ = 1 THEN 1 ELSE @ - 1]

OneWaitLess(g) == waitCount' = [waitCount EXCEPT ![g] = @ - 1]

\* Mutant: off by one, the last two signals start the group.
LastWaitEager(g) == waitCount[g] <= 2

LastWait(g) == waitCount[g] = 1

\* signalCompleted: a tracked group has one wait less; the last one enqueues
\* it and wipes its tracking info.
SignalCompleted(t) ==
    LET g == Head(calls[t]) IN
    /\ calls[t] # << >>
    /\ calls' = [calls EXCEPT ![t] = Tail(@)]
    /\ IF waitCount[g] = 0
       THEN UNCHANGED <<waitCount, pc, enq>>
       ELSE /\ OneWaitLess(g)
            /\ IF LastWait(g)
               THEN EnqueueGroup(t, g)
               ELSE UNCHANGED <<pc, enq>>

\* The loop of hostDispatch over addWait, and of semaphore_s::signal.
NotifyGroups(t) ==
    /\ pc[t] = "notify"
    /\ \/ SignalCompleted(t) /\ UNCHANGED mutex
       \/ /\ calls[t] = << >>
          /\ IF job[t] = NoGroup
             THEN mutex' = NoThread /\ Goto(t, "idle")
             ELSE UNCHANGED mutex /\ Goto(t, "signal")
          /\ UNCHANGED <<waitCount, calls, enq>>
    /\ UNCHANGED <<semVars, fenceVars, signalSemaphores, poolVars, waitVars,
                   job, sems, stage, times>>

\* thread_pool_s::enqueue up to its critical section.
EnqueueCount(t) ==
    /\ pc[t] = "enq_count"
    /\ runningGroups' = runningGroups + 1
    /\ fenceSignal' = [f \in Fences |-> f # FenceOf[enq[t]] /\ fenceSignal[f]]
    /\ Goto(t, "enq_store")
    /\ UNCHANGED <<mutex, waitCount, semVars, fenceResult, signalSemaphores,
                   pending, asleep, waitVars, loopVars, job, stage, times>>

\* Store the group, or wait for an item to complete with the queue's mutex held.
EnqueueStore(t) ==
    /\ pc[t] = "enq_store"
    /\ t \notin asleep
    /\ IF Len(pending) < Capacity
       THEN /\ pending' = Append(pending, enq[t])
            /\ stage' = [stage EXCEPT ![enq[t]] = "queued"]
            /\ enq' = [enq EXCEPT ![t] = NoGroup]
            /\ Goto(t, "notify")
            /\ UNCHANGED asleep
       ELSE /\ asleep' = asleep \cup {t}
            /\ UNCHANGED <<pending, stage, enq, pc>>
    /\ UNCHANGED <<mutex, waitCount, semVars, fenceVars, signalSemaphores,
                   runningGroups, waitVars, job, sems, calls, times>>

-------------------------------------------------------------------------------
\* threadPoolProcessCommands, threadPoolCleanup and the end of threadFuncBody

\* getWork of a worker, tryGetWork of a client that helps while it waits.
Take(t) ==
    /\ \/ t \in Workers /\ pc[t] = "get"
       \/ pc[t] = "help" /\ ~fenceSignal[goal[t]]
    /\ pending # << >>
    /\ job' = [job EXCEPT ![t] = Head(pending)]
    /\ pending' = Tail(pending)
    /\ stage' = [stage EXCEPT ![Head(pending)] = "running"]
    /\ Goto(t, "process")
    /\ UNCHANGED <<mutex, waitCount, semVars, fenceVars, signalSemaphores,
                   runningGroups, asleep, waitVars, loopVars, times>>

\* The commands of the group, opaque here.
ProcessCommands(t) ==
    /\ pc[t] = "process"
    /\ stage' = [stage EXCEPT ![job[t]] = "executed"]
    /\ Goto(t, "result")
    /\ UNCHANGED <<mutex, waitCount, semVars, fenceVars, signalSemaphores,
                   poolVars, waitVars, loopVars, job, times>>

\* Mutant: the result is left to the user_function.
ResultOfNothing(f, g) == fenceResult[f]

ResultOf(f, g) == IF f = FenceOf[g] THEN "success" ELSE fenceResult[f]

\* threadPoolCleanup sets the result of the fence, if there is one.
SetResult(t) ==
    /\ pc[t] = "result"
    /\ fenceResult' = [f \in Fences |-> ResultOf(f, job[t])]
    /\ Goto(t, "callback")
    /\ UNCHANGED <<mutex, waitCount, semVars, fenceSignal, signalSemaphores,
                   poolVars, waitVars, loopVars, job, stage, times>>

\* user_function, before the queue's mutex is taken.
UserFunction(t) ==
    /\ pc[t] = "callback"
    /\ stage' = [stage EXCEPT ![job[t]] = "called"]
    /\ Goto(t, "cleanup")
    /\ UNCHANGED <<mutex, waitCount, semVars, fenceVars, signalSemaphores,
                   poolVars, waitVars, loopVars, job, times>>

CleanupLock(t) ==
    /\ pc[t] = "cleanup"
    /\ mutex = NoThread
    /\ mutex' = t
    /\ sems' = [sems EXCEPT ![t] = signalSemaphores[job[t]]]
    /\ Goto(t, "signal")
    /\ UNCHANGED <<waitCount, semVars, fenceVars, signalSemaphores, poolVars,
                   waitVars, calls, enq, job, stage, times>>

\* Mutant: the semaphore wakes its groups without remembering the signal.
SetSignalledForgets(s) == UNCHANGED signalled

SetSignalled(s) == signalled' = [signalled EXCEPT ![s] = TRUE]

\* Mutant: the loop over the semaphores does not advance.
NextSemaphoreRepeats(t) == UNCHANGED sems

NextSemaphore(t) == sems' = [sems EXCEPT ![t] = Tail(@)]

\* semaphore_s::signal up to its loop.
SignalSemaphore(t) ==
    LET s == Head(sems[t]) IN
    /\ sems[t] # << >>
    /\ SetSignalled(s)
    /\ NextSemaphore(t)
    /\ calls' = [calls EXCEPT ![t] = waitingGroups[s]]
    /\ Goto(t, "notify")
    /\ UNCHANGED <<mutex, signalSemaphores, stage>>

\* The loop over the signal semaphores, their removal and the unlock.
CleanupSignal(t) ==
    /\ pc[t] = "signal"
    /\ \/ SignalSemaphore(t)
       \/ /\ sems[t] = << >>
          /\ signalSemaphores' = [signalSemaphores EXCEPT ![job[t]] = << >>]
          /\ mutex' = NoThread
          /\ stage' = [stage EXCEPT ![job[t]] = "cleaned"]
          /\ Goto(t, "set_signal")
          /\ UNCHANGED <<signalled, sems, calls>>
    /\ UNCHANGED <<waitCount, waitingGroups, fenceVars, poolVars, waitVars, enq,
                   job, times>>

\* threadFuncBody: the signal of the fence, if there is one, ...
SetSignal(t) ==
    /\ pc[t] = "set_signal"
    /\ fenceSignal' = [f \in Fences |-> f = FenceOf[job[t]] \/ fenceSignal[f]]
    /\ stage' = [stage EXCEPT ![job[t]] = "complete"]
    /\ Goto(t, "decrement")
    /\ UNCHANGED <<mutex, waitCount, semVars, fenceResult, signalSemaphores,
                   poolVars, waitVars, loopVars, job, times>>

\* ... then the count, and those waiting for space or for a signal wake up.
Decrement(t) ==
    /\ pc[t] = "decrement"
    /\ runningGroups' = runningGroups - 1
    /\ asleep' = {}
    /\ job' = [job EXCEPT ![t] = NoGroup]
    /\ Goto(t, IF t \in Workers THEN "get" ELSE "help")
    /\ UNCHANGED <<mutex, waitCount, semVars, fenceVars, signalSemaphores,
                   pending, waitVars, loopVars, stage, times>>

-------------------------------------------------------------------------------
\* hostTryWait, hostWaitAll, hostResetFence and hostResetSemaphore

\* The fence passed to muxTryWait was dispatched with a group.
TryWait(t, f, label) ==
    /\ pc[t] = "idle"
    /\ fenceSignal[f] \/ \E g \in Groups : FenceOf[g] = f /\ ~Idle(g)
    /\ goal' = [goal EXCEPT ![t] = f]
    /\ Goto(t, label)
    /\ UNCHANGED <<mutex, waitCount, semVars, fenceVars, signalSemaphores,
                   poolVars, got, since, loopVars, job, stage, times>>

\* The helping loop of thread_pool_s::wait ends on the signal or an empty ring.
HelpEnds(t) ==
    /\ pc[t] = "help"
    /\ fenceSignal[goal[t]] \/ pending = << >>
    /\ Goto(t, "blocked")
    /\ UNCHANGED <<mutex, waitCount, semVars, fenceVars, signalSemaphores,
                   poolVars, waitVars, loopVars, job, stage, times>>

\* Mutant: the wait starts over instead of returning.
AfterWaitAgain == "help"

AfterWait == "read_result"

\* done_work.wait under wait_mutex returns when the signal is set.
ReadSignal(t) ==
    /\ pc[t] = "blocked"
    /\ fenceSignal[goal[t]]
    /\ Goto(t, AfterWait)
    /\ UNCHANGED <<mutex, waitCount, semVars, fenceVars, signalSemaphores,
                   poolVars, waitVars, loopVars, job, stage, times>>

\* A finite timeout polls; it runs out, or the signal is seen.
Poll(t) ==
    /\ pc[t] = "poll"
    /\ \/ /\ fenceSignal[goal[t]]
          /\ Goto(t, "read_result")
          /\ UNCHANGED <<goal, got>>
       \/ /\ ~fenceSignal[goal[t]]
          /\ got' = [got EXCEPT ![t] = "not_ready"]
          /\ goal' = [goal EXCEPT ![t] = NoFence]
          /\ Goto(t, "idle")
    /\ UNCHANGED <<mutex, waitCount, semVars, fenceVars, signalSemaphores,
                   poolVars, since, loopVars, job, stage, times>>

ReadResult(t) ==
    /\ pc[t] = "read_result"
    /\ got' = [got EXCEPT ![t] = fenceResult[goal[t]]]
    /\ goal' = [goal EXCEPT ![t] = NoFence]
    /\ Goto(t, "idle")
    /\ UNCHANGED <<mutex, waitCount, semVars, fenceVars, signalSemaphores,
                   poolVars, since, loopVars, job, stage, times>>

\* The groups of D that do not wait, through any chain of groups, for one outside
\* of D: the least set with the groups whose waits are signalled or will be by it.
Supplied(D) ==
    LET Released(S) == {g \in D : \A s \in SemsIn(WaitsOf[g]) :
                                     signalled[s] \/ Signallers(s) \cap S # {}}
    IN {h \in D : \A S \in SUBSET D : Released(S) \subseteq S => h \in S}

\* muxDispatch has returned.
Dispatched(g) ==
    /\ ~Idle(g)
    /\ \A c \in Clients : job[c] = NoGroup =>
          enq[c] # g /\ g \notin {calls[c][k] : k \in DOMAIN calls[c]}

\* The dispatches, with their number, that do not wait for one yet to be made.
Accepted == {<<g, times[g]>> : g \in Supplied({h \in Groups : Dispatched(h)})}

WaitAll(t) ==
    /\ pc[t] = "idle"
    /\ since' = [since EXCEPT ![t] = Accepted]
    /\ Goto(t, "wait_all")
    /\ UNCHANGED <<mutex, waitCount, semVars, fenceVars, signalSemaphores,
                   poolVars, goal, got, loopVars, job, stage, times>>

WaitAllReturn(t) ==
    /\ pc[t] = "wait_all"
    /\ runningGroups = 0
    /\ since' = [since EXCEPT ![t] = {}]
    /\ Goto(t, "idle")
    /\ UNCHANGED <<mutex, waitCount, semVars, fenceVars, signalSemaphores,
                   poolVars, goal, got, loopVars, job, stage, times>>

\* A fence is reset when no group and no waiter uses it.
ResetFence(t, f) ==
    /\ pc[t] = "idle"
    /\ \A g \in Groups : FenceOf[g] = f => Idle(g)
    /\ \A c \in Clients : goal[c] # f
    /\ fenceSignal' = [fenceSignal EXCEPT ![f] = FALSE]
    /\ fenceResult' = [fenceResult EXCEPT ![f] = "not_ready"]
    /\ UNCHANGED <<mutex, waitCount, semVars, signalSemaphores, poolVars,
                   waitVars, loopVars, pc, job, stage, times>>

\* A semaphore is reset when no group that signals it or waits for it executes.
ResetSemaphore(t, s) ==
    /\ pc[t] = "idle"
    /\ \A g \in Groups :
          s \in SemsIn(SignalsOf[g]) \cup SemsIn(WaitsOf[g]) => Idle(g)
    /\ signalled' = [signalled EXCEPT ![s] = FALSE]
    /\ waitingGroups' = [waitingGroups EXCEPT ![s] = << >>]
    /\ UNCHANGED <<mutex, waitCount, fenceVars, signalSemaphores, poolVars,
                   waitVars, loopVars, pc, job, stage, times>>

\* done_work.wait in enqueue has no predicate: it may wake for nothing.
SpuriousWake(t) ==
    /\ t \in asleep
    /\ asleep' = asleep \ {t}
    /\ UNCHANGED <<mutex, waitCount, semVars, fenceVars, signalSemaphores,
                   runningGroups, pending, waitVars, loopVars, pc, job, stage,
                   times>>
-------------------------------------------------------------------------------
Init ==
    /\ mutex = NoThread
    /\ waitCount = [g \in Groups |-> 0]
    /\ signalled = [s \in Semaphores |-> FALSE]
    /\ waitingGroups = [s \in Semaphores |-> << >>]
    /\ fenceSignal = [f \in Fences |-> FALSE]
    /\ fenceResult = [f \in Fences |-> "internal"]
    /\ signalSemaphores = [g \in Groups |-> << >>]
    /\ runningGroups = 0
    /\ pending = << >>
    /\ asleep = {}
    /\ pc = [t \in Threads |-> IF t \in Workers THEN "get" ELSE "idle"]
    /\ job = [t \in Threads |-> NoGroup]
    /\ sems = [t \in Threads |-> << >>]
    /\ calls = [t \in Threads |-> << >>]
    /\ enq = [t \in Threads |-> NoGroup]
    /\ goal = [t \in Clients |-> NoFence]
    /\ got = [t \in Clients |-> "none"]
    /\ stage = [g \in Groups |-> "idle"]
    /\ times = [g \in Groups |-> 0]
    /\ since = [t \in Clients |-> {}]

Call(t) ==
    \/ \E g \in Groups : Dispatch(t, g)
    \/ \E f \in Fences : TryWait(t, f, "help") \/ TryWait(t, f, "poll")
    \/ WaitAll(t)
    \/ \E f \in Fences : ResetFence(t, f)
    \/ \E s \in Semaphores : ResetSemaphore(t, s)

\* With queue->mutex held, in hostDispatch and in threadPoolCleanup.
LockedStep(t) == NotifyGroups(t) \/ EnqueueCount(t) \/ EnqueueStore(t)

RunStep(t) ==
    \/ Take(t) \/ ProcessCommands(t) \/ SetResult(t) \/ UserFunction(t)
    \/ CleanupLock(t) \/ CleanupSignal(t) \/ SetSignal(t) \/ Decrement(t)

WaitStep(t) ==
    HelpEnds(t) \/ ReadSignal(t) \/ Poll(t) \/ ReadResult(t) \/ WaitAllReturn(t)

Next ==
    \/ \E t \in Clients : Call(t) \/ WaitStep(t)
    \/ \E t \in Threads : LockedStep(t) \/ RunStep(t) \/ SpuriousWake(t)

Spec == Init /\ [][Next]_vars

-------------------------------------------------------------------------------
\* Properties

\* The pool never gets the same dispatch twice: the ring and the running
\* threads hold each dispatched group once, also when it is dispatched again
\* while the thread that completed it has yet to decrement the count.
RunsOnce ==
    /\ \A k, l \in DOMAIN pending : pending[k] = pending[l] => k = l
    /\ \A k \in DOMAIN pending : stage[pending[k]] = "queued"
    /\ \A t, u \in {v \in Threads : job[v] # NoGroup /\ pc[v] # "decrement"} :
          job[t] = job[u] => t = u

\* When muxTryWait says that a fence is signalled, it returns the result of the
\* dispatch and that dispatch is complete: what the asserts of fence_s::tryWait
\* rely on, though the signal and the result are read without a common lock.
TryWaitIsFinal ==
    [][\A t \in Clients : pc[t] = "read_result" /\ pc'[t] = "idle" =>
         /\ got'[t] = "success"
         /\ \A g \in Groups : FenceOf[g] = goal[t] => Idle(g)]_vars

-------------------------------------------------------------------------------
\* The inductive invariant

Labels == {"get", "idle", "notify", "enq_count", "enq_store", "process", "result",
           "callback", "cleanup", "signal", "set_signal", "decrement", "help",
           "blocked", "poll", "read_result", "wait_all"}

TypeOK ==
    /\ mutex \in Threads \cup {NoThread}
    /\ waitCount \in [Groups -> Nat]
    /\ signalled \in [Semaphores -> BOOLEAN]
    /\ waitingGroups \in [Semaphores -> Seq(Groups)]
    /\ fenceSignal \in [Fences -> BOOLEAN]
    /\ fenceResult \in [Fences -> {"internal", "not_ready", "success"}]
    /\ signalSemaphores \in [Groups -> Seq(Semaphores)]
    /\ runningGroups \in Int
    /\ pending \in Seq(Groups)
    /\ asleep \subseteq Threads
    /\ pc \in [Threads -> Labels]
    /\ job \in [Threads -> Groups \cup {NoGroup}]
    /\ enq \in [Threads -> Groups \cup {NoGroup}]
    /\ sems \in [Threads -> Seq(Semaphores)]
    /\ calls \in [Threads -> Seq(Groups)]
    /\ goal \in [Clients -> Fences \cup {NoFence}]
    /\ got \in [Clients -> {"none", "internal", "not_ready", "success"}]
    /\ stage \in [Groups -> {"idle", "dispatched", "queued", "running", "executed",
                             "called", "cleaned", "complete"}]
    /\ times \in [Groups -> Nat]

\* Where a thread holds the mutex of the queue, and where it has a group.
Locked == {"notify", "enq_count", "enq_store", "signal"}
Running == {"process", "result", "callback", "cleanup", "signal", "set_signal",
            "decrement"}

\* What the place of a thread says of its variables.
Control(t) ==
    /\ pc[t] \in Locked <=> mutex = t
    /\ enq[t] # NoGroup <=> pc[t] \in {"enq_count", "enq_store"}
    /\ calls[t] # << >> => pc[t] \in {"notify", "enq_count", "enq_store"}
    /\ pc[t] \in Running => job[t] # NoGroup
    /\ job[t] # NoGroup => pc[t] \in Running \cup Locked
    /\ t \in Workers =>
          /\ pc[t] \in {"get"} \cup Running \cup Locked
          /\ pc[t] \in Locked => job[t] # NoGroup
    /\ t \in Clients =>
          /\ pc[t] # "get"
          /\ pc[t] \in {"help", "blocked", "poll", "read_result"} \/ job[t] # NoGroup =>
                goal[t] # NoFence

ControlInv == \A t \in Threads : Control(t)

\* The place of the thread that runs a group tells how far the group is.
Placed(t) ==
    job[t] # NoGroup =>
       /\ pc[t] = "process" => stage[job[t]] = "running"
       /\ pc[t] \in {"result", "callback"} => stage[job[t]] = "executed"
       /\ pc[t] \in {"cleanup"} \cup Locked => stage[job[t]] = "called"
       /\ pc[t] = "set_signal" => stage[job[t]] = "cleaned"

\* A group is tracked until it is enqueued, and enqueued once.
StageInv ==
    /\ \A g \in Groups : waitCount[g] # 0 => stage[g] = "dispatched"
    /\ \A t \in Threads : enq[t] # NoGroup =>
          stage[enq[t]] = "dispatched" /\ waitCount[enq[t]] = 0
    /\ \A t \in Threads : Placed(t)

\* A fence serves one dispatch at a time.  Its result is there before the dispatch
\* is called, its signal when no dispatch uses it, and as long as it is waited for.
FenceInv ==
    /\ \A f \in Fences : fenceSignal[f] =>
          /\ fenceResult[f] = "success"
          /\ \A g \in Groups : FenceOf[g] = f => Idle(g)
    /\ \A g, h \in Groups :
          FenceOf[g] = FenceOf[h] /\ FenceOf[g] # NoFence /\ ~Idle(g) /\ ~Idle(h) => g = h
    /\ \A g \in Groups : FenceOf[g] # NoFence /\ stage[g] \in {"called", "cleaned"} =>
          fenceResult[FenceOf[g]] = "success"
    /\ \A t \in Threads : pc[t] = "callback" /\ FenceOf[job[t]] # NoFence =>
          fenceResult[FenceOf[job[t]]] = "success"
    /\ \A t \in Clients : pc[t] = "read_result" => fenceSignal[goal[t]]

BaseInv == TypeOK /\ ControlInv /\ RunsOnce /\ StageInv /\ FenceInv
================================================================================
