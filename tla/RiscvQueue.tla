------------------------------- MODULE RiscvQueue -------------------------------
(***************************************************************************)
(* The queue of the RISC-V target, with the fence and semaphore of mux::hal *)
(* it uses: riscv/source/queue.cpp, mux/source/hal.                        *)
(*                                                                         *)
(* One thread runs the dispatches.  Nothing waits while it holds the       *)
(* queue's mutex, so the critical sections are steps, except the one that  *)
(* signals: a fence is seen without that mutex, and before the queue       *)
(* thread unlocks.  The mutex of a command buffer is held while it         *)
(* executes and while it signals.  A pass of the queue thread that finds   *)
(* no dispatch ready is a stutter.                                         *)
(***************************************************************************)
EXTENDS Integers, Sequences, FiniteSets

CONSTANTS
    Clients,      \* the threads that call the mux entry points
    Worker,       \* the queue thread, which may dispatch in a user_function
    Groups,       \* the command buffers
    Semaphores, Fences,
    WaitsOf, SignalsOf, FenceOf,   \* what a command buffer is dispatched with
    MaxTimes,     \* bound: how often it is
    NoFence, NoGroup

ASSUME RiscvAssumption ==
    /\ Worker \notin Clients /\ NoGroup \notin Groups /\ NoFence \notin Fences
    /\ WaitsOf \in [Groups -> SUBSET Semaphores]
    /\ SignalsOf \in [Groups -> SUBSET Semaphores]
    /\ FenceOf \in [Groups -> Fences \cup {NoFence}]
    /\ MaxTimes \in Nat

VARIABLES
    pending, running, terminate,    \* the members of queue_s
    signalled, terminated,          \* the semaphores with each bit of status set
    completed, result,              \* the members of each fence
    worker, job, outcome,           \* the queue thread, its dispatch and result
    pc, goal, got,                  \* each client, its fence, what tryWait returned
    stage, times, since,            \* history: of each dispatch, of muxWaitAll
    failed                          \* history: the dispatches that failed

semVars == <<signalled, terminated>>
fenceVars == <<completed, result>>
clientVars == <<goal, got, since>>
vars == <<pending, running, terminate, semVars, fenceVars, worker, job, outcome,
          pc, clientVars, stage, times, failed>>

Init ==
    /\ pending = << >> /\ running = FALSE /\ terminate = FALSE
    /\ signalled = {} /\ terminated = {}
    /\ completed = [f \in Fences |-> FALSE]
    /\ result = [f \in Fences |-> "not_ready"]
    /\ worker = "wait" /\ job = NoGroup /\ outcome = "failure"
    /\ pc = [c \in Clients |-> "idle"]
    /\ goal = [c \in Clients |-> NoFence]
    /\ got = [c \in Clients |-> "none"]
    /\ since = [c \in Clients |-> {}]
    /\ stage = [g \in Groups |-> "idle"]
    /\ times = [g \in Groups |-> 0]
    /\ failed = {}

-------------------------------------------------------------------------------
Idle(g) == stage[g] \in {"idle", "complete"}

Signallers(s) == {g \in Groups : ~Idle(g) /\ s \in SignalsOf[g]}

\* The queue thread holds both mutexes when it signals, that of the command
\* buffer also when it executes.
QueueLocked == worker = "unlock"
Uses(g) == job = g /\ worker \in {"execute", "unlock", "unlock_buffer"}

\* condition_variable.notify_all, for the queue thread and for muxWaitAll.
WakeWorker == worker' = IF worker = "asleep" THEN "wait" ELSE worker
WakeClients ==
    pc' = [c \in Clients |-> IF pc[c] = "wait_all_asleep" THEN "wait_all" ELSE pc[c]]

\* What muxDispatch asks of its caller.  A dispatch may be made before the one
\* it waits for.
MayDispatch(g) ==
    /\ Idle(g) /\ times[g] < MaxTimes
    /\ FenceOf[g] # NoFence =>
          /\ \A h \in Groups : FenceOf[h] = FenceOf[g] => Idle(h)
          /\ \A c \in Clients : goal[c] # FenceOf[g]
    /\ \A s \in SignalsOf[g] : s \notin signalled /\ Signallers(s) = {}

MayCall(t) == IF t = Worker THEN worker = "callback" ELSE pc[t] = "idle"

\* fence::reset
ResetOf(S) ==
    /\ completed' = [f \in Fences |-> f \notin S /\ completed[f]]
    /\ result' = [f \in Fences |-> IF f \in S THEN "not_ready" ELSE result[f]]

\* Mutant: the queue thread is not notified.
DispatchSilently(t, g) ==
    /\ MayCall(t) /\ MayDispatch(g) /\ ~terminate
    /\ ~QueueLocked /\ ~Uses(g)
    /\ ResetOf({FenceOf[g]})
    /\ pending' = Append(pending, g)
    /\ stage' = [stage EXCEPT ![g] = "pending"]
    /\ times' = [times EXCEPT ![g] = @ + 1]
    /\ failed' = failed \ {g}
    /\ UNCHANGED <<running, terminate, semVars, worker, job, outcome, pc,
                   clientVars>>

\* queue_s::dispatch; when an allocation fails the fence has been reset.
Dispatch(t, g) ==
    /\ MayCall(t) /\ MayDispatch(g) /\ ~terminate
    /\ ~QueueLocked /\ ~Uses(g)
    /\ ResetOf({FenceOf[g]})
    /\ \/ /\ pending' = Append(pending, g)
          /\ stage' = [stage EXCEPT ![g] = "pending"]
          /\ times' = [times EXCEPT ![g] = @ + 1]
          /\ failed' = failed \ {g}
          /\ WakeWorker
       \/ UNCHANGED <<pending, stage, times, failed, worker>>
    /\ UNCHANGED <<running, terminate, semVars, job, outcome, pc, clientVars>>

-------------------------------------------------------------------------------
\* queue_s::run

IsWaiting(g) == ~(WaitsOf[g] \subseteq signalled)

\* Mutant: the dispatch at the front is taken, ready or not.
FindFront == IF pending = << >> THEN {} ELSE {1}

\* find_if: the first dispatch which has no unsignalled wait semaphores.
Find ==
    {k \in DOMAIN pending : /\ ~IsWaiting(pending[k])
                            /\ \A l \in 1..(k - 1) : IsWaiting(pending[l])}

\* Wait for work or termination, under the lock; take the first ready dispatch.
Fetch ==
    /\ worker = "wait"
    /\ \/ /\ terminate
          /\ worker' = "exited"
          /\ UNCHANGED <<pending, running, job, stage>>
       \/ /\ ~terminate /\ pending = << >>
          /\ worker' = "asleep"
          /\ UNCHANGED <<pending, running, job, stage>>
       \/ /\ ~terminate
          /\ \E k \in Find :
                /\ job' = pending[k]
                /\ stage' = [stage EXCEPT ![pending[k]] = "running"]
                /\ pending' = [i \in 1..(Len(pending) - 1) |->
                                  pending[IF i < k THEN i ELSE i + 1]]
          /\ running' = TRUE
          /\ worker' = "lock"
    /\ UNCHANGED <<terminate, semVars, fenceVars, outcome, pc, clientVars, times,
                   failed>>

\* The command buffer's mutex is taken; a terminated dispatch is not executed.
Begin ==
    /\ worker = "lock"
    /\ IF WaitsOf[job] \cap terminated = {}
       THEN worker' = "execute" /\ UNCHANGED <<outcome, failed>>
       ELSE /\ outcome' = "failure"
            /\ failed' = failed \cup {job}
            /\ worker' = "callback"
    /\ UNCHANGED <<pending, running, terminate, semVars, fenceVars, job, pc,
                   clientVars, stage, times>>

\* command_buffer_s::execute: its first error ends it.
Execute ==
    /\ worker = "execute"
    /\ \/ outcome' = "success" /\ UNCHANGED failed
       \/ outcome' = "failure" /\ failed' = failed \cup {job}
    /\ worker' = "callback"
    /\ UNCHANGED <<pending, running, terminate, semVars, fenceVars, job, pc,
                   clientVars, stage, times>>

\* notify_user returns; Dispatch may have been called in it.
NotifyUser ==
    /\ worker = "callback"
    /\ stage' = [stage EXCEPT ![job] = "called"]
    /\ worker' = "signal"
    /\ UNCHANGED <<pending, running, terminate, semVars, fenceVars, job, outcome,
                   pc, clientVars, times, failed>>

\* Mutant: a failure is signalled like a success.
TerminatedKept == terminated' = terminated

\* dispatch_s::terminate, on failure.
Terminated ==
    terminated' = IF outcome = "failure" THEN terminated \cup SignalsOf[job]
                  ELSE terminated

\* With both mutexes: the semaphores, then the fence.
Signal ==
    /\ worker = "signal"
    /\ Terminated
    /\ signalled' = signalled \cup SignalsOf[job]
    /\ completed' = [f \in Fences |-> f = FenceOf[job] \/ completed[f]]
    /\ result' = [f \in Fences |-> IF f = FenceOf[job] THEN outcome ELSE result[f]]
    /\ worker' = "unlock"
    /\ UNCHANGED <<pending, running, terminate, job, outcome, pc, clientVars,
                   stage, times, failed>>

\* Mutant: the waiters are told before the command buffer is unlocked.
UnlockQueueTells ==
    /\ worker = "unlock"
    /\ worker' = "unlock_buffer"
    /\ running' = FALSE
    /\ WakeClients
    /\ UNCHANGED <<pending, terminate, semVars, fenceVars, job, outcome, clientVars,
                   stage, times, failed>>

\* The guards are destroyed in reverse: the queue's mutex is released first.
UnlockQueue ==
    /\ worker = "unlock"
    /\ worker' = "unlock_buffer"
    /\ UNCHANGED <<pending, running, terminate, semVars, fenceVars, job, outcome,
                   pc, clientVars, stage, times, failed>>

UnlockBuffer ==
    /\ worker = "unlock_buffer"
    /\ stage' = [stage EXCEPT ![job] = "complete"]
    /\ worker' = "finish"
    /\ UNCHANGED <<pending, running, terminate, semVars, fenceVars, job, outcome,
                   pc, clientVars, times, failed>>

\* Mutant: the clients in muxWaitAll are not notified.
FinishSilently ==
    /\ worker = "finish"
    /\ running' = FALSE
    /\ worker' = "wait" /\ job' = NoGroup
    /\ UNCHANGED <<pending, terminate, semVars, fenceVars, outcome, pc, clientVars,
                   stage, times, failed>>

\* running is cleared, and the waiters are told, without the buffer's mutex.
Finish ==
    /\ worker = "finish"
    /\ running' = FALSE
    /\ WakeClients
    /\ worker' = "wait" /\ job' = NoGroup
    /\ UNCHANGED <<pending, terminate, semVars, fenceVars, outcome, clientVars,
                   stage, times, failed>>

-------------------------------------------------------------------------------
\* riscvTryWait, riscvWaitAll, the resets and the destructor

TryWait(c, f) ==
    /\ pc[c] = "idle" /\ ~terminate
    /\ completed[f] \/ \E g \in Groups : FenceOf[g] = f /\ ~Idle(g)
    /\ goal' = [goal EXCEPT ![c] = f]
    /\ \E label \in {"block", "poll"} : pc' = [pc EXCEPT ![c] = label]
    /\ UNCHANGED <<pending, running, terminate, semVars, fenceVars, worker, job,
                   outcome, got, since, stage, times, failed>>

\* Mutant: the infinite wait also returns when the fence is not completed.
TryWaitReturnEarly(c) ==
    /\ pc[c] \in {"block", "poll"}
    /\ got' = [got EXCEPT ![c] = IF pc[c] = "block" THEN "success"
                                 ELSE result[goal[c]]]
    /\ pc' = [pc EXCEPT ![c] = "idle"]
    /\ goal' = [goal EXCEPT ![c] = NoFence]
    /\ UNCHANGED <<pending, running, terminate, semVars, fenceVars, worker, job,
                   outcome, since, stage, times, failed>>

\* fence::tryWait: the infinite wait returns success when the fence completes, a
\* finite one whatever the result is when it wakes.
TryWaitReturn(c) ==
    /\ \/ /\ pc[c] = "block" /\ completed[goal[c]]
          /\ got' = [got EXCEPT ![c] = "success"]
       \/ /\ pc[c] = "poll"
          /\ got' = [got EXCEPT ![c] = result[goal[c]]]
    /\ pc' = [pc EXCEPT ![c] = "idle"]
    /\ goal' = [goal EXCEPT ![c] = NoFence]
    /\ UNCHANGED <<pending, running, terminate, semVars, fenceVars, worker, job,
                   outcome, since, stage, times, failed>>

\* The predicate of riscvWaitAll, first and after each wake-up.
WaitAll(c) ==
    /\ pc[c] \in {"idle", "wait_all"} /\ ~QueueLocked /\ ~terminate
    /\ LET left == IF pc[c] = "idle"
                   THEN {<<g, times[g]>> : g \in {h \in Groups : ~Idle(h)}}
                   ELSE since[c]
           done == pending = << >> /\ ~running
       IN  /\ pc' = [pc EXCEPT ![c] = IF done THEN "all_done" ELSE "wait_all_asleep"]
           /\ since' = [since EXCEPT ![c] = left]
    /\ UNCHANGED <<pending, running, terminate, semVars, fenceVars, worker, job,
                   outcome, goal, got, stage, times, failed>>

WaitAllReturn(c) ==
    /\ pc[c] = "all_done"
    /\ pc' = [pc EXCEPT ![c] = "idle"]
    /\ since' = [since EXCEPT ![c] = {}]
    /\ UNCHANGED <<pending, running, terminate, semVars, fenceVars, worker, job,
                   outcome, goal, got, stage, times, failed>>

\* muxResetSemaphore and muxResetFence, of objects no dispatch uses.
ResetSemaphore(c, s) ==
    /\ pc[c] = "idle" /\ ~terminate
    /\ \A g \in Groups : s \in SignalsOf[g] \cup WaitsOf[g] => Idle(g)
    /\ signalled' = signalled \ {s} /\ terminated' = terminated \ {s}
    /\ UNCHANGED <<pending, running, terminate, fenceVars, worker, job, outcome,
                   pc, clientVars, stage, times, failed>>

ResetFence(c, f) ==
    /\ pc[c] = "idle" /\ ~terminate
    /\ \A g \in Groups : FenceOf[g] = f => Idle(g)
    /\ \A d \in Clients : goal[d] # f
    /\ ResetOf({f})
    /\ UNCHANGED <<pending, running, terminate, semVars, worker, job, outcome, pc,
                   clientVars, stage, times, failed>>

\* ~queue_s, when no call is under way; what is pending is given up.
Destroy(c) ==
    /\ \A d \in Clients : pc[d] = "idle"
    /\ ~terminate /\ ~QueueLocked
    /\ terminate' = TRUE
    /\ WakeWorker
    /\ pc' = [pc EXCEPT ![c] = "join"]
    /\ UNCHANGED <<pending, running, semVars, fenceVars, job, outcome, clientVars,
                   stage, times, failed>>

Join(c) ==
    /\ pc[c] = "join" /\ worker = "exited"
    /\ pc' = [pc EXCEPT ![c] = "destroyed"]
    /\ UNCHANGED <<pending, running, terminate, semVars, fenceVars, worker, job,
                   outcome, clientVars, stage, times, failed>>

\* Both waits may wake for nothing; they test their predicates again.
SpuriousWake ==
    /\ \/ worker = "asleep" /\ WakeWorker /\ UNCHANGED pc
       \/ /\ \E c \in Clients : pc[c] = "wait_all_asleep"
          /\ WakeClients /\ UNCHANGED worker
    /\ UNCHANGED <<pending, running, terminate, semVars, fenceVars, job, outcome,
                   clientVars, stage, times, failed>>

-------------------------------------------------------------------------------
Run ==
    \/ Fetch \/ Begin \/ Execute \/ NotifyUser
    \/ Signal \/ UnlockQueue \/ UnlockBuffer \/ Finish

InCall(c) == TryWaitReturn(c) \/ (pc[c] = "wait_all" /\ WaitAll(c))
             \/ WaitAllReturn(c) \/ Join(c)

Call(c) ==
    \/ \E f \in Fences : TryWait(c, f) \/ ResetFence(c, f)
    \/ \E s \in Semaphores : ResetSemaphore(c, s)
    \/ (pc[c] = "idle" /\ WaitAll(c)) \/ Destroy(c)

Next ==
    \/ Run \/ SpuriousWake
    \/ \E t \in Clients \cup {Worker}, g \in Groups : Dispatch(t, g)
    \/ \E c \in Clients : Call(c) \/ InCall(c)

Spec == Init /\ [][Next]_vars

\* The queue thread and the threads inside a call are scheduled, command buffers
\* end, and nobody relies on wake-ups for nothing.
Fairness ==
    /\ <>[][~SpuriousWake]_vars
    /\ WF_vars(Run)
    /\ \A c \in Clients : WF_vars(InCall(c))

FairSpec == Spec /\ Fairness

-------------------------------------------------------------------------------
\* Properties

\* When muxWaitAll is about to return, every dispatch made before it was called
\* is complete and the queue thread no longer uses its command buffer, which the
\* caller may now destroy: the sequence of events the comment in run rules out.
WaitAllMeansUnused ==
    \A c \in Clients : pc[c] = "all_done" =>
        \A d \in since[c] :
            times[d[1]] = d[2] => stage[d[1]] = "complete" /\ ~Uses(d[1])

\* A failure reaches every dispatch that comes after it, through any number of
\* semaphores: none of them executes, and each of them fails in turn.
FailurePropagates ==
    \A g, h \in Groups :
        /\ h \in failed /\ Idle(h) /\ SignalsOf[h] \cap WaitsOf[g] # {}
        /\ SignalsOf[h] \subseteq signalled
        => /\ ~(job = g /\ worker = "execute")
           /\ job = g /\ worker \in {"callback", "signal"} => outcome = "failure"

\* A wait on a fence that says more than "not ready" tells it of a dispatch that
\* has executed and called its user_function.
TryWaitIsFinal ==
    [][\A c \in Clients :
         pc[c] \in {"block", "poll"} /\ pc'[c] = "idle" /\ got'[c] # "not_ready" =>
         \A g \in Groups : FenceOf[g] = goal[c] =>
            Idle(g) \/ (job = g /\ stage[g] = "called")]_vars

PhaseOf == [g \in Groups |->
    CASE Idle(g) -> "idle"
      [] stage[g] = "pending" -> "waiting"
      [] OTHER -> stage[g]]

AfterOf == [g \in Groups |->
    {h \in Groups : /\ stage[g] = "pending"
                    /\ SignalsOf[h] \cap (WaitsOf[g] \ signalled) # {}}]

Order == INSTANCE DispatchOrder WITH phase <- PhaseOf, after <- AfterOf

\* The queue of this target keeps the same promise as that of the host: dispatches
\* start after those they wait for, also when they are made in a user_function.
ImplementsDispatchOrder == Order!Spec

\* Some dispatch waits for a semaphore that no dispatch is to signal.
Starved ==
    \E g \in Groups : /\ stage[g] = "pending"
                      /\ \E s \in WaitsOf[g] \ signalled : Signallers(s) = {}

\* Every dispatch the queue accepted completes, unless the queue is destroyed or
\* what some dispatch waits for is for ever not dispatched.
DispatchCompletes ==
    \A g \in Groups : stage[g] = "pending" ~>
        stage[g] = "complete" \/ terminate \/ []Starved

\* With the same exception every wait on a fence and every muxWaitAll return, and
\* the destructor always does.
CallsReturn ==
    \A c \in Clients :
        /\ pc[c] \in {"block", "wait_all", "wait_all_asleep"} ~>
              pc[c] = "idle" \/ []Starved
        /\ pc[c] = "join" ~> pc[c] = "destroyed"
-------------------------------------------------------------------------------
\* The inductive invariant.

Busy == worker \notin {"wait", "asleep", "exited"}

TypeOK ==
    /\ pending \in Seq(Groups) /\ running \in BOOLEAN /\ terminate \in BOOLEAN
    /\ signalled \in SUBSET Semaphores /\ terminated \in SUBSET Semaphores
    /\ completed \in [Fences -> BOOLEAN]
    /\ result \in [Fences -> {"not_ready", "success", "failure"}]
    /\ worker \in {"wait", "asleep", "exited", "lock", "execute", "callback",
                   "signal", "unlock", "unlock_buffer", "finish"}
    /\ job \in Groups \cup {NoGroup} /\ outcome \in {"success", "failure"}
    /\ pc \in [Clients -> {"idle", "block", "poll", "wait_all", "wait_all_asleep",
                           "all_done", "join", "destroyed"}]
    /\ goal \in [Clients -> Fences \cup {NoFence}]
    /\ got \in [Clients -> {"none", "not_ready", "success", "failure"}]
    /\ since \in [Clients -> SUBSET (Groups \X Nat)]
    /\ stage \in [Groups -> {"idle", "pending", "running", "called", "complete"}]
    /\ times \in [Groups -> Nat] /\ failed \in SUBSET Groups

\* The queue thread has one dispatch at a time, and its place says how far that is.
WorkerInv ==
    /\ running <=> Busy
    /\ job \in Groups <=> Busy
    /\ \A g \in Groups :
          /\ stage[g] = "running" <=> job = g /\ worker \in {"lock", "execute", "callback"}
          /\ stage[g] = "called" <=> job = g /\ worker \in {"signal", "unlock", "unlock_buffer"}

\* The pending list holds the pending dispatches, each once.
PendingInv ==
    /\ \A k \in DOMAIN pending : stage[pending[k]] = "pending"
    /\ \A g \in Groups : stage[g] = "pending" => \E k \in DOMAIN pending : pending[k] = g
    /\ \A k, l \in DOMAIN pending : pending[k] = pending[l] => k = l

\* A fence belongs to one dispatch at a time, and completes with it.
FenceInv ==
    /\ \A f \in Fences : result[f] # "not_ready" => completed[f]
    /\ \A f \in Fences : completed[f] =>
          \A g \in Groups : FenceOf[g] = f => Idle(g) \/ stage[g] = "called"
    /\ \A g, h \in Groups :
          FenceOf[g] = FenceOf[h] /\ FenceOf[g] # NoFence /\ ~Idle(g) /\ ~Idle(h) => g = h
    /\ \A c \in Clients : pc[c] \in {"block", "poll"} => goal[c] \in Fences

\* Each semaphore has one command buffer that signals it.
OneSignaller ==
    \A g, h \in Groups : SignalsOf[g] \cap SignalsOf[h] # {} => g = h

\* A dispatch that failed leaves no semaphore signalled and not terminated, and
\* what waits for a terminated one does not execute.
FailInv ==
    /\ \A g \in failed : stage[g] # "pending"
    /\ worker \in {"lock", "execute"} => job \notin failed
    /\ worker \in {"callback", "signal"} /\ job \in failed => outcome = "failure"
    /\ worker = "execute" \/ (worker \in {"callback", "signal"} /\ outcome # "failure") =>
          WaitsOf[job] \cap terminated = {}
    /\ worker \in {"unlock", "unlock_buffer"} => SignalsOf[job] \subseteq signalled
    /\ OneSignaller => \A g \in failed :
          Idle(g) \/ (job = g /\ worker \in {"unlock", "unlock_buffer"}) =>
             SignalsOf[g] \cap signalled \subseteq terminated

\* What a muxWaitAll covers has been dispatched, and is complete when it returns
\* unless it was dispatched again.
SinceInv ==
    /\ \A g \in Groups : stage[g] = "idle" <=> times[g] = 0
    /\ \A c \in Clients : \A d \in since[c] :
          /\ 0 < d[2] /\ d[2] <= times[d[1]]
          /\ pc[c] = "all_done" /\ times[d[1]] = d[2] => stage[d[1]] = "complete"

IInv ==
    TypeOK /\ WorkerInv /\ PendingInv /\ FenceInv /\ FailInv /\ SinceInv
================================================================================
