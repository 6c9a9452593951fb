------------------------------ MODULE HostNDRange ------------------------------
(***************************************************************************)
(* commandNDRange of the host queue: a thread of the pool that runs a      *)
(* command buffer slices its kernel, enqueues the slices on the same pool, *)
(* and helps the pool until they are done.  The counter `queued` of the    *)
(* slices, and what else they point to, are locals of that call.           *)
(*                                                                         *)
(* A group is a command buffer with one ND-range command.  An item of the  *)
(* ring is <<g, 0>>, the group, or <<g, k>>, its k-th slice.  A thread has *)
(* a call stack, its top first, because helping runs whatever item is next *)
(* inside the wait.  Sleeping on `finished` is waiting for its predicate:  *)
(* HostThreadPool shows that no such wake-up is lost.  A client in         *)
(* muxTryWait takes and runs items as a member of Threads does.            *)
(***************************************************************************)
EXTENDS Integers, Sequences, FiniteSets

CONSTANTS
    Threads,    \* those that run items
    Groups,
    Slices,     \* how many slices an ND-range gets: num_threads()
    Capacity,   \* how many items the ring holds
    NoThread

ASSUME NDRangeAssumption ==
    /\ NoThread \notin Threads
    /\ Slices \in Nat \ {0} /\ Capacity \in Nat \ {0}

VARIABLES
    pending,            \* the ring
    mutex, waitMutex,   \* the owner of each mutex of the pool, or NoThread
    asleep,             \* the threads in enqueue_range waiting for space
    queued,             \* the counter of each group's ND-range
    live,               \* whether the locals of its commandNDRange exist
    stack,              \* the calls each thread is in
    ran,                \* history: how often a slice was executed
    phase               \* history: of each group

ringVars == <<pending, mutex, asleep>>
vars == <<ringVars, waitMutex, queued, live, stack, ran, phase>>

-------------------------------------------------------------------------------
Top(t) == Head(stack[t])
At(t, label) == stack[t] # << >> /\ Top(t).at = label
Group(t) == Top(t).item[1]

Push(t, frame) == stack' = [stack EXCEPT ![t] = <<frame>> \o @]
Pop(t) == stack' = [stack EXCEPT ![t] = Tail(@)]
Goto(t, label) == stack' = [stack EXCEPT ![t][1].at = label]

Unlocked(t) == mutex \in {NoThread, t}

\* hostDispatch of a group, by a client that finds space in the ring.  HostQueue
\* and HostThreadPool have the calls that wait for it.
Submit(g) ==
    /\ phase[g] = "new"
    /\ mutex = NoThread
    /\ Len(pending) < Capacity
    /\ pending' = Append(pending, <<g, 0>>)
    /\ phase' = [phase EXCEPT ![g] = "submitted"]
    /\ UNCHANGED <<mutex, asleep, waitMutex, queued, live, stack, ran>>

\* getWork and tryGetWork, then the call of the item's function.
Take(t) ==
    /\ mutex = NoThread
    /\ pending # << >>
    /\ pending' = Tail(pending)
    /\ LET item == Head(pending) IN
       Push(t, [item |-> item, next |-> 1,
                at |-> IF item[2] = 0 THEN "variant" ELSE "run"])
    /\ UNCHANGED <<mutex, asleep, waitMutex, queued, live, ran, phase>>

GetWork(t) == stack[t] = << >> /\ Take(t)

\* No kernel variant for the local size: the command is skipped.
KernelVariant(t) ==
    /\ At(t, "variant")
    /\ \/ /\ Goto(t, "end")
          /\ phase' = [phase EXCEPT ![Group(t)] = "skipped"]
          /\ UNCHANGED <<queued, live>>
       \/ /\ Goto(t, "count_up")
          /\ queued' = [queued EXCEPT ![Group(t)] = 0]
          /\ live' = [live EXCEPT ![Group(t)] = TRUE]
          /\ UNCHANGED phase
    /\ UNCHANGED <<ringVars, waitMutex, ran>>

\* enqueue_range counts a slice with the mutex of the pool held ...
CountSlice(t) ==
    /\ At(t, "count_up")
    /\ Unlocked(t)
    /\ mutex' = t
    /\ queued' = [queued EXCEPT ![Group(t)] = @ + 1]
    /\ Goto(t, "store")
    /\ UNCHANGED <<pending, asleep, waitMutex, live, ran, phase>>

\* Mutant: every slice gets the index of the first.
StoreSliceSame(t) ==
    /\ At(t, "store")
    /\ Len(pending) < Capacity
    /\ pending' = Append(pending, <<Group(t), 1>>)
    /\ stack' = [stack EXCEPT ![t][1].next = @ + 1,
                    ![t][1].at = IF Top(t).next = Slices THEN "help" ELSE "count_up"]
    /\ mutex' = IF Top(t).next = Slices THEN NoThread ELSE t
    /\ UNCHANGED <<asleep, waitMutex, queued, live, ran, phase>>

\* ... and stores it.  After the last the mutex is released.
StoreSlice(t) ==
    /\ At(t, "store")
    /\ Len(pending) < Capacity
    /\ pending' = Append(pending, <<Group(t), Top(t).next>>)
    /\ stack' = [stack EXCEPT ![t][1].next = @ + 1,
                    ![t][1].at = IF Top(t).next = Slices THEN "help" ELSE "count_up"]
    /\ mutex' = IF Top(t).next = Slices THEN NoThread ELSE t
    /\ UNCHANGED <<asleep, waitMutex, queued, live, ran, phase>>

\* The ring is full: with the mutex held it locks the wait mutex, lets go of the
\* first, and waits for an item to complete.
FullWait(t) ==
    /\ At(t, "store")
    /\ Len(pending) = Capacity
    /\ waitMutex = NoThread
    /\ asleep' = asleep \cup {t}
    /\ mutex' = NoThread
    /\ Goto(t, "full_wait")
    /\ UNCHANGED <<pending, waitMutex, queued, live, ran, phase>>

\* It wakes with the wait mutex, ...
FullWake(t) ==
    /\ At(t, "full_wait")
    /\ t \notin asleep
    /\ waitMutex = NoThread
    /\ waitMutex' = t
    /\ Goto(t, "full_relock")
    /\ UNCHANGED <<ringVars, queued, live, ran, phase>>

\* ... keeps it until it has the mutex of the pool, and looks at the ring again.
FullRelock(t) ==
    /\ At(t, "full_relock")
    /\ mutex = NoThread
    /\ mutex' = t
    /\ waitMutex' = NoThread
    /\ Goto(t, "store")
    /\ UNCHANGED <<pending, asleep, queued, live, ran, phase>>

\* Mutant: the wait does not help.
HelpMissing(t) == FALSE /\ UNCHANGED vars

\* thread_pool_s::wait(&queued) runs what it finds while the count is not zero.
Help(t) == At(t, "help") /\ queued[Group(t)] # 0 /\ Take(t)

\* The loop ends on a count of zero, read without a mutex, or an empty ring.
HelpEnds(t) ==
    /\ At(t, "help")
    /\ \/ queued[Group(t)] = 0
       \/ pending = << >> /\ mutex = NoThread
    /\ Goto(t, "first_wait")
    /\ UNCHANGED <<ringVars, waitMutex, queued, live, ran, phase>>

\* The test after the loop, or finished.wait when it fails.
FirstWait(t) ==
    /\ At(t, "first_wait")
    /\ queued[Group(t)] = 0
    /\ Goto(t, "second_wait")
    /\ UNCHANGED <<ringVars, waitMutex, queued, live, ran, phase>>

\* Mutant: the locals go as soon as the count was seen to be zero.
SecondWaitMissing(t) ==
    /\ At(t, "second_wait")
    /\ live' = [live EXCEPT ![Group(t)] = FALSE]
    /\ phase' = [phase EXCEPT ![Group(t)] = "executed"]
    /\ Goto(t, "end")
    /\ UNCHANGED <<ringVars, waitMutex, queued, ran>>

\* The second wait, under the wait mutex; then commandNDRange returns.
SecondWait(t) ==
    /\ At(t, "second_wait")
    /\ waitMutex = NoThread
    /\ queued[Group(t)] = 0
    /\ live' = [live EXCEPT ![Group(t)] = FALSE]
    /\ phase' = [phase EXCEPT ![Group(t)] = "executed"]
    /\ Goto(t, "end")
    /\ UNCHANGED <<ringVars, waitMutex, queued, ran>>

\* threadFuncBody completes the item of the group.
EndGroup(t) ==
    /\ At(t, "end")
    /\ waitMutex = NoThread
    /\ asleep' = {}
    /\ Pop(t)
    /\ UNCHANGED <<pending, mutex, waitMutex, queued, live, ran, phase>>

\* The kernel, for the work-groups of the slice.
RunSlice(t) ==
    /\ At(t, "run")
    /\ ran' = [ran EXCEPT ![Top(t).item] = @ + 1]
    /\ Goto(t, "count_down")
    /\ UNCHANGED <<ringVars, waitMutex, queued, live, phase>>

\* threadFuncBody of a slice: the count goes down under the wait mutex ...
CountDown(t) ==
    /\ At(t, "count_down")
    /\ waitMutex = NoThread
    /\ waitMutex' = t
    /\ queued' = [queued EXCEPT ![Group(t)] = @ - 1]
    /\ Goto(t, "test_zero")
    /\ UNCHANGED <<ringVars, live, ran, phase>>

\* ... and is read again before the mutex is released.
TestZero(t) ==
    /\ At(t, "test_zero")
    /\ waitMutex' = NoThread
    /\ Goto(t, "notify")
    /\ UNCHANGED <<ringVars, queued, live, ran, phase>>

Notify(t) ==
    /\ At(t, "notify")
    /\ asleep' = {}
    /\ Pop(t)
    /\ UNCHANGED <<pending, mutex, waitMutex, queued, live, ran, phase>>

SpuriousWake(t) ==
    /\ t \in asleep
    /\ asleep' = asleep \ {t}
    /\ UNCHANGED <<pending, mutex, waitMutex, queued, live, stack, ran, phase>>

-------------------------------------------------------------------------------
Init ==
    /\ pending = << >>
    /\ mutex = NoThread /\ waitMutex = NoThread
    /\ asleep = {}
    /\ queued = [g \in Groups |-> 0]
    /\ live = [g \in Groups |-> FALSE]
    /\ stack = [t \in Threads |-> << >>]
    /\ ran = [item \in Groups \X (1..Slices) |-> 0]
    /\ phase = [g \in Groups |-> "new"]

Step(t) ==
    \/ GetWork(t) \/ KernelVariant(t) \/ CountSlice(t) \/ StoreSlice(t)
    \/ FullWait(t) \/ FullWake(t) \/ FullRelock(t)
    \/ Help(t) \/ HelpEnds(t) \/ FirstWait(t) \/ SecondWait(t) \/ EndGroup(t)
    \/ RunSlice(t) \/ CountDown(t) \/ TestZero(t) \/ Notify(t)

Next ==
    \/ \E g \in Groups : Submit(g)
    \/ \E t \in Threads : Step(t) \/ SpuriousWake(t)

\* Every thread keeps being scheduled; wake-ups for nothing do not go on for ever.
Fairness ==
    /\ <>[][\A t \in Threads : ~SpuriousWake(t)]_vars
    /\ \A t \in Threads : WF_vars(Step(t))

Spec == Init /\ [][Next]_vars

FairSpec == Spec /\ Fairness

-------------------------------------------------------------------------------
\* Properties

Calls(t) == {stack[t][k] : k \in DOMAIN stack[t]}

\* The slices of g that are in the ring or in the hands of a thread.
Pending(g) == {pending[k] : k \in DOMAIN pending} \cap ({g} \X (1..Slices))
Running(g) == {f \in UNION {Calls(t) : t \in Threads} :
                  f.item[1] = g /\ f.at \in {"run", "count_down", "test_zero"}}

\* No slice, and no thread that completes one, outlives the locals of the
\* commandNDRange it points to: the counter is still there when threadFuncBody
\* reads it after the decrement, although the waiting thread may have seen zero.
LocalsOutlive ==
    \A g \in Groups : ~live[g] => Pending(g) = {} /\ Running(g) = {}

\* commandNDRange returns when each of its slices has been executed exactly once,
\* by whichever threads, nested in whatever waits.
NDRangeIsWhole ==
    \A g \in Groups : phase[g] = "executed" =>
        \A k \in 1..Slices : ran[<<g, k>>] = 1

\* Every thread of the pool is in enqueue_range and waits for "an item to
\* complete" (thread_pool.h:122): no thread is left to complete one.
NoneLeft == Threads \subseteq asleep

\* A thread that woke in enqueue_range holds the wait mutex and wants the mutex;
\* another found the ring full again, holds the mutex and wants the wait mutex.
LockCycle ==
    \E t, u \in Threads :
        /\ At(t, "full_relock")
        /\ At(u, "store") /\ mutex = u /\ Len(pending) = Capacity

\* Every group that was dispatched completes, although its own slices may be in
\* the hands of threads that help with other groups: the wait for them helps too.
\* The exceptions are those of a ring that fills up: from some point on no thread
\* is left, or the two mutexes of the pool are held in a cycle.
GroupEnds ==
    \A g \in Groups :
        phase[g] = "submitted" ~> \/ phase[g] \in {"skipped", "executed"}
                                  \/ []NoneLeft \/ []LockCycle

-------------------------------------------------------------------------------
\* The inductive invariant

Items == Groups \X (0..Slices)

\* The labels of a call in commandNDRange, those between the birth and the end of
\* its locals, and those of a slice whose thread may still touch them.
StoreLabels == {"store", "full_wait", "full_relock"}
GroupLabels ==
    {"variant", "count_up", "help", "first_wait", "second_wait", "end"} \cup StoreLabels
LiveLabels == GroupLabels \ {"variant", "end"}
SliceLabels == {"run", "count_down", "test_zero"}
Labels == GroupLabels \cup SliceLabels \cup {"notify"}

Frames == [item : Items, next : 1..(Slices + 1), at : Labels]

\* The mutex of the pool and the sleepers matter to liveness only.
TypeOK ==
    /\ pending \in Seq(Items)
    /\ waitMutex \in Threads \cup {NoThread}
    /\ queued \in [Groups -> Int]
    /\ live \in [Groups -> BOOLEAN]
    /\ stack \in [Threads -> Seq(Frames)]
    /\ ran \in [Groups \X (1..Slices) -> Nat]
    /\ phase \in [Groups -> {"new", "submitted", "skipped", "executed"}]

Ring == {pending[k] : k \in DOMAIN pending}

\* No item is twice in a stack, in the stacks of two threads, twice in the ring,
\* or in the ring and in a stack.
Distinct(s) == \A i, j \in DOMAIN s : s[i].item = s[j].item => i = j

HeldOnce ==
    /\ \A t \in Threads : Distinct(stack[t])
    /\ \A t, u \in Threads : \A f \in Calls(t), h \in Calls(u) :
          f.item = h.item => t = u

RingOnce ==
    /\ \A i, j \in DOMAIN pending : pending[i] = pending[j] => i = j
    /\ \A t \in Threads : \A f \in Calls(t) : f.item \notin Ring

\* What a call f of thread t says about its group.  Only the help loop calls on.
CallOK(t, f) ==
    /\ f.at # "help" => f = Top(t)
    /\ f.item[2] = 0 <=> f.at \in GroupLabels
    /\ f.at \in {"test_zero", "full_relock"} => waitMutex = t
    /\ f.at \in LiveLabels \cup SliceLabels => live[f.item[1]]
    /\ f.at \in {"variant", "end"} => ~live[f.item[1]]
    /\ f.at = "variant" => phase[f.item[1]] = "submitted" /\ f.next = 1
    /\ phase[f.item[1]] # "new"
    /\ f.at \in {"count_up"} \cup StoreLabels => f.next <= Slices
    /\ f.at \in {"help", "first_wait", "second_wait"} => f.next = Slices + 1

\* What an item of the ring says about its group.
QueuedOK(x) ==
    /\ phase[x[1]] = "submitted"
    /\ live[x[1]] <=> x[2] # 0

PlacesInv ==
    /\ \A t \in Threads : \A f \in Calls(t) : CallOK(t, f)
    /\ \A x \in Ring : QueuedOK(x)
    /\ \A g \in Groups : live[g] => phase[g] = "submitted"

\* An item is in a call at one of the labels; or still in the ring, on its way
\* to them.
Held(x, labels) == \E t \in Threads : \E f \in Calls(t) : f.item = x /\ f.at \in labels
Awaits(x, labels) == x \in Ring \/ Held(x, labels)

\* A group whose ND-range has not begun.
Unstarted(g) == phase[g] \in {"new", "submitted"} /\ ~live[g]

\* No slice is made before the ND-range begins, and from then on only those up
\* to `next` of enqueue_range.
NextInv ==
    /\ \A g \in Groups : Unstarted(g) =>
          \A k \in 1..Slices : ~Awaits(<<g, k>>, Labels)
    /\ \A t \in Threads : \A f \in Calls(t) : f.at \in LiveLabels =>
          \A k \in 1..Slices : Awaits(<<f.item[1], k>>, Labels) => k < f.next

\* The counter is the number of slices to be counted down, and one more while
\* enqueue_range has counted a slice that it has not stored.
Open(g) == {k \in 1..Slices : Awaits(<<g, k>>, {"run", "count_down"})}

CountInv ==
    \A g \in Groups : live[g] =>
        queued[g] = Cardinality(Open(g))
                      + (IF Held(<<g, 0>>, StoreLabels) THEN 1 ELSE 0)

\* Which slices have been executed: none before the ND-range begins, and then
\* those that enqueue_range has made and that do not await it.
RanInv ==
    /\ \A g \in Groups : Unstarted(g) => \A k \in 1..Slices : ran[<<g, k>>] = 0
    /\ \A t \in Threads : \A f \in Calls(t) : f.at \in LiveLabels =>
          \A k \in 1..Slices :
              ran[<<f.item[1], k>>] =
                  IF k < f.next /\ ~Awaits(<<f.item[1], k>>, {"run"}) THEN 1 ELSE 0

IInv ==
    /\ TypeOK /\ HeldOnce /\ RingOnce /\ PlacesInv
    /\ NextInv /\ CountInv /\ RanInv /\ NDRangeIsWhole
================================================================================
