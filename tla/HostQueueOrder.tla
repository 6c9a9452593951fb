---------------------------- MODULE HostQueueOrder ----------------------------
(***************************************************************************)
(* What the queue of HostQueue promises its callers: the order of          *)
(* DispatchOrder, waits that outlast what they wait for, and, when its     *)
(* threads are scheduled, that dispatches complete and waits return.       *)
(***************************************************************************)
EXTENDS HostQueue

\* Every thread inside the driver keeps being scheduled, and wake-ups for nothing
\* are not for ever.  With MaxTimes dispatches the mutex is locked finitely often,
\* so that obtaining it needs no fairness of its own.
Fairness ==
    /\ <>[][\A t \in Threads : ~SpuriousWake(t)]_vars
    /\ \A t \in Threads : WF_vars(LockedStep(t) \/ RunStep(t))
    /\ \A t \in Clients : WF_vars(WaitStep(t))

FairSpec == Spec /\ Fairness

-------------------------------------------------------------------------------
\* Properties

\* Where g is listed in the lists f[x] of the x in S.
Places(g, f, S) == UNION {{x} \X {k \in DOMAIN f[x] : f[x][k] = g} : x \in S}

\* muxWaitAll returns only when every group dispatched before it was called is
\* complete, those included that were still waiting for a semaphore: the group
\* that signals them enqueues them before its own item leaves the count.  A group
\* dispatched before its signaller is not waited for.
WaitAllOutlastsGroups ==
    [][\A t \in Clients : pc[t] = "wait_all" /\ pc'[t] = "idle" =>
         \A d \in since[t] : stage[d[1]] = "complete" \/ times[d[1]] > d[2]]_vars

PhaseOf == [g \in Groups |->
    CASE Idle(g) -> "idle"
      [] stage[g] \in {"dispatched", "queued"} -> "waiting"
      [] stage[g] \in {"running", "executed"} -> "running"
      [] OTHER -> "called"]

AfterOf == [g \in Groups |->
    {h \in Groups : /\ stage[g] \in {"dispatched", "queued"}
                    /\ \E s \in SemsIn(WaitsOf[g]) \cap SemsIn(SignalsOf[h]) :
                          ~signalled[s]}]

Order == INSTANCE DispatchOrder WITH phase <- PhaseOf, after <- AfterOf

\* The semaphores, counts and locks of the queue implement the order that
\* muxDispatch promises, dispatch by dispatch, when groups, semaphores and
\* fences are used again.
ImplementsDispatchOrder == Order!Spec

\* A group still has as many waits as there are places from which a
\* signalCompleted for it will come: entries in the lists of semaphores not yet
\* signalled, and calls under way.  One more and the group never runs, one less
\* and it runs too early.
WaitCountIsExact ==
    \A g \in Groups :
        waitCount[g] =
            Cardinality(Places(g, waitingGroups, {s \in Semaphores : ~signalled[s]}))
          + Cardinality(Places(g, calls, Threads))

\* The group waits, through some chain, for a group that is not dispatched.
Starved(g) == stage[g] = "dispatched" /\ g \notin Supplied(Groups)

\* A thread waits inside enqueue for an item to complete, with the mutex of the
\* queue, and the other workers need that mutex to complete one or have none.
Stalled ==
    \E t \in asleep : \A u \in Workers \ {t} :
        pc[u] = "cleanup" \/ (pc[u] = "get" /\ pending = << >>)

\* Every accepted dispatch completes, unless its signaller is for ever not
\* dispatched, or the ring is full and the workers stall for good.
DispatchCompletes ==
    \A g \in Groups : stage[g] = "dispatched" ~>
        stage[g] = "complete" \/ []Starved(g) \/ []Stalled

\* With the same exceptions every wait on a fence returns, and so does every
\* muxWaitAll unless new dispatches keep the queue busy.
WaitsReturn ==
    \A t \in Clients : pc[t] \in {"help", "blocked", "wait_all"} ~>
        pc[t] = "idle" \/ (\E g \in Groups : []Starved(g)) \/ []Stalled
-------------------------------------------------------------------------------
\* The inductive invariant behind the order

Unique(list) == \A k, l \in DOMAIN list : list[k] = list[l] => k = l

\* No group lists a semaphore twice among those it signals.
SignalsOnce == \A g \in Groups : Unique(SignalsOf[g])

\* No two groups signal the same semaphore.
OneSignaller ==
    \A g, h \in Groups : SemsIn(SignalsOf[g]) \cap SemsIn(SignalsOf[h]) # {} => g = h

\* A thread has yet to signal what is not signalled of its group's semaphores.
Signalling(t) ==
    /\ pc[t] = "cleanup" => \A s \in SemsIn(SignalsOf[job[t]]) : ~signalled[s]
    /\ pc[t] \in Locked /\ job[t] # NoGroup =>
          /\ Unique(sems[t])
          /\ SemsIn(sems[t]) = {s \in SemsIn(SignalsOf[job[t]]) : ~signalled[s]}

\* A semaphore has one active signaller, is not signalled before that one calls its
\* user_function, and is when that one is cleaned up.
SemaphoreInv ==
    /\ \A g, h \in Groups : \A s \in SemsIn(SignalsOf[g]) \cap SemsIn(SignalsOf[h]) :
          ~Idle(g) /\ ~Idle(h) => g = h
    /\ \A g \in Groups :
          signalSemaphores[g] = IF Idle(g) \/ stage[g] = "cleaned" THEN << >>
                                ELSE SignalsOf[g]
    /\ \A g \in Groups : \A s \in SemsIn(SignalsOf[g]) :
          /\ stage[g] \in {"dispatched", "queued", "running", "executed"} => ~signalled[s]
          /\ stage[g] = "cleaned" => signalled[s]
    /\ \A t \in Threads : Signalling(t)

\* The waits of g not yet signalled, where x is listed in a list, and the calls of
\* signalCompleted under way.
Unsignalled(g) == {k \in DOMAIN WaitsOf[g] : ~signalled[WaitsOf[g][k]]}
In(list, x) == {k \in DOMAIN list : list[k] = x}
Due == IF mutex = NoThread THEN << >> ELSE calls[mutex]

\* The signals a group still gets.
Left(g) == Cardinality(Unsignalled(g)) + Cardinality(In(Due, g))

\* A tracked group has been dispatched and is not being enqueued.
Tracked(g) == stage[g] = "dispatched" /\ \A t \in Threads : enq[t] # g

\* A count is never less than the signals to come, so that a group is enqueued when
\* everything it waits for is signalled.
CountInv ==
    /\ \A g \in Groups : waitCount[g] # 0 => Left(g) <= waitCount[g]
    /\ \A t \in Threads : enq[t] # NoGroup => Unsignalled(enq[t]) = {}
    /\ \A g \in Groups : stage[g] \notin {"idle", "dispatched", "complete"} =>
          Unsignalled(g) = {}
    /\ \A g \in Groups : \A s \in Semaphores : ~signalled[s] =>
          /\ Cardinality(In(waitingGroups[s], g)) <= Cardinality(In(WaitsOf[g], s))
          /\ In(waitingGroups[s], g) # {} => Tracked(g)

\* When no allocation fails a tracked group has a count, which is exact.
ExactInv == ~AllocFails =>
    /\ \A g \in Groups : Tracked(g) => waitCount[g] # 0 /\ waitCount[g] = Left(g)
    /\ \A g \in Groups : \A s \in Semaphores : Tracked(g) /\ ~signalled[s] =>
          Cardinality(In(waitingGroups[s], g)) = Cardinality(In(WaitsOf[g], s))
    /\ \A g \in Groups : In(Due, g) # {} => Tracked(g)

OrderInv == SemaphoreInv /\ CountInv /\ ExactInv

-------------------------------------------------------------------------------
\* The inductive invariant behind muxWaitAll

\* The threads that have a group.
Jobs == {t \in Threads : job[t] # NoGroup}

\* The groups that have left signalInfos are counted, in the ring, in a thread or on
\* their way into the ring.
RunningInv ==
    /\ IsFiniteSet(Jobs)
    /\ runningGroups = Len(pending) + Cardinality(Jobs)
                         + (IF \E t \in Threads : pc[t] = "enq_store" THEN 1 ELSE 0)
    /\ \A g \in Groups : stage[g] = "queued" => \E k \in DOMAIN pending : pending[k] = g
    /\ \A g \in Groups : stage[g] \in {"running", "executed", "called", "cleaned"} =>
          \E t \in Jobs : job[t] = g /\ pc[t] # "decrement"

\* The groups a muxWaitAll still has to outlast.
Owed(t) == {g \in Groups : ~Idle(g) /\ <<g, times[g]>> \in since[t]}

\* Some group of any set of them waits for nothing outside of the others.
Founded(D) ==
    \A S \in SUBSET D : S # {} =>
        \E g \in S : \A s \in SemsIn(WaitsOf[g]) :
            signalled[s] \/ Signallers(s) \cap (D \ S) # {}

\* Each of them has been dispatched, and none waits for a group yet to be.
Outlasts(t) ==
    /\ \A d \in since[t] : d[2] <= times[d[1]] /\ stage[d[1]] # "idle"
    /\ \A g \in Owed(t) : Dispatched(g)
    /\ Founded(Owed(t))

WaitAllInv ==
    /\ since \in [Clients -> SUBSET (Groups \X Nat)]
    /\ \A t \in Clients : pc[t] = "wait_all" => Outlasts(t)
================================================================================
