------------------------- MODULE HostThreadPoolProofs -------------------------
(***************************************************************************)
(* The safety properties of HostThreadPool hold for every number of        *)
(* threads, items, signals and counts and every size of ring, and the      *)
(* condition variables lose no wake-up.                                    *)
(*                                                                         *)
(* HostThreadPoolSteps shows that IInv is inductive; WakeInv, which is     *)
(* inductive relative to it, is shown so here.                             *)
(*                                                                         *)
(* HostThreadPool also implements WorkPool: a store appends to the         *)
(* abstract queue, a take removes its head, whatever the indices.          *)
(***************************************************************************)
EXTENDS HostThreadPoolSteps, FiniteSetTheorems, SequenceTheorems

USE DEF Threads, Settled

-------------------------------------------------------------------------------
\* The invariant and what follows from it

\* The facts about finite sets the counts rest on.
LEMMA Cardinalities == CardinalityFacts
  <1>1. \A S : IsFiniteSet(S) => \A T \in SUBSET S : IsFiniteSet(T)
    BY FS_Subset, Zenon
  <1>2. \A S, x : IsFiniteSet(S) =>
          /\ Cardinality(S \cup {x}) = IF x \in S THEN Cardinality(S) ELSE Cardinality(S) + 1
          /\ Cardinality(S \ {x}) = IF x \in S THEN Cardinality(S) - 1 ELSE Cardinality(S)
    BY FS_AddElement, FS_RemoveElement, Zenon
  <1> QED
    BY <1>1, <1>2, FS_EmptySet, Zenon DEF CardinalityFacts

\* Every reachable state satisfies the inductive invariant.
THEOREM Invariance == Spec => []IInv
  BY InitInv, NextInv, Cardinalities, PTL DEF Spec

\* The members of thread_pool_s and the locals of its callers keep their types.
THEOREM TypeCorrect == Spec => []TypeOK
  <1>1. IInv => TypeOK
    BY Zenon DEF IInv
  <1> QED
    BY <1>1, Invariance, PTL

\* The ring of thread_pool_s loses and duplicates nothing, whatever its size.
THEOREM RingIsExact == Spec => []RingHoldsQueued
  <1>1. IInv => RingHoldsQueued
    BY Zenon DEF IInv
  <1> QED
    BY <1>1, Invariance, PTL

\* A count is zero exactly when nothing enqueued on it is left, whatever the
\* number of threads that enqueue, run and help.
THEOREM CountIsExact == Spec => []CountIsOutstanding
  <1>1. IInv => CountIsOutstanding
    BY Zenon DEF IInv
  <1> QED
    BY <1>1, Invariance, PTL

\* A signal that is set belongs to no item still queued or running, although
\* signals are reused.
THEOREM SignalIsExact == Spec => []SignalMeansComplete
  <1>1. IInv => SignalMeansComplete
    BY Zenon DEF IInv
  <1> QED
    BY <1>1, Invariance, PTL

\* wait and hostWaitAll return only when the items they were called for have
\* completed.
THEOREM WaitIsSound == Spec => WaitOutlastsItems
  <1> DEFINE Outlasts == \A t \in Clients :
                            goal[t] # NoGoal /\ goal'[t] = NoGoal =>
                                \A i \in since[t] :
                                   \/ status[i] = "done"
                                   \/ status[i] = "signalled" /\ goal[t] \in Signals
  <1>1. IInv /\ [Next]_vars => [Outlasts]_vars
    <2> SUFFICES ASSUME IInv, Next, NEW t \in Clients, goal[t] # NoGoal,
                        goal'[t] = NoGoal, NEW i \in since[t]
                 PROVE  \/ status[i] = "done"
                        \/ status[i] = "signalled" /\ goal[t] \in Signals
      BY Zenon
    <2> USE DEF IInv
    <2>1. Satisfied(goal[t])
      BY WaitEnds, Zenon
    <2>2. /\ i \in Items
          /\ goal[t] \in {SignalOf[i], CountOf[i]}
          /\ goal[t] \in Signals \cup Counts
      BY Zenon DEF TypeOK, SinceInv
    <2>3. CASE goal[t] \in Signals
      <3>1. SignalOf[i] = goal[t] /\ signal[goal[t]]
        BY <2>1, <2>2, <2>3, PoolAssumption, Zenon DEF Satisfied
      <3>2. status[i] \in {"queued", "running", "ran", "signalled", "done"}
        BY <2>3, Zenon DEF SinceInv
      <3>3. status[i] \notin {"queued", "running", "ran"}
        BY <2>2, <2>3, <3>1, PoolAssumption, Zenon DEF SignalMeansComplete
      <3> QED
        BY <2>3, <3>2, <3>3, Zenon
    <2>4. CASE goal[t] \notin Signals
      <3> DEFINE left == {j \in Items : CountOf[j] = goal[t] /\ Outstanding(j)}
      <3>1. CountOf[i] = goal[t] /\ goal[t] \in Counts /\ count[goal[t]] = 0
        BY <2>1, <2>2, <2>4, PoolAssumption, Zenon DEF Satisfied
      <3>2. IsFiniteSet(left) /\ Cardinality(left) = 0
        BY <3>1, FS_Subset, PoolAssumption, Zenon DEF CountIsOutstanding
      <3>3. left = {}
        <4> HIDE DEF left
        <4> QED
          BY <3>2, FS_EmptySet, Zenon
      <3>4. ~Outstanding(i)
        BY <2>2, <3>1, <3>3, Zenon
      <3> QED
        BY <2>4, <3>4, Zenon DEF SinceInv, Outstanding
    <2> QED
      BY <2>3, <2>4, Zenon
  <1> QED
    BY <1>1, Invariance, PTL DEF WaitOutlastsItems, Spec

-------------------------------------------------------------------------------
\* What keeps each conjunct of WakeInv

\* A thread that stores an item goes on to notify; others leave an empty ring
\* empty, and send nobody to sleep on new_work.
LEMMA NoticeKept ==
    ASSUME WakeInv, NEW t \in Threads, newWork' \subseteq newWork,
           stayAlive' => stayAlive,
           \A u \in Clients \ {t} : pc'[u] = pc[u],
           \/ t \in Clients /\ pc'[t] \in Notifying
           \/ (RingEmpty => RingEmpty') /\ (t \in Clients => pc[t] \notin Notifying)
    PROVE  WorkIsNoticed'
  <1>1. CASE t \in Clients /\ pc'[t] \in Notifying
    BY <1>1, Zenon DEF WorkIsNoticed
  <1>2. CASE (RingEmpty => RingEmpty') /\ (t \in Clients => pc[t] \notin Notifying)
    <2> SUFFICES ASSUME ~RingEmpty', stayAlive', Workers \subseteq newWork'
                 PROVE  \E u \in Clients : pc'[u] \in Notifying
      BY Zenon DEF WorkIsNoticed
    <2>1. PICK u \in Clients : pc[u] \in Notifying
      BY <1>2, Zenon DEF WakeInv, WorkIsNoticed
    <2> QED
      BY <1>2, <2>1, Zenon
  <1> QED
    BY <1>1, <1>2, Zenon

\* A notification takes a worker off new_work.
LEMMA NoticeGiven ==
    ASSUME WakeInv, newWork' \in NotifyOne(newWork)
    PROVE  newWork' \subseteq newWork /\ WorkIsNoticed'
  <1>1. newWork \subseteq Workers /\ Workers # {}
    BY PoolAssumption, Zenon DEF WakeInv, SleepInv
  <1>2. newWork' \subseteq newWork /\ ~(Workers \subseteq newWork')
    BY <1>1, Zenon DEF NotifyOne
  <1> QED
    BY <1>2, Zenon DEF WorkIsNoticed

\* Nobody moves while it sleeps.
LEMMA SleepKept ==
    ASSUME WakeInv, NEW t \in Threads, newWork' \subseteq newWork,
           finished' \subseteq finished, doneWork' \subseteq doneWork,
           \A u \in Clients \ {t} : pc'[u] = pc[u] /\ goal'[u] = goal[u],
           t \notin finished' \cup doneWork'
    PROVE  SleepInv'
  BY Zenon DEF WakeInv, SleepInv

\* No count becomes zero, and nobody who is to tell of one gives up.
LEMMA ZeroKept ==
    ASSUME WakeInv, finished' \subseteq finished,
           \A u \in finished' : goal'[u] = goal[u],
           \A c \in Counts : count'[c] = 0 => count[c] = 0,
           \A u \in Threads : pc[u] = "body_finished" => pc'[u] = "body_finished",
           \A u \in Threads : pc[u] = "body_zero" =>
              pc'[u] = "body_zero" /\ work'[u] = work[u]
    PROVE  ZeroIsTold'
  <1> SUFFICES ASSUME NEW t \in finished', count'[goal'[t]] = 0
               PROVE  \E u \in Threads :
                         \/ pc'[u] = "body_finished"
                         \/ pc'[u] = "body_zero" /\ CountOf[work'[u]] = goal'[t]
    BY Zenon DEF ZeroIsTold
  <1>1. t \in finished /\ goal[t] \in Counts /\ goal'[t] = goal[t]
    BY Zenon DEF WakeInv, SleepInv
  <1>2. PICK u \in Threads : \/ pc[u] = "body_finished"
                             \/ pc[u] = "body_zero" /\ CountOf[work[u]] = goal[t]
    BY <1>1, Zenon DEF WakeInv, ZeroIsTold
  <1> QED
    BY <1>1, <1>2, Zenon

\* No signal is set, and every thread that completes an item still does.
LEMMA SignalKept ==
    ASSUME WakeInv, doneWork' \subseteq doneWork,
           \A u \in doneWork' : goal'[u] = goal[u] /\ pc'[u] = pc[u],
           \A s \in Signals : signal'[s] => signal[s],
           \A u \in Threads : pc[u] \in Completing => pc'[u] \in Completing
    PROVE  SignalIsTold'
  <1> SUFFICES ASSUME NEW t \in doneWork', pc'[t] = "wait_lock", signal'[goal'[t]]
               PROVE  \E u \in Threads : pc'[u] \in Completing
    BY Zenon DEF SignalIsTold
  <1>1. /\ t \in doneWork /\ pc[t] = "wait_lock" /\ goal'[t] = goal[t]
        /\ goal[t] \in Signals
    BY Zenon DEF WakeInv, SleepInv
  <1>2. PICK u \in Threads : pc[u] \in Completing
    BY <1>1, Zenon DEF WakeInv, SignalIsTold
  <1> QED
    BY <1>2, Zenon

\* A step of a thread that is awake and has nothing to tell but new work.
LEMMA AwakeStep ==
    ASSUME WakeInv, NEW t \in Threads,
           newWork' \subseteq newWork, WorkIsNoticed',
           pc[t] \notin Completing, t \notin finished' \cup doneWork',
           finished' \subseteq finished, doneWork' \subseteq doneWork,
           \A u \in Threads \ {t} : pc'[u] = pc[u] /\ work'[u] = work[u],
           \A u \in Clients \ {t} : goal'[u] = goal[u],
           \A c \in Counts : count'[c] = 0 => count[c] = 0,
           \A s \in Signals : signal'[s] => signal[s]
    PROVE  WakeInv'
  <1>1. finished \cup doneWork \subseteq Clients
    BY Zenon DEF WakeInv, SleepInv
  <1>2. SleepInv'
    BY SleepKept, Zenon
  <1>3. ZeroIsTold'
    <2>1. /\ \A u \in finished' : goal'[u] = goal[u]
          /\ \A u \in Threads : pc[u] = "body_finished" => pc'[u] = "body_finished"
          /\ \A u \in Threads : pc[u] = "body_zero" =>
                pc'[u] = "body_zero" /\ work'[u] = work[u]
      BY <1>1, Zenon DEF Completing
    <2> QED
      BY <2>1, ZeroKept, Zenon
  <1>4. SignalIsTold'
    <2>1. /\ \A u \in doneWork' : goal'[u] = goal[u] /\ pc'[u] = pc[u]
          /\ \A u \in Threads : pc[u] \in Completing => pc'[u] \in Completing
      BY <1>1, Zenon
    <2> QED
      BY <2>1, SignalKept, Zenon
  <1> QED
    BY <1>2, <1>3, <1>4, Zenon DEF WakeInv
-------------------------------------------------------------------------------
\* Every action preserves WakeInv

\* A thread with nothing to tell goes on; nobody goes to sleep or wakes.
LEMMA QuietWake ==
    ASSUME IInv, WakeInv, NEW t \in Threads, NEW l, Goto(t, l),
           pc[t] \notin Completing \cup Notifying \cup {"wait_lock", "full_wait"},
           UNCHANGED condVars, stayAlive' => stayAlive, RingEmpty => RingEmpty',
           \A u \in Threads \ {t} : work'[u] = work[u],
           \A u \in Clients \ {t} : goal'[u] = goal[u],
           \A c \in Counts : count'[c] = 0 => count[c] = 0,
           \A s \in Signals : signal'[s] => signal[s]
    PROVE  WakeInv'
  <1>1. \A u \in Threads \ {t} : pc'[u] = pc[u]
    BY Zenon DEF IInv, TypeOK, Goto
  <1>2. \A u \in Clients \ {t} : pc'[u] = pc[u]
    BY <1>1, Zenon
  <1>3. t \notin finished \cup doneWork
    BY Zenon DEF WakeInv, SleepInv
  <1>4. WorkIsNoticed'
    BY <1>2, NoticeKept, Zenon DEF condVars
  <1> QED
    BY <1>1, <1>3, <1>4, AwakeStep, Zenon DEF condVars

\* A call begins.
LEMMA CallWake ==
    ASSUME NEW t \in Clients, IInv, WakeInv, Call(t)
    PROVE  WakeInv'
  <1> USE DEF MayCall, Completing, Notifying
  <1>1. ASSUME NEW i \in Items, Enqueue(t, i)
        PROVE  WakeInv'
    <2> USE <1>1 DEF Enqueue
    <2>1. \A c \in Counts : count'[c] = 0 => count[c] = 0
      BY DEF AddToCount, IInv, TypeOK
    <2> QED
      BY <2>1, QuietWake, Zenon DEF poolVars, ringVars, RingEmpty
  <1>2. ASSUME NEW slices \in Ranges, EnqueueRange(t, slices)
        PROVE  WakeInv'
    BY <1>2, QuietWake, Zenon DEF EnqueueRange, poolVars, ringVars, RingEmpty
  <1>3. ASSUME NEW g \in Signals \cup Counts, NEW l, BeginWait(t, g, l)
        PROVE  WakeInv'
    <2> USE <1>3 DEF BeginWait
    <2>1. \A u \in Clients \ {t} : goal'[u] = goal[u]
      BY Zenon DEF IInv, TypeOK
    <2> QED
      BY <2>1, QuietWake, Zenon DEF poolVars, ringVars, itemVars, RingEmpty
  <1>4. CASE DtorStop(t)
    BY <1>4, QuietWake, Zenon DEF DtorStop, ringVars, itemVars, callVars, RingEmpty
  <1> QED
    BY <1>1, <1>2, <1>3, <1>4, Zenon DEF Call, Wait, WaitAll

\* An item is stored, or the ring is full: the thread has a notification to give.
LEMMA StoreWake ==
    ASSUME NEW t \in Clients, IInv, WakeInv, StoreOrBlock(t),
           pc[t] \in {"enq_lock", "range_store", "full_relock"},
           UNCHANGED <<condVars, goal, stayAlive, count, work>>,
           \A s \in Signals : signal'[s] => signal[s]
    PROVE  WakeInv'
  <1>1. \A u \in Threads \ {t} : pc'[u] = pc[u]
    BY Zenon DEF IInv, TypeOK, StoreOrBlock, Goto
  <1>2. pc'[t] \in Notifying
    BY DEF IInv, TypeOK, StoreOrBlock, Goto, Notifying
  <1>3. \A u \in Clients \ {t} : pc'[u] = pc[u]
    BY <1>1, Zenon
  <1>4. t \notin finished \cup doneWork
    BY Zenon DEF WakeInv, SleepInv
  <1>5. WorkIsNoticed'
    BY <1>2, <1>3, NoticeKept, Zenon DEF condVars
  <1>6. pc[t] \notin Completing
    BY Zenon DEF Completing
  <1> QED
    BY <1>1, <1>4, <1>5, <1>6, AwakeStep, Zenon DEF condVars

\* The steps of enqueue and enqueue_range.
LEMMA EnqueueWake ==
    ASSUME NEW t \in Clients, IInv, WakeInv, EnqueueStep(t)
    PROVE  WakeInv'
  <1>0. \A u \in Threads \ {t} : \A l : Goto(t, l) => pc'[u] = pc[u]
    BY Zenon DEF IInv, TypeOK, Goto
  <1>1. ASSUME ClearSignal(Head(todo[t]))
        PROVE  \A s \in Signals : signal'[s] => signal[s]
    BY <1>1, Zenon DEF ClearSignal
  <1>2. CASE EnqueueSignal(t)
    BY <1>1, <1>2, QuietWake, Zenon
    DEF EnqueueSignal, poolVars, ringVars, callVars, RingEmpty, Completing, Notifying
  <1>3. CASE EnqueueStore(t)
    BY <1>3, StoreWake, Zenon DEF EnqueueStore
  <1>4. CASE EnqueueNotify(t)
    <2> USE <1>4 DEF EnqueueNotify
    <2>1. newWork' \subseteq newWork /\ WorkIsNoticed'
      <3>1. CASE bulk[t]
        BY <3>1, PoolAssumption, Zenon DEF WorkIsNoticed
      <3>2. CASE ~bulk[t]
        BY <3>2, NoticeGiven, Zenon
      <3> QED
        BY <3>1, <3>2, Zenon
    <2>2. t \notin finished \cup doneWork /\ pc[t] \notin Completing
      BY Zenon DEF WakeInv, SleepInv, Completing
    <2> QED
      BY <1>0, <2>1, <2>2, AwakeStep, Zenon DEF itemVars, callVars
  <1>5. CASE RangeLock(t)
    BY <1>5, QuietWake, Zenon
    DEF RangeLock, ringVars, itemVars, callVars, RingEmpty, Completing, Notifying
  <1>6. CASE RangeCount(t)
    <2> USE <1>6 DEF RangeCount
    <2>1. pc'[t] \in Notifying /\ \A u \in Clients \ {t} : pc'[u] = pc[u]
      BY Zenon DEF IInv, TypeOK, Goto, Notifying
    <2>2. WorkIsNoticed'
      BY <2>1, NoticeKept, Zenon DEF condVars, poolVars
    <2>3. \A c \in Counts : count'[c] = 0 => count[c] = 0
      BY DEF AddToCount, IInv, TypeOK
    <2>4. t \notin finished \cup doneWork /\ pc[t] \notin Completing
      BY Zenon DEF WakeInv, SleepInv, Completing
    <2> QED
      BY <1>0, <2>2, <2>3, <2>4, AwakeStep, Zenon DEF condVars, callVars
  <1>7. CASE RangeStore(t)
    BY <1>1, <1>7, StoreWake, Zenon DEF RangeStore
  <1>8. CASE FullWait(t)
    <2> USE <1>8 DEF FullWait
    <2>1. newWork' \subseteq newWork /\ WorkIsNoticed'
      BY NoticeGiven, Zenon
    <2>2. pc'[t] = "full_wait" /\ \A u \in Threads \ {t} : pc'[u] = pc[u]
      BY <1>0, Zenon DEF IInv, TypeOK, Goto
    <2>3. t \notin finished
      BY Zenon DEF WakeInv, SleepInv
    <2>4. SleepInv'
      BY <2>1, <2>2, <2>3, Zenon DEF WakeInv, SleepInv, callVars
    <2>5. \A u \in Threads : pc[u] \in Completing => pc'[u] = pc[u]
      BY <2>2, Zenon DEF Completing
    <2>6. ZeroIsTold'
      BY <2>5, ZeroKept, Zenon DEF Completing, itemVars, callVars
    <2>7. SignalIsTold'
      <3> SUFFICES ASSUME NEW v \in doneWork', pc'[v] = "wait_lock", signal'[goal'[v]]
                   PROVE  \E u \in Threads : pc'[u] \in Completing
        BY Zenon DEF SignalIsTold
      <3>1. v \in doneWork /\ pc[v] = "wait_lock" /\ signal[goal[v]]
        BY <2>2, Zenon DEF WakeInv, SleepInv, itemVars, callVars
      <3> QED
        BY <2>5, <3>1, Zenon DEF WakeInv, SignalIsTold
    <2> QED
      BY <2>1, <2>4, <2>6, <2>7, Zenon DEF WakeInv
  <1>9. CASE FullWake(t)
    <2> USE <1>9 DEF FullWake
    <2>1. WorkIsNoticed'
      <3>1. \A u \in Clients \ {t} : pc'[u] = pc[u]
        BY Zenon DEF IInv, TypeOK, Goto
      <3> QED
        BY <3>1, NoticeKept, Zenon DEF condVars, ringVars, RingEmpty, Notifying
    <2>2. t \notin finished \cup doneWork /\ pc[t] \notin Completing
      BY Zenon DEF WakeInv, SleepInv, Completing
    <2> QED
      BY <1>0, <2>1, <2>2, AwakeStep, Zenon DEF condVars, itemVars, callVars
  <1>10. CASE FullRelock(t)
    BY <1>10, StoreWake, Zenon DEF FullRelock
  <1> QED
    BY <1>2, <1>3, <1>4, <1>5, <1>6, <1>7, <1>8, <1>9, <1>10, Zenon DEF EnqueueStep

\* The steps of wait and hostWaitAll.
LEMMA WaitWake ==
    ASSUME NEW t \in Clients, IInv, WakeInv, WaitStep(t)
    PROVE  WakeInv'
  <1> USE DEF Completing, Notifying
  <1>0. \A u \in Threads \ {t} : \A l : Goto(t, l) => pc'[u] = pc[u]
    BY Zenon DEF IInv, TypeOK, Goto
  <1>1. CASE WaitTest(t)
    <2> USE <1>1 DEF WaitTest
    <2>1. /\ \E l : Goto(t, l)
          /\ \A u \in Clients \ {t} : goal'[u] = goal[u]
      BY Zenon DEF IInv, TypeOK, Return
    <2> QED
      BY <2>1, QuietWake, Zenon DEF poolVars, ringVars, itemVars, RingEmpty
  <1>2. CASE WaitLoop(t)
    BY <1>2, QuietWake, Zenon
    DEF WaitLoop, poolVars, ringVars, itemVars, callVars, RingEmpty
  <1>3. CASE TryGetWork(t)
    <2> USE <1>3 DEF TryGetWork
    <2>1. /\ \E l : Goto(t, l)
          /\ RingEmpty => RingEmpty'
          /\ \A u \in Threads \ {t} : work'[u] = work[u]
      BY Zenon DEF IInv, TypeOK, Take, ringVars, RingEmpty
    <2> QED
      BY <2>1, QuietWake, Zenon DEF callVars
  <1>4. CASE WaitBlocked(t) /\ Satisfied(goal[t])
    <2> USE <1>4 DEF WaitBlocked, Return
    <2>1. /\ \A u \in Clients \ {t} : goal'[u] = goal[u]
          /\ \A u \in Clients \ {t} : pc'[u] = pc[u]
      BY <1>0, Zenon DEF IInv, TypeOK
    <2>2. WorkIsNoticed'
      BY <2>1, NoticeKept, Zenon DEF poolVars, ringVars, RingEmpty
    <2> QED
      BY <1>0, <2>1, <2>2, AwakeStep, Zenon DEF itemVars
  <1>5. CASE WaitBlocked(t) /\ ~Satisfied(goal[t])
    <2> USE <1>5 DEF WaitBlocked
    <2>1. UNCHANGED <<newWork, pc, goal, signal, count, work, readIndex, writeIndex,
                      stayAlive>>
      BY Zenon DEF poolVars, ringVars, itemVars
    <2>2. goal[t] \in Signals \cup Counts
      BY Zenon DEF IInv, TypeOK, ControlInv, InWait
    <2>3. WorkIsNoticed'
      BY <2>1, Zenon DEF WakeInv, WorkIsNoticed, RingEmpty
    <2>4. CASE goal[t] \in Signals
      <3>1. doneWork' = doneWork \cup {t} /\ finished' = finished /\ ~signal[goal[t]]
        BY <2>4, Zenon DEF Satisfied
      <3>2. SleepInv' /\ ZeroIsTold'
        BY <2>1, <2>4, <3>1 DEF WakeInv, SleepInv, ZeroIsTold
      <3>3. SignalIsTold'
        BY <2>1, <3>1, Zenon DEF WakeInv, SignalIsTold
      <3> QED
        BY <2>3, <3>2, <3>3, Zenon DEF WakeInv
    <2>5. CASE goal[t] \notin Signals
      <3>1. finished' = finished \cup {t} /\ doneWork' = doneWork /\ count[goal[t]] # 0
        BY <2>5, Zenon DEF Satisfied
      <3>2. SleepInv' /\ SignalIsTold'
        BY <2>1, <2>2, <2>5, <3>1, Zenon DEF WakeInv, SleepInv, SignalIsTold
      <3>3. ZeroIsTold'
        BY <2>1, <3>1 DEF WakeInv, ZeroIsTold
      <3> QED
        BY <2>3, <3>2, <3>3, Zenon DEF WakeInv
    <2> QED
      BY <2>4, <2>5, Zenon
  <1> QED
    BY <1>1, <1>2, <1>3, <1>4, <1>5, Zenon DEF WaitStep

\* The steps of threadFuncBody: the thread tells what it has changed.
LEMMA BodyWake ==
    ASSUME NEW t \in Threads, IInv, WakeInv, BodyStep(t)
    PROVE  WakeInv'
  <1>0. ASSUME NEW l, Goto(t, l)
        PROVE  pc'[t] = l /\ \A u \in Threads \ {t} : pc'[u] = pc[u]
    BY <1>0, Zenon DEF IInv, TypeOK, Goto
  <1>1. CASE RunItem(t)
    BY <1>1, QuietWake, Zenon DEF RunItem, poolVars, ringVars, callVars, RingEmpty,
                           Completing, Notifying
  <1> SUFFICES ASSUME pc[t] \in Completing \cup {"body_lock"},
                      SetSignal(t) \/ DecrementCount(t) \/ TestZero(t)
                      \/ NotifyFinished(t) \/ NotifyDone(t)
               PROVE  WakeInv'
    BY <1>1, Zenon DEF BodyStep, Completing, SetSignal, DecrementCount, TestZero,
                NotifyFinished, NotifyDone
  <1>2. /\ UNCHANGED <<newWork, stayAlive, readIndex, writeIndex, goal>>
        /\ finished' \subseteq finished /\ doneWork' \subseteq doneWork
        /\ \E l : Goto(t, l)
    BY Zenon DEF SetSignal, DecrementCount, TestZero, NotifyFinished, NotifyDone,
           poolVars, ringVars, condVars, callVars
  <1>3. /\ \A u \in Threads \ {t} : pc'[u] = pc[u]
        /\ \A u \in Clients \ {t} : pc'[u] = pc[u]
    BY <1>0, <1>2, Zenon
  <1>4. t \notin finished \cup doneWork
    BY Zenon DEF WakeInv, SleepInv, Completing
  <1>5. SleepInv'
    BY <1>2, <1>3, <1>4, SleepKept, Zenon
  <1>6. WorkIsNoticed'
    BY <1>2, <1>3, NoticeKept, Zenon DEF RingEmpty, Completing, Notifying
  <1>7. \A u \in finished' \cup doneWork' : u # t /\ u \in Threads /\ pc'[u] = pc[u]
    BY <1>2, <1>3, <1>4, Zenon DEF WakeInv, SleepInv
  <1> SUFFICES ZeroIsTold' /\ SignalIsTold'
    BY <1>5, <1>6, Zenon DEF WakeInv
  <1>8. CASE SetSignal(t)
    <2> USE <1>8 DEF SetSignal
    <2>1. pc'[t] = "body_count"
      BY <1>0, Zenon
    <2>2. SignalIsTold'
      BY <2>1, Zenon DEF SignalIsTold, Completing
    <2>3. ZeroIsTold'
      BY <1>2, <1>3, ZeroKept, Zenon
    <2> QED
      BY <2>2, <2>3, Zenon
  <1>9. CASE DecrementCount(t)
    <2> USE <1>9 DEF DecrementCount
    <2>1. pc'[t] = "body_zero" /\ work' = work
      BY <1>0, Zenon
    <2>2. SignalIsTold'
      BY <2>1, Zenon DEF SignalIsTold, Completing
    <2>3. ASSUME NEW v \in finished', count'[goal'[v]] = 0
          PROVE  \E u \in Threads :
                    \/ pc'[u] = "body_finished"
                    \/ pc'[u] = "body_zero" /\ CountOf[work'[u]] = goal'[v]
      <3>1. v \in finished /\ goal'[v] = goal[v] /\ goal[v] \in Counts
        BY <1>2, Zenon DEF WakeInv, SleepInv
      <3>2. CASE goal[v] = CountOf[work[t]]
        BY <2>1, <3>1, <3>2, Zenon
      <3>3. CASE goal[v] # CountOf[work[t]]
        <4>1. count[goal[v]] = 0
          BY <2>3, <3>1, <3>3, Zenon DEF IInv, TypeOK
        <4>2. PICK u \in Threads : \/ pc[u] = "body_finished"
                                   \/ pc[u] = "body_zero" /\ CountOf[work[u]] = goal[v]
          BY <3>1, <4>1, Zenon DEF WakeInv, ZeroIsTold
        <4>3. u # t
          BY <4>2, Zenon
        <4> QED
          BY <1>3, <2>1, <3>1, <4>2, <4>3, Zenon
      <3> QED
        BY <3>2, <3>3, Zenon
    <2> QED
      BY <2>2, <2>3, Zenon DEF ZeroIsTold
  <1>10. CASE TestZero(t)
    <2> USE <1>10 DEF TestZero
    <2>1. /\ pc'[t] = IF count[CountOf[work[t]]] = 0 THEN "body_finished"
                                                    ELSE "body_done"
          /\ count' = count
          /\ \A u \in Threads \ {t} : work'[u] = work[u]
      BY <1>0, Zenon DEF itemVars, IInv, TypeOK
    <2>2. SignalIsTold'
      BY <2>1, Zenon DEF SignalIsTold, Completing
    <2>3. ASSUME NEW v \in finished', count'[goal'[v]] = 0
          PROVE  \E u \in Threads :
                    \/ pc'[u] = "body_finished"
                    \/ pc'[u] = "body_zero" /\ CountOf[work'[u]] = goal'[v]
      <3>1. v \in finished /\ goal'[v] = goal[v] /\ count[goal[v]] = 0
        BY <1>2, <2>1, <2>3, Zenon
      <3>2. PICK u \in Threads : \/ pc[u] = "body_finished"
                                 \/ pc[u] = "body_zero" /\ CountOf[work[u]] = goal[v]
        BY <3>1, Zenon DEF WakeInv, ZeroIsTold
      <3> QED
        BY <1>3, <2>1, <3>1, <3>2, Zenon
    <2> QED
      BY <2>2, <2>3, Zenon DEF ZeroIsTold
  <1>11. CASE NotifyFinished(t)
    <2> USE <1>11 DEF NotifyFinished
    <2>1. pc'[t] = "body_done"
      BY <1>0, Zenon
    <2>2. SignalIsTold'
      BY <2>1, Zenon DEF SignalIsTold, Completing
    <2> QED
      BY <2>2, Zenon DEF ZeroIsTold
  <1>12. CASE NotifyDone(t)
    <2> USE <1>12 DEF NotifyDone
    <2>1. SignalIsTold'
      BY Zenon DEF SignalIsTold
    <2>2. ZeroIsTold'
      BY <1>2, <1>3, ZeroKept, Zenon DEF itemVars
    <2> QED
      BY <2>1, <2>2, Zenon
  <1> QED
    BY <1>8, <1>9, <1>10, <1>11, <1>12, Zenon

\* The steps of getWork: a worker goes to sleep only when the ring is empty.
LEMMA WorkerWake ==
    ASSUME NEW t \in Workers, IInv, WakeInv, WorkerStep(t)
    PROVE  WakeInv'
  <1> USE DEF Completing, Notifying
  <1>1. CASE GetWorkCheck(t)
    BY <1>1, QuietWake, Zenon
    DEF GetWorkCheck, poolVars, ringVars, itemVars, callVars, RingEmpty
  <1>2. CASE GetWork(t) /\ RingEmpty /\ stayAlive
    <2> USE <1>2 DEF GetWork
    <2>1. /\ UNCHANGED <<readIndex, writeIndex, pc, work, goal, doneWork, finished,
                         signal, count>>
          /\ newWork' = newWork \cup {t}
      BY Zenon DEF ringVars, callVars
    <2>2. WorkIsNoticed' /\ SleepInv'
      BY <2>1, Zenon DEF WakeInv, SleepInv, WorkIsNoticed, RingEmpty
    <2>3. ZeroIsTold' /\ SignalIsTold'
      BY <2>1, Zenon DEF WakeInv, ZeroIsTold, SignalIsTold
    <2> QED
      BY <2>2, <2>3, Zenon DEF WakeInv
  <1>3. CASE GetWork(t) /\ ~(RingEmpty /\ stayAlive)
    <2> USE <1>3 DEF GetWork
    <2>1. /\ \E l : Goto(t, l)
          /\ RingEmpty => RingEmpty'
          /\ \A u \in Threads \ {t} : work'[u] = work[u]
      BY Zenon DEF IInv, TypeOK, Take, ringVars, RingEmpty
    <2> QED
      BY <2>1, QuietWake, Zenon DEF condVars, callVars
  <1> QED
    BY <1>1, <1>2, <1>3, Zenon DEF WorkerStep

\* Threads that only wake.
LEMMA OthersWake ==
    ASSUME NEW t \in Threads, IInv, WakeInv,
           SpuriousWake(t) \/ (t \in Clients /\ DtorStep(t))
    PROVE  WakeInv'
  <1> USE DEF Completing, Notifying
  <1>1. CASE t \in Clients /\ DtorJoin(t)
    BY <1>1, QuietWake, Zenon
    DEF DtorJoin, poolVars, ringVars, itemVars, callVars, RingEmpty
  <1>2. CASE t \in Clients /\ DtorNotify(t)
    <2> USE <1>2 DEF DtorNotify
    <2>1. \A u \in Threads \ {t} : pc'[u] = pc[u]
      BY Zenon DEF IInv, TypeOK, Goto
    <2>2. t \notin finished \cup doneWork
      BY Zenon DEF WakeInv, SleepInv
    <2>3. WorkIsNoticed'
      BY PoolAssumption, Zenon DEF WorkIsNoticed
    <2> QED
      BY <2>1, <2>2, <2>3, AwakeStep, Zenon DEF itemVars, callVars
  <1>3. CASE SpuriousWake(t)
    <2> USE <1>3 DEF SpuriousWake
    <2>1. /\ UNCHANGED <<readIndex, writeIndex, stayAlive, pc, work, goal, signal, count>>
          /\ newWork' \subseteq newWork /\ finished' \subseteq finished
          /\ doneWork' \subseteq doneWork
      BY Zenon DEF poolVars, ringVars, itemVars, callVars
    <2>2. WorkIsNoticed' /\ SleepInv'
      BY <2>1, Zenon DEF WakeInv, SleepInv, WorkIsNoticed, RingEmpty
    <2>3. ZeroIsTold' /\ SignalIsTold'
      BY <2>1 DEF WakeInv, ZeroIsTold, SignalIsTold
    <2> QED
      BY <2>2, <2>3, Zenon DEF WakeInv
  <1> QED
    BY <1>1, <1>2, <1>3, Zenon DEF DtorStep

-------------------------------------------------------------------------------
\* The theorems

\* The invariant of the wake-ups holds in every reachable state.
THEOREM WakeInvariance == Spec => []WakeInv
  <1>1. Init => WakeInv
    BY Zenon DEF Init, WakeInv, SleepInv, WorkIsNoticed, ZeroIsTold, SignalIsTold, RingEmpty
  <1>2. IInv /\ WakeInv /\ [Next]_vars => WakeInv'
    <2> SUFFICES ASSUME IInv, WakeInv, [Next]_vars PROVE WakeInv'
      BY Zenon
    <2>1. CASE UNCHANGED vars
      BY <2>1, Zenon
      DEF vars, poolVars, ringVars, lockVars, condVars, itemVars, callVars, WakeInv,
          SleepInv, WorkIsNoticed, ZeroIsTold, SignalIsTold, RingEmpty
    <2>2. CASE Next
      BY <2>1, <2>2, CallWake, EnqueueWake, WaitWake, BodyWake, WorkerWake, OthersWake, Zenon
      DEF Next, ClientStep, Terminated
    <2> QED
      BY <2>1, <2>2, Zenon
  <1> QED
    BY <1>1, <1>2, Invariance, PTL DEF Spec

\* The ring never holds an item that no worker will look for, however stores,
\* notifications of one thread, spurious wake-ups and full rings interleave.
THEOREM NoStrandedWork == Spec => []WorkIsNoticed
  <1>1. WakeInv => WorkIsNoticed
    BY Zenon DEF WakeInv
  <1> QED
    BY <1>1, WakeInvariance, PTL

\* No client sleeps on done_work or finished although what it waits for has
\* happened and nobody is about to say so.
THEOREM NoLostWakeup == Spec => []WaiterIsWoken
  <1>1. WakeInv => WaiterIsWoken
    <2> SUFFICES ASSUME WakeInv, NEW t \in Clients, pc[t] = "wait_lock",
                        Satisfied(goal[t])
                 PROVE  /\ t \in finished => \E u \in Threads :
                              pc[u] \in {"body_zero", "body_finished"}
                        /\ t \in doneWork => \E u \in Threads : pc[u] \in Completing
      BY Zenon DEF WaiterIsWoken
    <2>1. ASSUME t \in finished
          PROVE  \E u \in Threads : pc[u] \in {"body_zero", "body_finished"}
      <3>1. goal[t] \in Counts /\ goal[t] \notin Signals
        BY <2>1, PoolAssumption, Zenon DEF WakeInv, SleepInv
      <3> QED
        BY <2>1, <3>1, Zenon DEF WakeInv, SleepInv, ZeroIsTold, Satisfied
    <2>2. ASSUME t \in doneWork
          PROVE  \E u \in Threads : pc[u] \in Completing
      BY <2>2, Zenon DEF WakeInv, SleepInv, SignalIsTold, Satisfied
    <2> QED
      BY <2>1, <2>2, Zenon
  <1> QED
    BY <1>1, WakeInvariance, PTL

-------------------------------------------------------------------------------
\* The ring as a sequence

HIDE DEF Settled

\* An index that passes the end of the ring wraps once.
LEMMA Wraps ==
    ASSUME NEW a \in Nat, a < 2 * QueueMax
    PROVE  a % QueueMax = IF a < QueueMax THEN a ELSE a - QueueMax
  <1>1. QueueMax \in Nat /\ QueueMax > 1
    BY PoolAssumption
  <1>2. CASE a < QueueMax
    BY <1>1, <1>2
  <1>3. CASE a >= QueueMax
    <2> DEFINE b == a - QueueMax
    <2>1. b \in Nat /\ b < QueueMax /\ a = b + QueueMax
      BY <1>1, <1>3
    <2>2. (b + QueueMax) % QueueMax = b % QueueMax
      BY <1>1, <2>1
    <2> QED
      BY <1>1, <1>3, <2>1, <2>2
  <1> QED
    BY <1>1, <1>2, <1>3

\* The number of items between the two indices.
LEMMA OccupiedIs ==
    ASSUME readIndex \in Indices, writeIndex \in Indices
    PROVE  /\ Occupied = IF readIndex <= writeIndex THEN writeIndex - readIndex
                         ELSE writeIndex + QueueMax - readIndex
           /\ Occupied \in 0..(QueueMax - 1)
  <1>1. QueueMax \in Nat /\ QueueMax > 1
    BY PoolAssumption
  <1>2. /\ readIndex \in Nat /\ writeIndex \in Nat
        /\ readIndex < QueueMax /\ writeIndex < QueueMax
    BY <1>1 DEF Indices
  <1>3. /\ writeIndex + QueueMax - readIndex \in Nat
        /\ writeIndex + QueueMax - readIndex < 2 * QueueMax
    BY <1>1, <1>2
  <1> QED
    BY <1>1, <1>2, <1>3, Wraps DEF Occupied

\* The k-th item of the queue.
LEMMA PendingAt ==
    ASSUME readIndex \in Indices, writeIndex \in Indices, NEW k \in 1..Occupied
    PROVE  /\ (readIndex + k - 1) % QueueMax =
                 IF readIndex + k - 1 < QueueMax THEN readIndex + k - 1
                 ELSE readIndex + k - 1 - QueueMax
           /\ (readIndex + k - 1) % QueueMax \in Indices
  <1>1. QueueMax \in Nat /\ QueueMax > 1
    BY PoolAssumption
  <1>2. readIndex \in Nat /\ readIndex < QueueMax
    BY <1>1 DEF Indices
  <1>3. Occupied \in Nat /\ Occupied < QueueMax
    BY <1>1, OccupiedIs
  <1> DEFINE a == readIndex + k - 1
  <1>4. a \in Nat /\ a < 2 * QueueMax
    BY <1>1, <1>2, <1>3
  <1>5. a % QueueMax = IF a < QueueMax THEN a ELSE a - QueueMax
    <2> HIDE DEF a
    <2> QED
      BY <1>4, Wraps, Zenon
  <1> QED
    BY <1>1, <1>2, <1>4, <1>5 DEF Indices

\* The abstract queue is a sequence as long as the ring is full.
LEMMA PendingSeq ==
    ASSUME TypeOK
    PROVE  /\ Pending \in Seq(Items \cup {NoItem})
           /\ Len(Pending) = Occupied
           /\ \A k \in 1..Occupied : Pending[k] = queue[(readIndex + k - 1) % QueueMax]
  <1>1. readIndex \in Indices /\ writeIndex \in Indices
    BY Zenon DEF TypeOK
  <1>2. Occupied \in Nat
    BY <1>1, OccupiedIs
  <1>3. ASSUME NEW k \in 1..Occupied
        PROVE  queue[(readIndex + k - 1) % QueueMax] \in Items \cup {NoItem}
    BY <1>1, PendingAt, Zenon DEF TypeOK
  <1>4. Pending \in [1..Occupied -> Items \cup {NoItem}]
    BY <1>3, Zenon DEF Pending
  <1> QED
    BY <1>2, <1>4 DEF Pending

\* Storing at the write index appends.
LEMMA StoreAppends ==
    ASSUME TypeOK, TypeOK', ~RingFull, NEW i \in Items,
           queue' = [queue EXCEPT ![writeIndex] = i],
           writeIndex' = NextIndex(writeIndex), readIndex' = readIndex
    PROVE  Len(Pending) < QueueMax - 1 /\ Pending' = Append(Pending, i)
  <1>0. QueueMax \in Nat /\ QueueMax > 1
    BY PoolAssumption
  <1>1. /\ readIndex \in Indices /\ writeIndex \in Indices
        /\ readIndex' \in Indices /\ writeIndex' \in Indices
    BY Zenon DEF TypeOK
  <1>2. writeIndex' = IF writeIndex + 1 = QueueMax THEN 0 ELSE writeIndex + 1
    BY <1>1, NextIndexWraps, Zenon
  <1>3. /\ Occupied = IF readIndex <= writeIndex THEN writeIndex - readIndex
                      ELSE writeIndex + QueueMax - readIndex
        /\ Occupied \in Nat
    BY <1>1, OccupiedIs
  <1>4. Occupied' = IF readIndex' <= writeIndex' THEN writeIndex' - readIndex'
                    ELSE writeIndex' + QueueMax - readIndex'
    <2>1. writeIndex' + QueueMax - readIndex' \in Nat
          /\ writeIndex' + QueueMax - readIndex' < 2 * QueueMax
      BY <1>0, <1>1 DEF Indices
    <2>2. Occupied' = (writeIndex' + QueueMax - readIndex') % QueueMax
      BY Zenon DEF Occupied
    <2> DEFINE a == writeIndex' + QueueMax - readIndex'
    <2>3. a % QueueMax = IF a < QueueMax THEN a ELSE a - QueueMax
      <3>1. a \in Nat /\ a < 2 * QueueMax
        BY <2>1, Zenon
      <3> HIDE DEF a
      <3> QED
        BY <3>1, Wraps, Zenon
    <2> QED
      BY <1>0, <1>1, <2>1, <2>2, <2>3 DEF Indices
  <1>5. Occupied' = Occupied + 1 /\ Occupied < QueueMax - 1
    BY <1>0, <1>1, <1>2, <1>3, <1>4 DEF RingFull, Indices
  <1>6. ASSUME NEW k \in 1..(Occupied + 1)
        PROVE  queue'[(readIndex + k - 1) % QueueMax] =
                  IF k = Occupied + 1 THEN i ELSE queue[(readIndex + k - 1) % QueueMax]
    <2> DEFINE a == readIndex + k - 1
    <2>1. a \in Nat /\ a < 2 * QueueMax
      BY <1>0, <1>1, <1>3, <1>5 DEF Indices
    <2>2. a % QueueMax = IF a < QueueMax THEN a ELSE a - QueueMax
      <3> HIDE DEF a
      <3> QED
        BY <2>1, Wraps, Zenon
    <2>3. a % QueueMax \in Indices
      BY <1>0, <2>1, <2>2 DEF Indices
    <2>4. a % QueueMax = writeIndex <=> k = Occupied + 1
      BY <1>0, <1>1, <1>3, <1>5, <2>2 DEF Indices
    <2> HIDE DEF a
    <2>5. queue'[a % QueueMax] = IF a % QueueMax = writeIndex THEN i
                                 ELSE queue[a % QueueMax]
      BY <2>3, Zenon DEF TypeOK
    <2> QED
      BY <2>4, <2>5, Zenon DEF a
  <1>7. /\ Pending \in Seq(Items \cup {NoItem}) /\ Len(Pending) = Occupied
        /\ \A k \in 1..Occupied : Pending[k] = queue[(readIndex + k - 1) % QueueMax]
    BY PendingSeq, Zenon
  <1>8. Pending' = [k \in 1..(Occupied + 1) |-> queue'[(readIndex + k - 1) % QueueMax]]
    BY <1>5 DEF Pending
  <1>9. ASSUME NEW k \in 1..(Occupied + 1)
        PROVE  queue'[(readIndex + k - 1) % QueueMax] =
                  IF k = Occupied + 1 THEN i ELSE Pending[k]
    <2>1. k # Occupied + 1 => k \in 1..Occupied
      BY <1>3
    <2> QED
      BY <1>6, <1>7, <2>1, Zenon
  <1> DEFINE S == Items \cup {NoItem}
             A == Append(Pending, i)
  <1>10. /\ A \in Seq(S) /\ Len(A) = Occupied + 1
         /\ \A k \in 1..Occupied : A[k] = Pending[k]
         /\ A[Occupied + 1] = i
    BY <1>7, AppendProperties
  <1>11. ASSUME NEW k \in 1..(Occupied + 1)
         PROVE  Pending'[k] = A[k] /\ A[k] \in S
    <2>1. A[k] \in S
      BY <1>10, ElementOfSeq, Zenon
    <2>2. Pending'[k] = IF k = Occupied + 1 THEN i ELSE Pending[k]
      BY <1>8, <1>9, Zenon
    <2> QED
      BY <1>3, <1>10, <2>1, <2>2
  <1>12. Pending' \in [1..(Occupied + 1) -> S]
    BY <1>8, <1>11, Zenon
  <1>13. Pending' \in Seq(S) /\ Len(Pending') = Occupied + 1
    BY <1>3, <1>12
  <1>14. Pending' = A
    <2> HIDE DEF A, S
    <2> QED
      BY <1>10, <1>11, <1>13, SeqEqual, Zenon
  <1> QED
    BY <1>5, <1>7, <1>14, Zenon

\* Taking from the read index removes the head.
LEMMA TakeRemoves ==
    ASSUME TypeOK, TypeOK', ~RingEmpty, readIndex' = NextIndex(readIndex),
           UNCHANGED <<queue, writeIndex>>
    PROVE  /\ Pending # << >> /\ Head(Pending) = queue[readIndex]
           /\ Pending' = Tail(Pending)
  <1>0. QueueMax \in Nat /\ QueueMax > 1
    BY PoolAssumption
  <1>1. /\ readIndex \in Indices /\ writeIndex \in Indices
        /\ readIndex' \in Indices /\ writeIndex' = writeIndex
    BY Zenon DEF TypeOK
  <1>2. readIndex' = IF readIndex + 1 = QueueMax THEN 0 ELSE readIndex + 1
    BY <1>1, NextIndexWraps, Zenon
  <1>3. /\ Occupied = IF readIndex <= writeIndex THEN writeIndex - readIndex
                      ELSE writeIndex + QueueMax - readIndex
        /\ Occupied \in 0..(QueueMax - 1)
    BY <1>1, OccupiedIs, Zenon
  <1>4. Occupied' = IF readIndex' <= writeIndex THEN writeIndex - readIndex'
                    ELSE writeIndex + QueueMax - readIndex'
    <2> DEFINE a == writeIndex + QueueMax - readIndex'
    <2>1. a \in Nat /\ a < 2 * QueueMax
      BY <1>0, <1>1 DEF Indices
    <2>2. a % QueueMax = IF a < QueueMax THEN a ELSE a - QueueMax
      <3> HIDE DEF a
      <3> QED
        BY <2>1, Wraps, Zenon
    <2>3. Occupied' = a % QueueMax
      BY <1>1, Zenon DEF Occupied
    <2> QED
      BY <1>0, <1>1, <2>2, <2>3 DEF Indices
  <1>5. Occupied' = Occupied - 1 /\ Occupied > 0
    BY <1>0, <1>1, <1>2, <1>3, <1>4 DEF RingEmpty, Indices
  <1>6. ASSUME NEW k \in 1..(Occupied - 1)
        PROVE  (readIndex' + k - 1) % QueueMax = (readIndex + (k + 1) - 1) % QueueMax
    <2> DEFINE a == readIndex' + k - 1
               b == readIndex + (k + 1) - 1
    <2>1. a \in Nat /\ a < 2 * QueueMax /\ b \in Nat /\ b < 2 * QueueMax
      BY <1>0, <1>1, <1>3 DEF Indices
    <2>2. /\ a % QueueMax = IF a < QueueMax THEN a ELSE a - QueueMax
          /\ b % QueueMax = IF b < QueueMax THEN b ELSE b - QueueMax
      <3> HIDE DEF a, b
      <3> QED
        BY <2>1, Wraps, Zenon
    <2>3. (IF a < QueueMax THEN a ELSE a - QueueMax) =
          (IF b < QueueMax THEN b ELSE b - QueueMax)
      BY <1>0, <1>1, <1>2, <1>3 DEF Indices
    <2> QED
      BY <2>2, <2>3, Zenon
  <1>7. /\ Pending \in Seq(Items \cup {NoItem}) /\ Len(Pending) = Occupied
        /\ \A k \in 1..Occupied : Pending[k] = queue[(readIndex + k - 1) % QueueMax]
    BY PendingSeq, Zenon
  <1>8. Pending' = [k \in 1..(Occupied - 1) |-> queue[(readIndex' + k - 1) % QueueMax]]
    BY <1>5, Zenon DEF Pending
  <1>9. Pending # << >> /\ Head(Pending) = queue[readIndex]
    <2>1. 1 \in 1..Occupied
      BY <1>3, <1>5
    <2>2. Pending[1] = queue[(readIndex + 1 - 1) % QueueMax]
      BY <1>7, <2>1, Zenon
    <2>3. (readIndex + 1 - 1) % QueueMax = readIndex
      BY <1>0, <1>1, <2>1, PendingAt DEF Indices
    <2> QED
      BY <1>3, <1>5, <1>7, <2>2, <2>3
  <1> DEFINE S == Items \cup {NoItem}
             A == Tail(Pending)
  <1>10. /\ A \in Seq(S) /\ Len(A) = Occupied - 1
         /\ \A k \in 1..(Occupied - 1) : A[k] = Pending[k + 1]
    BY <1>7, <1>9, HeadTailProperties
  <1>11. ASSUME NEW k \in 1..(Occupied - 1)
         PROVE  Pending'[k] = A[k] /\ A[k] \in S
    <2>1. k + 1 \in 1..Occupied
      BY <1>3
    <2>2. Pending[k + 1] = queue[(readIndex + (k + 1) - 1) % QueueMax]
      BY <1>7, <2>1, Zenon
    <2>3. Pending'[k] = queue[(readIndex' + k - 1) % QueueMax]
      BY <1>8, Zenon
    <2>4. A[k] \in S
      BY <1>10, ElementOfSeq, Zenon
    <2> QED
      BY <1>6, <1>10, <2>2, <2>3, <2>4, Zenon
  <1>12. Pending' \in [1..(Occupied - 1) -> S]
    BY <1>8, <1>11, Zenon
  <1>13. Pending' \in Seq(S) /\ Len(Pending') = Occupied - 1
    BY <1>3, <1>5, <1>12
  <1>14. Pending' = A
    <2> HIDE DEF A, S
    <2> QED
      BY <1>10, <1>11, <1>13, SeqEqual, Zenon
  <1> QED
    BY <1>9, <1>14, Zenon

-------------------------------------------------------------------------------
\* The steps

\* Nobody is inside a call once the destructor has stopped the pool.
AliveInv ==
    stayAlive \/ \E c \in Clients : pc[c] \in DtorLabels
                 /\ \A d \in Clients : pc[d] \in DtorLabels \cup {"idle"}

\* Calls begin while the pool is alive, and the destructor when nobody is in one.
LEMMA AliveNext ==
    ASSUME IInv, AliveInv, Next
    PROVE  AliveInv'
  <1> USE DEF AliveInv
  <1>1. CASE stayAlive' = stayAlive /\ stayAlive
    BY <1>1, Zenon
  <1>2. CASE stayAlive' # stayAlive
    <2>1. PICK t \in Clients : DtorStop(t)
      BY <1>2, Zenon DEF Next, Call, ClientStep, EnqueueStep, WaitStep, BodyStep, DtorStep,
        WorkerStep, Enqueue, EnqueueRange, Wait, WaitAll, BeginWait, EnqueueSignal,
        EnqueueStore, EnqueueNotify, RangeLock, RangeCount, RangeStore, FullWait,
        FullWake, FullRelock, WaitTest, WaitLoop, TryGetWork, WaitBlocked, RunItem,
        SetSignal, DecrementCount, TestZero, NotifyFinished, NotifyDone, GetWorkCheck,
        GetWork, DtorNotify, DtorJoin, SpuriousWake, Terminated, vars, poolVars
    <2> QED
      BY <2>1, Zenon DEF DtorStop, Goto, DtorLabels, IInv, TypeOK
  <1>3. CASE stayAlive' = stayAlive /\ ~stayAlive
    <2>1. PICK c \in Clients : pc[c] \in DtorLabels
      BY <1>3, Zenon
    <2>2. \A d \in Clients : pc[d] \in DtorLabels \cup {"idle"} /\ ~MayCall(d)
      BY <1>3, <2>1, Zenon DEF MayCall
    <2>3. ASSUME NEW d \in Clients
          PROVE  pc'[d] = pc[d] \/ (pc[d] \in DtorLabels /\ pc'[d] \in DtorLabels)
      <3>1. ASSUME NEW t \in Clients, Call(t) PROVE FALSE
        BY <2>2, <3>1, Zenon DEF Call, Enqueue, EnqueueRange, Wait, WaitAll, BeginWait, DtorStop
      <3>2. ASSUME NEW t \in Clients, EnqueueStep(t) \/ WaitStep(t) PROVE FALSE
        BY <2>2, <3>2, Zenon DEF DtorLabels, EnqueueStep, WaitStep, EnqueueSignal,
          EnqueueStore, EnqueueNotify, RangeLock, RangeCount, RangeStore, FullWait,
          FullWake, FullRelock, WaitTest, WaitLoop, TryGetWork, WaitBlocked
      <3>3. ASSUME NEW t \in Threads, BodyStep(t) PROVE t \in Workers
        BY <2>2, <3>3, Zenon DEF DtorLabels, BodyStep, RunItem, SetSignal, DecrementCount,
          TestZero, NotifyFinished, NotifyDone
      <3>4. ASSUME NEW t \in Workers, WorkerStep(t) \/ BodyStep(t)
            PROVE  pc'[d] = pc[d]
        <4>1. t # d
          BY PoolAssumption, Zenon
        <4>2. pc' = pc \/ \E l : Goto(t, l)
          BY <3>4, Zenon DEF BodyStep, RunItem, SetSignal, DecrementCount, TestZero,
            NotifyFinished, NotifyDone, WorkerStep, GetWorkCheck, GetWork, Take
        <4> QED
          BY <4>1, <4>2, Zenon DEF Goto, IInv, TypeOK
      <3>5. ASSUME NEW t \in Clients, DtorStep(t)
            PROVE  pc'[d] = pc[d] \/ (pc[d] \in DtorLabels /\ pc'[d] \in DtorLabels)
        BY <3>5, Zenon DEF DtorStep, DtorNotify, DtorJoin, Goto, DtorLabels, IInv, TypeOK
      <3>6. ASSUME NEW t \in Threads, SpuriousWake(t) PROVE pc' = pc
        BY <3>6, Zenon DEF SpuriousWake
      <3> QED
        BY <3>1, <3>2, <3>3, <3>4, <3>5, <3>6, PoolAssumption, Zenon
        DEF Next, ClientStep, Terminated, vars
    <2> QED
      BY <2>1, <2>2, <2>3, Zenon
  <1> QED
    BY <1>1, <1>2, <1>3, Zenon

Stage == [i \in Items |-> StageOf(i)]

\* Steps that leave the ring, the stages and stayAlive alone are invisible.
LEMMA Invisible ==
    ASSUME UNCHANGED ringVars, stayAlive' = stayAlive, Stage' = Stage
    PROVE  UNCHANGED Abstract!vars
  <1>1. Pending' = Pending
    BY Zenon DEF ringVars, Pending, Occupied
  <1> QED
    BY <1>1, Zenon DEF Abstract!vars, Stage

\* An item moves on inside a stage ...
LEMMA SameStage ==
    ASSUME IInv, NEW i \in Items, NEW v, status' = [status EXCEPT ![i] = v],
           \/ status[i] = "called" /\ v = "counted"
           \/ status[i] = "running" /\ v = "ran"
           \/ status[i] = "ran" /\ v = "signalled"
    PROVE  Stage' = Stage
  BY Zenon DEF Stage, StageOf, IInv, TypeOK

\* ... or to the next one.
LEMMA NextStage ==
    ASSUME IInv, NEW i \in Items, NEW v \in {"queued", "running", "done"},
           status' = [status EXCEPT ![i] = v]
    PROVE  Stage' = [Stage EXCEPT ![i] = v]
  BY Zenon DEF Stage, StageOf, IInv, TypeOK

\* Storing an item pushes it; blocking on a full ring is invisible.
LEMMA StorePushes ==
    ASSUME NEW t \in Clients, IInv, TypeOK', pc[t] \in AwaitsStore, StoreOrBlock(t),
           stayAlive' = stayAlive
    PROVE  Abstract!Next \/ UNCHANGED Abstract!vars
  <1> DEFINE i == Head(todo[t])
  <1>1. i \in Items /\ status[i] = "counted"
    BY FirstItem, Zenon
  <1>2. CASE RingFull
    <2>1. UNCHANGED ringVars /\ status' = status
      BY <1>2, Zenon DEF StoreOrBlock
    <2>2. Stage' = Stage
      BY <2>1, Zenon DEF Stage, StageOf
    <2> QED
      BY <2>1, <2>2, Invisible, Zenon
  <1>3. CASE ~RingFull
    <2>1. /\ queue' = [queue EXCEPT ![writeIndex] = i]
          /\ writeIndex' = NextIndex(writeIndex) /\ readIndex' = readIndex
          /\ status' = [status EXCEPT ![i] = "queued"]
      BY <1>3, Zenon DEF StoreOrBlock
    <2> HIDE DEF i
    <2>2. Len(Pending) < QueueMax - 1 /\ Pending' = Append(Pending, i)
      BY <1>1, <1>3, <2>1, StoreAppends, Zenon DEF IInv
    <2>3. Stage' = [Stage EXCEPT ![i] = "queued"]
      BY <1>1, <2>1, NextStage, Zenon
    <2>4. Stage[i] = "submitted"
      BY <1>1, Zenon DEF Stage, StageOf
    <2>5. Abstract!Push(i)
      BY <2>2, <2>3, <2>4, Zenon DEF Abstract!Push, Stage
    <2> QED
      BY <1>1, <2>5, Zenon DEF Abstract!Next
  <1> QED
    BY <1>2, <1>3, Zenon

\* Taking an item starts the oldest one.
LEMMA TakeStarts ==
    ASSUME NEW t \in Threads, IInv, TypeOK', stayAlive, ~RingEmpty, Take(t),
           UNCHANGED <<queue, writeIndex, stayAlive>>
    PROVE  Abstract!Next
  <1>1. readIndex' = NextIndex(readIndex)
        /\ status' = [status EXCEPT ![queue[readIndex]] = "running"]
    BY Zenon DEF Take
  <1>2. /\ Pending # << >> /\ Head(Pending) = queue[readIndex]
        /\ Pending' = Tail(Pending)
    BY <1>1, TakeRemoves, Zenon DEF IInv
  <1>3. queue[readIndex] \in Items
    <2>1. readIndex \in Window
      BY PoolAssumption DEF IInv, TypeOK, Window, RingEmpty, Indices
    <2> QED
      BY <2>1, Zenon DEF IInv, RingHoldsQueued
  <1>4. Stage' = [Stage EXCEPT ![queue[readIndex]] = "running"]
    BY <1>1, <1>3, NextStage, Zenon
  <1>5. Abstract!Start
    BY <1>2, <1>4, Zenon DEF Abstract!Start, Stage
  <1> QED
    BY <1>5, Zenon DEF Abstract!Next

LEMMA CallMaps ==
    ASSUME NEW t \in Clients, IInv, Call(t)
    PROVE  Abstract!Next \/ UNCHANGED Abstract!vars
  <1>1. ASSUME NEW i \in Items, Enqueue(t, i)
        PROVE  Abstract!Next
    <2>1. /\ Stage[i] = "new" /\ UNCHANGED <<ringVars, stayAlive>>
          /\ status' = [status EXCEPT ![i] = "counted"]
      BY <1>1, Zenon DEF Enqueue, AddToCount, Stage, StageOf, poolVars
    <2>2. Stage' = [j \in Items |-> IF j \in {i} THEN "submitted" ELSE Stage[j]]
      BY <2>1, Zenon DEF Stage, StageOf, IInv, TypeOK
    <2>3. Pending' = Pending
      BY <2>1, Zenon DEF Pending, Occupied, ringVars
    <2>4. Abstract!Submit({i})
      BY <2>1, <2>2, <2>3, Zenon DEF Abstract!Submit, Stage
    <2> QED
      BY <2>4, Zenon DEF Abstract!Next
  <1>2. ASSUME NEW r \in Ranges, EnqueueRange(t, r)
        PROVE  Abstract!Next
    <2> DEFINE batch == {j \in Items : \E k \in DOMAIN r : r[k] = j}
    <2>1. /\ \A j \in batch : status[j] = "new"
          /\ UNCHANGED <<ringVars, stayAlive>>
          /\ status' = [j \in Items |-> IF j \in batch THEN "called" ELSE status[j]]
      BY <1>2, Zenon DEF EnqueueRange, poolVars
    <2> HIDE DEF batch
    <2>2. Stage' = [j \in Items |-> IF j \in batch THEN "submitted" ELSE Stage[j]]
      BY <2>1, Zenon DEF Stage, StageOf, IInv, TypeOK
    <2>3. batch \in SUBSET Items /\ \A j \in batch : Stage[j] = "new"
      BY <2>1, Zenon DEF batch, Stage, StageOf
    <2>4. Pending' = Pending
      BY <2>1, Zenon DEF Pending, Occupied, ringVars
    <2>5. Abstract!Submit(batch)
      BY <2>1, <2>2, <2>3, <2>4, Zenon DEF Abstract!Submit, Stage
    <2> QED
      BY <2>3, <2>5, Zenon DEF Abstract!Next
  <1>3. CASE DtorStop(t)
    <2>1. stayAlive' = FALSE /\ Pending' = Pending /\ Stage' = Stage
      BY <1>3, Zenon DEF DtorStop, Pending, Occupied, ringVars, itemVars, Stage, StageOf
    <2> QED
      BY <2>1, Zenon DEF Abstract!Close, Abstract!Next, Stage
  <1>4. ASSUME NEW g, NEW label, BeginWait(t, g, label)
        PROVE  UNCHANGED Abstract!vars
    <2>1. UNCHANGED <<ringVars, stayAlive>> /\ Stage' = Stage
      BY <1>4, Zenon DEF BeginWait, poolVars, itemVars, Stage, StageOf
    <2> QED
      BY <2>1, Invisible, Zenon
  <1> QED
    BY <1>1, <1>2, <1>3, <1>4, Zenon DEF Call, Wait, WaitAll

LEMMA EnqueueMaps ==
    ASSUME NEW t \in Clients, IInv, TypeOK', EnqueueStep(t)
    PROVE  Abstract!Next \/ UNCHANGED Abstract!vars
  <1>1. CASE EnqueueStore(t) \/ RangeStore(t) \/ FullRelock(t)
    <2>1. StoreOrBlock(t) /\ stayAlive' = stayAlive /\ pc[t] \in AwaitsStore
      BY <1>1, Zenon DEF EnqueueStore, RangeStore, FullRelock, AwaitsStore, AwaitsSpace
    <2> QED
      BY <2>1, StorePushes, Zenon
  <1>2. CASE RangeCount(t)
    <2> DEFINE i == Head(todo[t])
    <2>1. UNCHANGED <<ringVars, stayAlive>> /\ status' = [status EXCEPT ![i] = "counted"]
      BY <1>2, Zenon DEF RangeCount, AddToCount, poolVars
    <2>2. todo[t] \in Seq(Items) /\ todo[t] # << >>
      BY <1>2, Zenon DEF RangeCount, IInv, TypeOK, ControlInv, InRange
    <2>3. i \in Items /\ 1 \in 1..Len(todo[t]) /\ i = todo[t][1]
      BY <2>2
    <2>4. status[i] = "called"
      BY <1>2, <2>3 DEF RangeCount, IInv, TodoInv, AwaitsStore, AwaitsSpace
    <2> HIDE DEF i
    <2>5. Stage' = Stage
      BY <2>1, <2>3, <2>4, SameStage, Zenon
    <2> QED
      BY <2>1, <2>5, Invisible, Zenon
  <1>3. CASE EnqueueSignal(t) \/ EnqueueNotify(t) \/ RangeLock(t) \/ FullWait(t) \/ FullWake(t)
    <2>1. UNCHANGED <<ringVars, stayAlive, status>>
      BY <1>3, Zenon DEF EnqueueSignal, EnqueueNotify, RangeLock, FullWait, FullWake, poolVars,
        itemVars
    <2>2. Stage' = Stage
      BY <2>1, Zenon DEF Stage, StageOf
    <2> QED
      BY <2>1, <2>2, Invisible, Zenon
  <1> QED
    BY <1>1, <1>2, <1>3, Zenon DEF EnqueueStep

\* Helping in wait takes an item while the pool is alive.
LEMMA WaitMaps ==
    ASSUME NEW t \in Clients, IInv, TypeOK', AliveInv, WaitStep(t)
    PROVE  Abstract!Next \/ UNCHANGED Abstract!vars
  <1>1. CASE TryGetWork(t) /\ ~RingEmpty
    <2>1. stayAlive
      BY <1>1, Zenon DEF TryGetWork, AliveInv, DtorLabels
    <2>2. Take(t) /\ UNCHANGED <<queue, writeIndex, stayAlive>>
      BY <1>1, Zenon DEF TryGetWork
    <2> QED
      BY <1>1, <2>1, <2>2, TakeStarts, Zenon
  <1>2. CASE (TryGetWork(t) /\ RingEmpty) \/ WaitTest(t) \/ WaitLoop(t) \/ WaitBlocked(t)
    <2>1. UNCHANGED <<ringVars, stayAlive, status>>
      BY <1>2, Zenon DEF TryGetWork, WaitTest, WaitLoop, WaitBlocked, poolVars, itemVars
    <2>2. Stage' = Stage
      BY <2>1, Zenon DEF Stage, StageOf
    <2> QED
      BY <2>1, <2>2, Invisible, Zenon
  <1> QED
    BY <1>1, <1>2, Zenon DEF WaitStep

\* Decrementing the count finishes the item; the rest of the body is invisible.
LEMMA BodyMaps ==
    ASSUME NEW t \in Threads, IInv, BodyStep(t)
    PROVE  Abstract!Next \/ UNCHANGED Abstract!vars
  <1>1. ASSUME pc[t] \in {"run", "body_lock", "body_count"}
        PROVE  work[t] \in Items
    BY <1>1 DEF IInv, TypeOK, WorkInv, InItem
  <1>2. CASE DecrementCount(t)
    <2> DEFINE i == work[t]
    <2>1. i \in Items /\ status[i] = "signalled"
      BY <1>1, <1>2, Zenon DEF DecrementCount, IInv, WorkInv
    <2>2. UNCHANGED <<ringVars, stayAlive>> /\ status' = [status EXCEPT ![i] = "done"]
      BY <1>2, Zenon DEF DecrementCount, poolVars
    <2> HIDE DEF i
    <2>3. Stage' = [Stage EXCEPT ![i] = "done"] /\ Stage[i] = "running"
      BY <2>1, <2>2, NextStage, Zenon DEF Stage, StageOf
    <2>4. Pending' = Pending
      BY <2>2, Zenon DEF Pending, Occupied, ringVars
    <2>5. Abstract!Finish(i)
      BY <2>2, <2>3, <2>4, Zenon DEF Abstract!Finish, Stage
    <2> QED
      BY <2>1, <2>5, Zenon DEF Abstract!Next
  <1>3. CASE RunItem(t) \/ SetSignal(t)
    <2> DEFINE i == work[t]
               v == IF pc[t] = "run" THEN "ran" ELSE "signalled"
    <2>1. i \in Items
      BY <1>1, <1>3, Zenon DEF RunItem, SetSignal
    <2>2. /\ UNCHANGED <<ringVars, stayAlive>> /\ status' = [status EXCEPT ![i] = v]
          /\ \/ status[i] = "running" /\ v = "ran"
             \/ status[i] = "ran" /\ v = "signalled"
      <3>1. CASE RunItem(t)
        BY <3>1, Zenon DEF RunItem, poolVars, IInv, WorkInv
      <3>2. CASE SetSignal(t)
        BY <3>2, Zenon DEF SetSignal, IInv, WorkInv
      <3> QED
        BY <1>3, <3>1, <3>2, Zenon
    <2> HIDE DEF i, v
    <2>3. Stage' = Stage
      BY <2>1, <2>2, SameStage, Zenon
    <2> QED
      BY <2>2, <2>3, Invisible, Zenon
  <1>4. CASE TestZero(t) \/ NotifyFinished(t) \/ NotifyDone(t)
    <2>1. UNCHANGED <<ringVars, stayAlive, status>>
      BY <1>4, Zenon DEF TestZero, NotifyFinished, NotifyDone, poolVars, itemVars
    <2>2. Stage' = Stage
      BY <2>1, Zenon DEF Stage, StageOf
    <2> QED
      BY <2>1, <2>2, Invisible, Zenon
  <1> QED
    BY <1>2, <1>3, <1>4, Zenon DEF BodyStep

LEMMA RestMaps ==
    ASSUME IInv, TypeOK',
           \/ \E t \in Workers : WorkerStep(t)
           \/ \E t \in Clients : DtorStep(t)
           \/ \E t \in Threads : SpuriousWake(t)
           \/ UNCHANGED vars
    PROVE  Abstract!Next \/ UNCHANGED Abstract!vars
  <1>1. ASSUME NEW t \in Workers, GetWork(t), stayAlive, ~RingEmpty
        PROVE  Abstract!Next
    <2>1. Take(t) /\ UNCHANGED <<queue, writeIndex, stayAlive>>
      BY <1>1, Zenon DEF GetWork
    <2> QED
      BY <1>1, <2>1, TakeStarts, Zenon
  <1>2. ASSUME UNCHANGED <<ringVars, stayAlive, status>>
        PROVE  UNCHANGED Abstract!vars
    <2>1. Stage' = Stage
      BY <1>2, Zenon DEF Stage, StageOf
    <2> QED
      BY <1>2, <2>1, Invisible, Zenon
  <1>3. ASSUME NEW t \in Workers, GetWork(t), ~stayAlive \/ RingEmpty
        PROVE  UNCHANGED <<ringVars, stayAlive, status>>
    BY <1>3, Zenon DEF GetWork
  <1>4. ASSUME NEW t \in Threads, GetWorkCheck(t) \/ DtorStep(t) \/ SpuriousWake(t)
        PROVE  UNCHANGED <<ringVars, stayAlive, status>>
    BY <1>4, Zenon DEF GetWorkCheck, DtorStep, DtorNotify, DtorJoin, SpuriousWake, poolVars,
      itemVars
  <1>5. ASSUME UNCHANGED vars
        PROVE  UNCHANGED <<ringVars, stayAlive, status>>
    BY <1>5, Zenon DEF vars, poolVars, itemVars
  <1> QED
    BY <1>1, <1>2, <1>3, <1>4, <1>5, Zenon DEF WorkerStep

-------------------------------------------------------------------------------
\* thread_pool_s keeps the promise of WorkPool: with any number of threads, any
\* items and any ring, work starts in the order it was stored, each item once,
\* never more than the ring can hold is waiting, and none starts after the
\* destructor has cleared stayAlive.
THEOREM PoolIsWorkPool == Spec => ImplementsWorkPool
  <1>1. Init => AliveInv
    BY Zenon DEF Init, AliveInv
  <1>2. IInv /\ AliveInv /\ [Next]_vars => AliveInv'
    BY AliveNext, Zenon DEF AliveInv, vars, poolVars
  <1>3. Init => Abstract!Init
    <2> SUFFICES ASSUME Init PROVE Abstract!Init
      BY Zenon
    <2>1. Occupied = 0
      BY OccupiedIs, PoolAssumption DEF Init, Indices
    <2>2. Pending = << >>
      BY <2>1 DEF Pending
    <2> QED
      BY <2>2, Zenon DEF Abstract!Init, Init, StageOf
  <1>4. IInv /\ AliveInv /\ IInv' /\ [Next]_vars => [Abstract!Next]_(Abstract!vars)
    <2> SUFFICES ASSUME IInv, AliveInv, TypeOK', [Next]_vars
                 PROVE  Abstract!Next \/ UNCHANGED Abstract!vars
      BY Zenon DEF IInv
    <2> QED
      BY CallMaps, EnqueueMaps, WaitMaps, BodyMaps, RestMaps, Zenon
      DEF Next, ClientStep, Terminated
  <1> QED
    BY <1>1, <1>2, <1>3, <1>4, Invariance, PTL
    DEF Spec, ImplementsWorkPool, Abstract!Spec
===============================================================================
