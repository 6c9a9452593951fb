---------------------------- MODULE HostQueueProofs ----------------------------
(***************************************************************************)
(* The queue of the host target for any number of threads, groups,         *)
(* semaphores and fences: first what every step keeps (BaseInv), then the  *)
(* order in which the groups run and the counts kept for it (OrderInv).    *)
(***************************************************************************)
EXTENDS HostQueueOrder, FiniteSetTheorems, TLAPS

\* A new queue.
LEMMA InitBase == Init => BaseInv
  <1> SUFFICES ASSUME Init PROVE BaseInv
    BY Zenon
  <1>1. TypeOK
    BY QueueAssumption DEF Init, TypeOK, Labels, Threads
  <1>2. ControlInv
    BY QueueAssumption, Zenon DEF Init, ControlInv, Control, Locked, Running, Threads
  <1>3. RunsOnce /\ StageInv
    BY DEF Init, RunsOnce, StageInv, Placed
  <1>4. FenceInv
    BY QueueAssumption, Zenon DEF Init, FenceInv, Idle, Threads
  <1> QED
    BY <1>1, <1>2, <1>3, <1>4, Zenon DEF BaseInv

-------------------------------------------------------------------------------
\* What a step keeps

\* A step that moves no thread and no group.
LEMMA NoneMoves ==
    ASSUME BaseInv, TypeOK', FenceInv',
           UNCHANGED <<mutex, waitCount, pending, calls, enq, goal, pc, job, stage>>
    PROVE  BaseInv'
  <1>1. ControlInv'
    BY Zenon DEF BaseInv, ControlInv, Control
  <1>2. RunsOnce' /\ StageInv'
    BY DEF BaseInv, RunsOnce, StageInv, Placed
  <1> QED
    BY <1>1, <1>2, Zenon DEF BaseInv

\* One thread goes on, and no other loses its group.
LEMMA ThreadMoves ==
    ASSUME BaseInv, NEW t \in Threads, Control(t)', Placed(t)',
           \A u \in Threads \ {t} :
              /\ pc'[u] = pc[u] /\ job'[u] = job[u] /\ enq'[u] = enq[u]
              /\ calls'[u] = calls[u] /\ (mutex' = u <=> mutex = u)
              /\ job[u] # NoGroup /\ pc[u] # "decrement" => stage'[job[u]] = stage[job[u]],
           \A u \in Clients \ {t} : goal'[u] = goal[u],
           \A g \in Groups : waitCount'[g] # 0 => stage'[g] = "dispatched",
           \A u \in Threads : enq'[u] # NoGroup =>
              stage'[enq'[u]] = "dispatched" /\ waitCount'[enq'[u]] = 0
    PROVE  ControlInv' /\ StageInv'
  <1>1. ControlInv'
    BY DEF BaseInv, ControlInv, Control
  <1>2. ASSUME NEW u \in Threads \ {t} PROVE Placed(u)'
    BY DEF BaseInv, StageInv, Placed, Locked
  <1> QED
    BY <1>1, <1>2, Zenon DEF StageInv

\* The ring stays, and no thread gets a group.
LEMMA RingKept ==
    ASSUME BaseInv, pending' = pending,
           \A u \in Threads : job'[u] # NoGroup /\ pc'[u] # "decrement" =>
              job'[u] = job[u] /\ pc[u] # "decrement",
           \A g \in Groups : stage[g] = "queued" => stage'[g] = "queued"
    PROVE  RunsOnce'
  BY DEF BaseInv, TypeOK, RunsOnce

\* A step that leaves the fences alone, and changes no group from free to not free.
LEMMA FenceKept ==
    ASSUME BaseInv,
           UNCHANGED <<fenceSignal, fenceResult>>,
           \A g \in Groups : Idle(g)' <=> Idle(g),
           \A g \in Groups : stage'[g] \in {"called", "cleaned"} =>
               stage[g] \in {"called", "cleaned"},
           \A u \in Threads : pc'[u] = "callback" => pc[u] = "callback" /\ job'[u] = job[u],
           \A u \in Clients : pc'[u] = "read_result" =>
               (pc[u] = "read_result" /\ goal'[u] = goal[u]) \/ fenceSignal[goal'[u]]
    PROVE  FenceInv'
  BY DEF BaseInv, FenceInv, Idle

\* One thread goes on; the groups and the fences stay as they are.
LEMMA OnlyThreadMoves ==
    ASSUME BaseInv, NEW t \in Threads, TypeOK', Control(t)', Placed(t)',
           \A u \in Threads \ {t} :
              /\ pc'[u] = pc[u] /\ job'[u] = job[u] /\ enq'[u] = enq[u]
              /\ calls'[u] = calls[u] /\ (mutex' = u <=> mutex = u),
           \A u \in Clients \ {t} : goal'[u] = goal[u],
           UNCHANGED <<stage, pending, fenceSignal, fenceResult>>,
           job'[t] = NoGroup \/ (job'[t] = job[t] /\ pc[t] # "decrement"),
           pc'[t] # "callback",
           t \in Clients /\ pc'[t] = "read_result" => fenceSignal[goal'[t]],
           \A g \in Groups : waitCount'[g] # 0 => waitCount[g] # 0,
           \A u \in Threads : enq'[u] # NoGroup =>
              stage[enq'[u]] = "dispatched" /\ waitCount'[enq'[u]] = 0
    PROVE  BaseInv'
  <1>1. \A g \in Groups : waitCount'[g] # 0 => stage[g] = "dispatched"
    BY Zenon DEF BaseInv, StageInv
  <1>2. ControlInv' /\ StageInv'
    BY <1>1, ThreadMoves, Zenon
  <1>3. RunsOnce'
    BY RingKept, Zenon
  <1>4. Clients \subseteq Threads
    BY Zenon DEF Threads
  <1>5. FenceInv'
    BY <1>4, FenceKept, Zenon DEF Idle
  <1> QED
    BY <1>2, <1>3, <1>5, Zenon DEF BaseInv

\* The group of a thread that has not completed it.
LEMMA RunsGroup ==
    ASSUME BaseInv, NEW t \in Threads, job[t] # NoGroup, pc[t] # "decrement"
    PROVE  /\ pc[t] \in {"process", "result", "callback", "cleanup", "set_signal"} \cup Locked
           /\ job[t] \in Groups
           /\ stage[job[t]] \in {"running", "executed", "called", "cleaned"}
           /\ \A u \in Threads : job[u] = job[t] /\ pc[u] # "decrement" => u = t
  <1>inv. TypeOK /\ ControlInv /\ RunsOnce /\ StageInv
    BY Zenon DEF BaseInv
  <1>1. job[t] \in Groups
    BY <1>inv, Zenon DEF TypeOK
  <1>2. pc[t] \in {"process", "result", "callback", "cleanup", "set_signal"} \cup Locked
    BY <1>inv, Zenon DEF ControlInv, Control, Running, Locked
  <1>3. stage[job[t]] \in {"running", "executed", "called", "cleaned"}
    BY <1>inv, <1>1, <1>2, Zenon DEF StageInv, Placed
  <1>4. \A u \in Threads : job[u] = job[t] /\ pc[u] # "decrement" => u = t
    BY <1>inv, Zenon DEF RunsOnce
  <1> QED
    BY <1>1, <1>2, <1>3, <1>4, Zenon

\* A thread that runs a group goes on, and the stage of the group with it.
LEMMA GroupMoves ==
    ASSUME BaseInv, NEW t \in Threads, job[t] # NoGroup, pc[t] # "decrement",
           Control(t)', Placed(t)',
           \A u \in Threads \ {t} : pc'[u] = pc[u] /\ (mutex' = u <=> mutex = u),
           \A g \in Groups \ {job[t]} : stage'[g] = stage[g],
           UNCHANGED <<job, enq, calls, goal, waitCount, pending>>
    PROVE  ControlInv' /\ RunsOnce' /\ StageInv'
  <1>inv. TypeOK /\ StageInv
    BY Zenon DEF BaseInv
  <1>1. job[t] \in Groups /\ stage[job[t]] \notin {"dispatched", "queued"}
    BY RunsGroup, Zenon
  <1>2. \A u \in Threads \ {t} : job[u] # NoGroup /\ pc[u] # "decrement" =>
            stage'[job[u]] = stage[job[u]]
    BY RunsGroup, Zenon
  <1>3. /\ \A g \in Groups : waitCount[g] # 0 => stage'[g] = "dispatched"
        /\ \A u \in Threads : enq[u] # NoGroup =>
              stage'[enq[u]] = "dispatched" /\ waitCount[enq[u]] = 0
    BY <1>inv, <1>1 DEF StageInv, TypeOK
  <1>4. ControlInv' /\ StageInv'
    BY <1>2, <1>3, ThreadMoves, Zenon
  <1>5. RunsOnce'
    BY <1>1, RingKept, Zenon
  <1> QED
    BY <1>4, <1>5, Zenon

-------------------------------------------------------------------------------
\* The thread that runs a group

\* The commands of the group.
LEMMA ProcessCommandsBase ==
    ASSUME BaseInv, NEW t \in Threads, ProcessCommands(t)
    PROVE  BaseInv'
  <1>1. /\ pc[t] = "process" /\ pc' = [pc EXCEPT ![t] = "result"]
        /\ stage' = [stage EXCEPT ![job[t]] = "executed"]
        /\ UNCHANGED <<mutex, waitCount, signalled, waitingGroups, fenceSignal, fenceResult,
                       signalSemaphores, runningGroups, pending, asleep, goal, got, sems,
                       calls, enq, job, times>>
    BY Zenon DEF ProcessCommands, Goto, semVars, fenceVars, poolVars, waitVars, loopVars
  <1>inv. TypeOK /\ Control(t) /\ Placed(t)
    BY Zenon DEF BaseInv, ControlInv, StageInv
  <1>2. /\ job[t] # NoGroup /\ job[t] \in Groups /\ stage[job[t]] = "running"
        /\ pc \in [Threads -> Labels] /\ DOMAIN stage = Groups
    BY <1>inv, <1>1, Zenon DEF TypeOK, Control, Placed, Running
  <1>3. TypeOK'
    BY <1>inv, <1>1, <1>2, Zenon DEF TypeOK, Labels
  <1>4. Control(t)' /\ Placed(t)'
    BY <1>inv, <1>1, <1>2, Zenon DEF Control, Placed, Locked, Running
  <1>5. ControlInv' /\ RunsOnce' /\ StageInv'
    BY <1>1, <1>2, <1>4, GroupMoves, Zenon
  <1>6. FenceInv'
    BY <1>1, <1>2, FenceKept, Zenon DEF Idle, Threads
  <1> QED
    BY <1>3, <1>5, <1>6, Zenon DEF BaseInv

\* threadPoolCleanup sets the result.
LEMMA SetResultBase ==
    ASSUME BaseInv, NEW t \in Threads, SetResult(t)
    PROVE  BaseInv'
  <1>1. /\ pc[t] = "result" /\ pc' = [pc EXCEPT ![t] = "callback"]
        /\ fenceResult' = [f \in Fences |-> IF f = FenceOf[job[t]] THEN "success"
                                            ELSE fenceResult[f]]
        /\ UNCHANGED <<mutex, waitCount, signalled, waitingGroups, fenceSignal,
                       signalSemaphores, runningGroups, pending, asleep, goal, got, sems,
                       calls, enq, job, stage, times>>
    BY Zenon DEF SetResult, ResultOf, Goto, semVars, poolVars, waitVars, loopVars
  <1>inv. TypeOK /\ ControlInv /\ Control(t) /\ Placed(t) /\ FenceInv
    BY Zenon DEF BaseInv, ControlInv, StageInv
  <1>2. /\ job[t] # NoGroup /\ job[t] \in Groups /\ stage[job[t]] = "executed"
        /\ pc \in [Threads -> Labels]
    BY <1>inv, <1>1, Zenon DEF TypeOK, Control, Placed, Running
  <1>3. TypeOK'
    BY <1>inv, <1>1, Zenon DEF TypeOK, Labels
  <1>4. Control(t)' /\ Placed(t)'
    BY <1>inv, <1>1, <1>2, Zenon DEF Control, Placed, Locked, Running
  <1>5. ControlInv' /\ RunsOnce' /\ StageInv'
    BY <1>1, <1>2, <1>4, GroupMoves, Zenon
  <1>6. /\ \A g \in Groups : FenceOf[g] # NoFence => FenceOf[g] \in Fences
        /\ \A f \in Fences : fenceResult'[f] \in {"success", fenceResult[f]}
        /\ FenceOf[job[t]] # NoFence => fenceResult'[FenceOf[job[t]]] = "success"
    BY <1>1, <1>2, QueueAssumption, Zenon
  <1>7. \A u \in Threads : pc[u] = "callback" => job[u] \in Groups
    BY <1>inv DEF TypeOK, ControlInv, Control, Running
  <1>8. FenceInv'
    BY <1>inv, <1>1, <1>2, <1>6, <1>7 DEF FenceInv, Idle, Threads
  <1> QED
    BY <1>3, <1>5, <1>8, Zenon DEF BaseInv

\* The user_function.
LEMMA UserFunctionBase ==
    ASSUME BaseInv, NEW t \in Threads, UserFunction(t)
    PROVE  BaseInv'
  <1>1. /\ pc[t] = "callback" /\ pc' = [pc EXCEPT ![t] = "cleanup"]
        /\ stage' = [stage EXCEPT ![job[t]] = "called"]
        /\ UNCHANGED <<mutex, waitCount, signalled, waitingGroups, fenceSignal, fenceResult,
                       signalSemaphores, runningGroups, pending, asleep, goal, got, sems,
                       calls, enq, job, times>>
    BY Zenon DEF UserFunction, Goto, semVars, fenceVars, poolVars, waitVars, loopVars
  <1>inv. TypeOK /\ Control(t) /\ Placed(t) /\ FenceInv
    BY Zenon DEF BaseInv, ControlInv, StageInv
  <1>2. /\ job[t] # NoGroup /\ job[t] \in Groups /\ stage[job[t]] = "executed"
        /\ pc \in [Threads -> Labels] /\ DOMAIN stage = Groups
    BY <1>inv, <1>1, Zenon DEF TypeOK, Control, Placed, Running
  <1>3. TypeOK'
    BY <1>inv, <1>1, <1>2, Zenon DEF TypeOK, Labels
  <1>4. Control(t)' /\ Placed(t)'
    BY <1>inv, <1>1, <1>2, Zenon DEF Control, Placed, Locked, Running
  <1>5. ControlInv' /\ RunsOnce' /\ StageInv'
    BY <1>1, <1>2, <1>4, GroupMoves, Zenon
  <1>6. FenceInv'
    BY <1>inv, <1>1, <1>2 DEF FenceInv, Idle, Threads
  <1> QED
    BY <1>3, <1>5, <1>6, Zenon DEF BaseInv

\* threadPoolCleanup takes the mutex.
LEMMA CleanupLockBase ==
    ASSUME BaseInv, NEW t \in Threads, CleanupLock(t)
    PROVE  BaseInv'
  <1>1. /\ pc[t] = "cleanup" /\ mutex = NoThread /\ mutex' = t
        /\ sems' = [sems EXCEPT ![t] = signalSemaphores[job[t]]]
        /\ pc' = [pc EXCEPT ![t] = "signal"]
        /\ UNCHANGED <<waitCount, signalled, waitingGroups, fenceSignal, fenceResult,
                       signalSemaphores, runningGroups, pending, asleep, goal, got, calls,
                       enq, job, stage, times>>
    BY Zenon DEF CleanupLock, Goto, semVars, fenceVars, poolVars, waitVars
  <1>inv. TypeOK /\ Control(t) /\ Placed(t) /\ StageInv
    BY Zenon DEF BaseInv, ControlInv, StageInv
  <1>2. /\ job[t] # NoGroup /\ job[t] \in Groups /\ pc \in [Threads -> Labels]
        /\ signalSemaphores[job[t]] \in Seq(Semaphores) /\ NoThread \notin Threads
    BY <1>inv, <1>1, QueueAssumption, Zenon DEF TypeOK, Control, Running
  <1>3. TypeOK'
    BY <1>inv, <1>1, <1>2, Zenon DEF TypeOK, Labels
  <1>4. Control(t)' /\ Placed(t)'
    BY <1>inv, <1>1, <1>2, Zenon DEF Control, Placed, Locked, Running
  <1>5. \A u \in Threads : enq[u] # NoGroup => stage[enq[u]] = "dispatched" /\ waitCount[enq[u]] = 0
    BY <1>inv, Zenon DEF StageInv
  <1> QED
    BY <1>1, <1>2, <1>3, <1>4, <1>5, OnlyThreadMoves, Zenon

\* threadPoolCleanup signals a semaphore, or ends.
LEMMA CleanupSignalBase ==
    ASSUME BaseInv, NEW t \in Threads, CleanupSignal(t)
    PROVE  BaseInv'
  <1>1. /\ pc[t] = "signal"
        /\ UNCHANGED <<waitCount, waitingGroups, fenceSignal, fenceResult, runningGroups,
                       pending, asleep, goal, got, enq, job, times>>
    BY Zenon DEF CleanupSignal, fenceVars, poolVars, waitVars
  <1>inv. TypeOK /\ Control(t) /\ Placed(t) /\ StageInv
    BY Zenon DEF BaseInv, ControlInv, StageInv
  <1>2. /\ job[t] # NoGroup /\ job[t] \in Groups /\ stage[job[t]] = "called"
        /\ mutex = t /\ pc \in [Threads -> Labels] /\ DOMAIN stage = Groups
    BY <1>inv, <1>1, Zenon DEF TypeOK, Control, Placed, Running, Locked
  <1>3. CASE SignalSemaphore(t)
    <2>1. /\ sems' = [sems EXCEPT ![t] = Tail(@)] /\ sems[t] # << >>
          /\ signalled' = [signalled EXCEPT ![Head(sems[t])] = TRUE]
          /\ calls' = [calls EXCEPT ![t] = waitingGroups[Head(sems[t])]]
          /\ pc' = [pc EXCEPT ![t] = "notify"]
          /\ UNCHANGED <<mutex, signalSemaphores, stage>>
      BY <1>3, Zenon DEF SignalSemaphore, SetSignalled, NextSemaphore, Goto
    <2>2. sems[t] \in Seq(Semaphores) /\ DOMAIN calls = Threads
      BY <1>inv, Zenon DEF TypeOK
    <2>3. Head(sems[t]) \in Semaphores /\ Tail(sems[t]) \in Seq(Semaphores)
      BY <2>1, <2>2
    <2>4. TypeOK'
      BY <1>inv, <1>1, <2>1, <2>3, Zenon DEF TypeOK, Labels
    <2>5. Control(t)' /\ Placed(t)'
      BY <1>inv, <1>1, <1>2, <2>1, Zenon DEF Control, Placed, Locked, Running
    <2>6. \A u \in Threads : enq[u] # NoGroup =>
            stage[enq[u]] = "dispatched" /\ waitCount[enq[u]] = 0
      BY <1>inv, Zenon DEF StageInv
    <2> QED
      BY <1>1, <1>2, <2>1, <2>2, <2>4, <2>5, <2>6, OnlyThreadMoves, Zenon
  <1>4. CASE sems[t] = << >>
    <2>1. /\ signalSemaphores' = [signalSemaphores EXCEPT ![job[t]] = << >>]
          /\ mutex' = NoThread /\ NoThread \notin Threads
          /\ stage' = [stage EXCEPT ![job[t]] = "cleaned"]
          /\ pc' = [pc EXCEPT ![t] = "set_signal"]
          /\ UNCHANGED <<signalled, sems, calls>>
      BY <1>4, QueueAssumption, Zenon DEF CleanupSignal, SignalSemaphore, Goto
    <2>2. TypeOK'
      BY <1>inv, <1>1, <1>2, <2>1 DEF TypeOK, Labels
    <2>3. Control(t)' /\ Placed(t)'
      BY <1>inv, <1>1, <1>2, <2>1, Zenon DEF Control, Placed, Locked, Running
    <2>4. ControlInv' /\ RunsOnce' /\ StageInv'
      BY <1>1, <1>2, <2>1, <2>3, GroupMoves, Zenon
    <2>5. FenceInv'
      BY <1>1, <1>2, <2>1, FenceKept, Zenon DEF Idle, Threads
    <2> QED
      BY <2>2, <2>4, <2>5, Zenon DEF BaseInv
  <1> QED
    BY <1>3, <1>4, Zenon DEF CleanupSignal

\* The signal of the fence: no dispatch uses the fence any more.
LEMMA SetSignalBase ==
    ASSUME BaseInv, NEW t \in Threads, SetSignal(t)
    PROVE  BaseInv'
  <1>1. /\ pc[t] = "set_signal" /\ pc' = [pc EXCEPT ![t] = "decrement"]
        /\ stage' = [stage EXCEPT ![job[t]] = "complete"]
        /\ fenceSignal' = [f \in Fences |-> f = FenceOf[job[t]] \/ fenceSignal[f]]
        /\ UNCHANGED <<mutex, waitCount, signalled, waitingGroups, fenceResult,
                       signalSemaphores, runningGroups, pending, asleep, goal, got, sems,
                       calls, enq, job, times>>
    BY Zenon DEF SetSignal, Goto, semVars, poolVars, waitVars, loopVars
  <1>inv. TypeOK /\ ControlInv /\ Control(t) /\ Placed(t) /\ FenceInv
    BY Zenon DEF BaseInv, ControlInv, StageInv
  <1>2. /\ job[t] # NoGroup /\ job[t] \in Groups /\ stage[job[t]] = "cleaned"
        /\ pc \in [Threads -> Labels] /\ DOMAIN stage = Groups
    BY <1>inv, <1>1, Zenon DEF TypeOK, Control, Placed, Running
  <1>3. TypeOK'
    BY <1>inv, <1>1, <1>2, Zenon DEF TypeOK, Labels
  <1>4. Control(t)' /\ Placed(t)'
    BY <1>inv, <1>1, <1>2, Zenon DEF Control, Placed, Locked, Running
  <1>5. ControlInv' /\ RunsOnce' /\ StageInv'
    BY <1>1, <1>2, <1>4, GroupMoves, Zenon
  <1>6. \A f \in Fences : fenceSignal'[f] <=> f = FenceOf[job[t]] \/ fenceSignal[f]
    BY <1>1, Zenon
  <1>7. FenceOf[job[t]] # NoFence =>
          /\ fenceResult[FenceOf[job[t]]] = "success"
          /\ \A g \in Groups : FenceOf[g] = FenceOf[job[t]] => Idle(g)'
    BY <1>inv, <1>1, <1>2, Zenon DEF FenceInv, Idle
  <1>8. \A g \in Groups : ~Idle(g)' => ~Idle(g)
    BY <1>1, <1>2, Zenon DEF Idle
  <1>9. \A u \in Clients : pc'[u] = "read_result" => pc[u] = "read_result" /\ goal[u] \in Fences
    BY <1>inv, <1>1, <1>2, Zenon DEF TypeOK, ControlInv, Control, Threads
  <1>10. FenceInv'
    BY <1>inv, <1>1, <1>2, <1>6, <1>7, <1>8, <1>9, QueueAssumption DEF FenceInv, Idle
  <1> QED
    BY <1>3, <1>5, <1>10, Zenon DEF BaseInv

\* getWork and tryGetWork: the first group of the ring is running, and nowhere else.
LEMMA TakeBase ==
    ASSUME BaseInv, NEW t \in Threads, Take(t)
    PROVE  BaseInv'
  <1>1. /\ pc[t] \in {"get", "help"} /\ pending # << >> /\ pending' = Tail(pending)
        /\ job' = [job EXCEPT ![t] = Head(pending)]
        /\ stage' = [stage EXCEPT ![Head(pending)] = "running"]
        /\ pc' = [pc EXCEPT ![t] = "process"]
        /\ UNCHANGED <<mutex, waitCount, signalled, waitingGroups, fenceSignal, fenceResult,
                       signalSemaphores, runningGroups, asleep, goal, got, sems, calls, enq,
                       times>>
    BY Zenon DEF Take, Goto, semVars, fenceVars, waitVars, loopVars
  <1>inv. TypeOK /\ Control(t) /\ RunsOnce /\ StageInv
    BY Zenon DEF BaseInv, ControlInv
  <1>2. /\ pending \in Seq(Groups) /\ pc \in [Threads -> Labels] /\ DOMAIN stage = Groups
        /\ job \in [Threads -> Groups \cup {NoGroup}]
        /\ enq \in [Threads -> Groups \cup {NoGroup}]
    BY <1>inv, Zenon DEF TypeOK
  <1>3. /\ Head(pending) \in Groups /\ Tail(pending) \in Seq(Groups)
        /\ 1 \in DOMAIN pending /\ Head(pending) = pending[1]
        /\ \A k \in DOMAIN Tail(pending) :
              k + 1 \in DOMAIN pending /\ k + 1 # 1 /\ Tail(pending)[k] = pending[k + 1]
    BY <1>1, <1>2
  <1>4. stage[Head(pending)] = "queued"
    BY <1>inv, <1>3 DEF RunsOnce
  <1>5. TypeOK'
    BY <1>inv, <1>1, <1>3, Zenon DEF TypeOK, Labels
  <1>6. /\ job'[t] = Head(pending) /\ pc'[t] = "process"
        /\ \A u \in Threads \ {t} : job'[u] = job[u] /\ pc'[u] = pc[u]
        /\ stage'[Head(pending)] = "running"
        /\ \A g \in Groups \ {Head(pending)} : stage'[g] = stage[g]
    BY <1>1, <1>2, <1>3, Zenon
  <1>7. Control(t)' /\ Placed(t)'
    BY <1>inv, <1>1, <1>3, <1>6, QueueAssumption, Zenon
       DEF Control, Placed, Locked, Running, Threads
  <1>8. \A u \in Threads : job[u] # NoGroup /\ pc[u] # "decrement" =>
            job[u] # Head(pending) /\ job[u] \in Groups /\ u # t
    BY <1>1, <1>4, RunsGroup, Zenon DEF Locked
  <1>9. /\ \A g \in Groups : waitCount[g] # 0 => stage'[g] = "dispatched"
        /\ \A u \in Threads : enq[u] # NoGroup =>
              stage'[enq[u]] = "dispatched" /\ waitCount[enq[u]] = 0
    BY <1>inv, <1>2, <1>4, <1>6 DEF StageInv
  <1>10. ControlInv' /\ StageInv'
    BY <1>1, <1>6, <1>7, <1>8, <1>9, ThreadMoves
  <1>11. RunsOnce'
    <2>1. /\ \A k, l \in DOMAIN pending' : pending'[k] = pending'[l] => k = l
          /\ \A k \in DOMAIN pending' : pending'[k] # Head(pending) /\ pending'[k] \in Groups
          /\ \A k \in DOMAIN pending' : stage[pending'[k]] = "queued"
      BY <1>inv, <1>1, <1>2, <1>3 DEF RunsOnce
    <2>2. \A u, v \in {w \in Threads : job'[w] # NoGroup /\ pc'[w] # "decrement"} :
             job'[u] = job'[v] => u = v
      BY <1>inv, <1>6, <1>8 DEF RunsOnce
    <2> QED
      BY <1>6, <2>1, <2>2, Zenon DEF RunsOnce
  <1>12. FenceInv'
    BY <1>1, <1>3, <1>4, <1>6, FenceKept, Zenon DEF Idle, Threads
  <1> QED
    BY <1>5, <1>10, <1>11, <1>12, Zenon DEF BaseInv

\* The count: the thread has no group any more.
LEMMA DecrementBase ==
    ASSUME BaseInv, NEW t \in Threads, Decrement(t)
    PROVE  BaseInv'
  <1>1. /\ pc[t] = "decrement" /\ runningGroups' = runningGroups - 1 /\ asleep' = {}
        /\ job' = [job EXCEPT ![t] = NoGroup]
        /\ pc' = [pc EXCEPT ![t] = IF t \in Workers THEN "get" ELSE "help"]
        /\ UNCHANGED <<mutex, waitCount, signalled, waitingGroups, fenceSignal, fenceResult,
                       signalSemaphores, pending, goal, got, sems, calls, enq, stage, times>>
    BY Zenon DEF Decrement, Goto, semVars, fenceVars, waitVars, loopVars
  <1>inv. TypeOK /\ Control(t) /\ StageInv
    BY Zenon DEF BaseInv, ControlInv
  <1>2. /\ job'[t] = NoGroup /\ pc'[t] \in {"get", "help"} /\ (pc'[t] = "get" <=> t \in Workers)
        /\ \A u \in Threads \ {t} : job'[u] = job[u] /\ pc'[u] = pc[u]
        /\ UNCHANGED <<mutex, waitCount, fenceSignal, fenceResult, pending, goal, calls, enq, stage>>
    BY <1>inv, <1>1, Zenon DEF TypeOK
  <1>3. TypeOK'
    BY <1>inv, <1>1 DEF TypeOK, Labels
  <1>4. Control(t)' /\ Placed(t)'
    BY <1>inv, <1>1, <1>2, QueueAssumption, Zenon DEF Control, Placed, Locked, Running, Threads
  <1>5. \A u \in Threads : enq[u] # NoGroup =>
          stage[enq[u]] = "dispatched" /\ waitCount[enq[u]] = 0
    BY <1>inv, Zenon DEF StageInv
  <1> QED
    BY <1>2, <1>3, <1>4, <1>5, OnlyThreadMoves, Zenon

-------------------------------------------------------------------------------
\* With the mutex of the queue

\* Who holds the mutex is the only one that enqueues.
LEMMA OneEnqueues ==
    ASSUME BaseInv, NEW t \in Threads, pc[t] \in Locked
    PROVE  mutex = t /\ \A u \in Threads \ {t} : enq[u] = NoGroup
  <1>1. ControlInv
    BY Zenon DEF BaseInv
  <1> QED
    BY <1>1, Zenon DEF ControlInv, Control, Locked

\* The loop over signalCompleted: a group is enqueued when its count reaches zero.
LEMMA NotifyGroupsBase ==
    ASSUME BaseInv, NEW t \in Threads, NotifyGroups(t)
    PROVE  BaseInv'
  <1>1. /\ pc[t] = "notify"
        /\ UNCHANGED <<signalled, waitingGroups, fenceSignal, fenceResult, signalSemaphores,
                       runningGroups, pending, asleep, goal, got, job, sems, stage, times>>
    BY Zenon DEF NotifyGroups, semVars, fenceVars, poolVars, waitVars
  <1>inv. TypeOK /\ Control(t) /\ Placed(t) /\ StageInv
    BY Zenon DEF BaseInv, ControlInv, StageInv
  <1>2. /\ pc \in [Threads -> Labels] /\ calls \in [Threads -> Seq(Groups)]
        /\ enq \in [Threads -> Groups \cup {NoGroup}] /\ waitCount \in [Groups -> Nat]
    BY <1>inv, Zenon DEF TypeOK
  <1>3. mutex = t /\ enq[t] = NoGroup /\ \A u \in Threads \ {t} : enq[u] = NoGroup
    BY <1>inv, <1>1, OneEnqueues, Zenon DEF Control, Locked
  <1>4. CASE SignalCompleted(t) /\ mutex' = mutex
    <2> DEFINE g == Head(calls[t])
    <2>1. /\ calls[t] # << >> /\ calls' = [calls EXCEPT ![t] = Tail(@)] /\ mutex' = mutex
          /\ \/ waitCount[g] = 0 /\ waitCount' = waitCount /\ pc' = pc /\ enq' = enq
             \/ /\ waitCount[g] # 0 /\ waitCount' = [waitCount EXCEPT ![g] = @ - 1]
                /\ \/ /\ waitCount[g] = 1 /\ enq' = [enq EXCEPT ![t] = g]
                      /\ pc' = [pc EXCEPT ![t] = "enq_count"]
                   \/ waitCount[g] # 1 /\ pc' = pc /\ enq' = enq
      BY <1>4, Zenon DEF SignalCompleted, OneWaitLess, LastWait, EnqueueGroup, Goto
    <2>2. calls[t] \in Seq(Groups)
      BY <1>2, Zenon
    <2>3. g \in Groups /\ Tail(calls[t]) \in Seq(Groups)
      BY <2>1, <2>2
    <2> HIDE DEF g
    <2>4. /\ waitCount' \in [Groups -> Nat]
          /\ \A h \in Groups : waitCount'[h] # 0 => waitCount[h] # 0
      <3>1. CASE waitCount' = waitCount
        BY <1>2, <3>1, Zenon
      <3>2. CASE waitCount[g] # 0 /\ waitCount' = [waitCount EXCEPT ![g] = @ - 1]
        <4>1. waitCount[g] \in Nat /\ waitCount[g] - 1 \in Nat
          BY <1>2, <2>3, <3>2
        <4> QED
          BY <1>2, <2>3, <3>2, <4>1, Zenon
      <3> QED
        BY <2>1, <3>1, <3>2, Zenon
    <2>5. /\ \A u \in Threads \ {t} : pc'[u] = pc[u] /\ enq'[u] = enq[u] /\ calls'[u] = calls[u]
          /\ \/ pc'[t] = "notify" /\ enq'[t] = NoGroup
             \/ /\ pc'[t] = "enq_count" /\ enq'[t] = g /\ waitCount[g] = 1
                /\ waitCount'[g] = 0
      BY <1>1, <1>2, <1>3, <2>1, <2>3
    <2>6. /\ calls' \in [Threads -> Seq(Groups)]
          /\ enq' \in [Threads -> Groups \cup {NoGroup}] /\ pc' \in [Threads -> Labels]
      BY <1>2, <2>1, <2>3, Zenon DEF Labels
    <2>7. TypeOK'
      BY <1>inv, <1>1, <2>1, <2>4, <2>6, Zenon DEF TypeOK
    <2>8. Control(t)' /\ Placed(t)'
      BY <1>inv, <1>1, <2>1, <2>3, <2>5, QueueAssumption, Zenon DEF Control, Placed, Locked, Running
    <2>9. \A u \in Threads : enq'[u] # NoGroup =>
            stage[enq'[u]] = "dispatched" /\ waitCount'[enq'[u]] = 0
      BY <1>inv, <1>3, <2>3, <2>5 DEF StageInv
    <2> QED
      BY <1>1, <2>1, <2>4, <2>5, <2>7, <2>8, <2>9, OnlyThreadMoves, Zenon
  <1>5. CASE calls[t] = << >>
    <2>1. /\ \/ job[t] = NoGroup /\ mutex' = NoThread /\ pc' = [pc EXCEPT ![t] = "idle"]
             \/ job[t] # NoGroup /\ mutex' = mutex /\ pc' = [pc EXCEPT ![t] = "signal"]
          /\ UNCHANGED <<waitCount, calls, enq>>
          /\ NoThread \notin Threads /\ Workers \cap Clients = {}
      BY <1>5, QueueAssumption, Zenon DEF NotifyGroups, SignalCompleted, Goto
    <2>2. TypeOK'
      BY <1>inv, <1>1, <2>1, Zenon DEF TypeOK, Labels
    <2>3. Control(t)' /\ Placed(t)'
      BY <1>inv, <1>1, <1>2, <1>3, <1>5, <2>1, Zenon DEF Control, Placed, Locked, Running, Threads
    <2> QED
      BY <1>1, <1>2, <1>3, <2>1, <2>2, <2>3, OnlyThreadMoves, Zenon
  <1> QED
    BY <1>4, <1>5, Zenon DEF NotifyGroups

\* enqueue counts the group: the signal of its fence was not set.
LEMMA EnqueueCountBase ==
    ASSUME BaseInv, NEW t \in Threads, EnqueueCount(t)
    PROVE  BaseInv'
  <1>1. /\ pc[t] = "enq_count" /\ runningGroups' = runningGroups + 1
        /\ fenceSignal' = [f \in Fences |-> f # FenceOf[enq[t]] /\ fenceSignal[f]]
        /\ pc' = [pc EXCEPT ![t] = "enq_store"]
        /\ UNCHANGED <<mutex, waitCount, signalled, waitingGroups, fenceResult,
                       signalSemaphores, pending, asleep, goal, got, sems, calls, enq, job,
                       stage, times>>
    BY Zenon DEF EnqueueCount, Goto, semVars, waitVars, loopVars
  <1>inv. TypeOK /\ Control(t) /\ Placed(t) /\ StageInv /\ FenceInv
    BY Zenon DEF BaseInv, ControlInv, StageInv
  <1>2. /\ pc \in [Threads -> Labels] /\ fenceSignal \in [Fences -> BOOLEAN]
        /\ enq[t] \in Groups /\ stage[enq[t]] = "dispatched"
    BY <1>inv, <1>1, Zenon DEF TypeOK, Control, StageInv
  <1>3. \A f \in Fences : fenceSignal'[f] <=> fenceSignal[f]
    BY <1>inv, <1>1, <1>2, Zenon DEF FenceInv, Idle
  <1>4. fenceSignal' = fenceSignal
    BY <1>1, <1>2, <1>3, Zenon
  <1>5. TypeOK'
    BY <1>inv, <1>1, <1>4 DEF TypeOK, Labels
  <1>6. Control(t)' /\ Placed(t)'
    BY <1>inv, <1>1, <1>2, Zenon DEF Control, Placed, Locked, Running
  <1>7. \A u \in Threads : enq[u] # NoGroup =>
          stage[enq[u]] = "dispatched" /\ waitCount[enq[u]] = 0
    BY <1>inv, Zenon DEF StageInv
  <1> QED
    BY <1>inv, <1>1, <1>2, <1>4, <1>5, <1>6, <1>7, OnlyThreadMoves, Zenon DEF Control, Running

\* enqueue stores the group, which the ring does not hold yet, or waits.
LEMMA EnqueueStoreBase ==
    ASSUME BaseInv, NEW t \in Threads, EnqueueStore(t)
    PROVE  BaseInv'
  <1>1. /\ pc[t] = "enq_store"
        /\ UNCHANGED <<mutex, waitCount, signalled, waitingGroups, fenceSignal, fenceResult,
                       signalSemaphores, runningGroups, goal, got, job, sems, calls, times>>
    BY Zenon DEF EnqueueStore, semVars, fenceVars, waitVars
  <1>inv. TypeOK /\ Control(t) /\ Placed(t) /\ RunsOnce /\ StageInv /\ FenceInv
    BY Zenon DEF BaseInv, ControlInv, StageInv
  <1>2. /\ pc \in [Threads -> Labels] /\ DOMAIN stage = Groups /\ pending \in Seq(Groups)
        /\ enq \in [Threads -> Groups \cup {NoGroup}]
    BY <1>inv, Zenon DEF TypeOK
  <1>3. /\ enq[t] \in Groups /\ stage[enq[t]] = "dispatched" /\ waitCount[enq[t]] = 0
        /\ \A u \in Threads \ {t} : enq[u] = NoGroup
    BY <1>inv, <1>1, <1>2, OneEnqueues, Zenon DEF Control, StageInv, Locked
  <1>4. CASE Len(pending) < Capacity
    <2>1. /\ pending' = Append(pending, enq[t]) /\ stage' = [stage EXCEPT ![enq[t]] = "queued"]
          /\ enq' = [enq EXCEPT ![t] = NoGroup] /\ pc' = [pc EXCEPT ![t] = "notify"]
          /\ UNCHANGED asleep
      BY <1>4, Zenon DEF EnqueueStore, Goto
    <2>2. pending' \in Seq(Groups)
      BY <1>2, <1>3, <2>1
    <2>3. TypeOK'
      BY <1>inv, <1>1, <2>1, <2>2, Zenon DEF TypeOK, Labels
    <2>4. /\ \A u \in Threads \ {t} : pc'[u] = pc[u] /\ enq'[u] = enq[u]
          /\ pc'[t] = "notify" /\ enq'[t] = NoGroup
          /\ \A g \in Groups \ {enq[t]} : stage'[g] = stage[g]
          /\ stage'[enq[t]] = "queued"
      BY <1>2, <1>3, <2>1, Zenon
    <2>5. \A u \in Threads : job[u] # NoGroup /\ pc[u] # "decrement" =>
            job[u] # enq[t] /\ job[u] \in Groups /\ stage'[job[u]] = stage[job[u]]
      BY <1>3, <2>4, RunsGroup, Zenon
    <2>6. Control(t)' /\ Placed(t)'
      BY <1>inv, <1>1, <2>4, <2>5, Zenon DEF Control, Placed, Locked, Running
    <2>7. /\ \A g \in Groups : waitCount[g] # 0 => stage'[g] = "dispatched"
          /\ \A u \in Threads : enq'[u] = NoGroup
          /\ UNCHANGED <<mutex, waitCount, calls, goal, job>>
      BY <1>inv, <1>1, <1>3, <2>4, Zenon DEF StageInv
    <2>8. ControlInv' /\ StageInv'
      BY <2>4, <2>5, <2>6, <2>7, ThreadMoves, Zenon
    <2>9. \A k \in DOMAIN pending' :
             \/ k \in DOMAIN pending /\ pending'[k] = pending[k] /\ pending[k] \in Groups
             \/ k = Len(pending) + 1 /\ pending'[k] = enq[t]
      BY <1>2, <1>3, <2>1
    <2>10. /\ \A k, l \in DOMAIN pending' : pending'[k] = pending'[l] => k = l
           /\ \A k \in DOMAIN pending' : stage'[pending'[k]] = "queued"
      BY <1>inv, <1>3, <2>4, <2>9 DEF RunsOnce
    <2>11. RunsOnce'
      BY <1>inv, <1>1, <2>4, <2>10 DEF RunsOnce
    <2>12. FenceInv'
      BY <1>1, <1>3, <2>4, FenceKept, Zenon DEF Idle, Threads
    <2> QED
      BY <2>3, <2>8, <2>11, <2>12, Zenon DEF BaseInv
  <1>5. CASE ~(Len(pending) < Capacity)
    <2>1. asleep' = asleep \cup {t} /\ UNCHANGED <<pending, stage, enq, pc>>
      BY <1>5, Zenon DEF EnqueueStore
    <2>2. TypeOK'
      BY <1>inv, <1>1, <2>1, Zenon DEF TypeOK
    <2>3. FenceInv'
      BY <1>1, <2>1, FenceKept, Zenon DEF Idle
    <2> QED
      BY <1>1, <2>1, <2>2, <2>3, NoneMoves, Zenon
  <1> QED
    BY <1>4, <1>5, Zenon

\* A wake-up for nothing.
LEMMA SpuriousWakeBase ==
    ASSUME BaseInv, NEW t \in Threads, SpuriousWake(t)
    PROVE  BaseInv'
  <1>1. /\ asleep' = asleep \ {t}
        /\ UNCHANGED <<mutex, waitCount, signalled, waitingGroups, fenceSignal, fenceResult,
                       signalSemaphores, runningGroups, pending, goal, got, sems, calls, enq,
                       pc, job, stage, times>>
    BY Zenon DEF SpuriousWake, semVars, fenceVars, waitVars, loopVars
  <1>2. TypeOK'
    BY <1>1, Zenon DEF BaseInv, TypeOK
  <1>3. FenceInv'
    BY <1>1, FenceKept, Zenon DEF Idle
  <1> QED
    BY <1>1, <1>2, <1>3, NoneMoves, Zenon

-------------------------------------------------------------------------------
\* The calls of a client

\* A client moves between the places outside of the queue's lock and of a group.
LEMMA ClientMoves ==
    ASSUME BaseInv, NEW c \in Clients, NEW label \in Labels, job[c] = NoGroup,
           pc[c] \in {"idle", "help", "blocked", "poll", "read_result", "wait_all"},
           label \in {"idle", "help", "blocked", "poll", "read_result", "wait_all"},
           Goto(c, label), goal' \in [Clients -> Fences \cup {NoFence}],
           got' \in [Clients -> {"none", "internal", "not_ready", "success"}],
           \A d \in Clients : d # c => goal'[d] = goal[d],
           label \in {"help", "blocked", "poll", "read_result"} => goal'[c] # NoFence,
           label = "read_result" => fenceSignal[goal'[c]],
           UNCHANGED <<mutex, waitCount, semVars, fenceVars, signalSemaphores, poolVars,
                       loopVars, job, stage, times>>
    PROVE  BaseInv'
  <1>1. /\ c \in Threads /\ c \notin Workers /\ pc' = [pc EXCEPT ![c] = label]
        /\ UNCHANGED <<mutex, waitCount, signalled, waitingGroups, fenceSignal, fenceResult,
                       signalSemaphores, runningGroups, pending, asleep, sems, calls, enq,
                       job, stage, times>>
    BY QueueAssumption, Zenon DEF Threads, Goto, semVars, fenceVars, poolVars, loopVars
  <1>inv. TypeOK /\ Control(c) /\ StageInv
    BY <1>1, Zenon DEF BaseInv, ControlInv
  <1>2. TypeOK'
    BY <1>inv, <1>1 DEF TypeOK
  <1>3. pc'[c] = label /\ \A u \in Threads \ {c} : pc'[u] = pc[u]
    BY <1>inv, <1>1, Zenon DEF TypeOK
  <1>4. Control(c)' /\ Placed(c)'
    BY <1>inv, <1>1, <1>3, Zenon DEF Control, Placed, Locked, Running
  <1>5. \A u \in Threads : enq[u] # NoGroup =>
          stage[enq[u]] = "dispatched" /\ waitCount[enq[u]] = 0
    BY <1>inv, Zenon DEF StageInv
  <1> QED
    BY <1>1, <1>2, <1>3, <1>4, <1>5, OnlyThreadMoves

\* A fence that no dispatch and no waiter uses is reset, and serves one group at most.
LEMMA FenceReset ==
    ASSUME BaseInv, NEW f, NEW g,
           f # NoFence => /\ \A h \in Groups : FenceOf[h] = f => Idle(h)
                          /\ \A c \in Clients : goal[c] # f,
           \A e \in Fences \ {f} :
              (fenceSignal'[e] <=> fenceSignal[e]) /\ fenceResult'[e] = fenceResult[e],
           f \in Fences => ~fenceSignal'[f],
           \A h \in Groups \ {g} : stage'[h] = stage[h],
           stage'[g] = stage[g] \/ (FenceOf[g] = f /\ stage'[g] = "dispatched"),
           UNCHANGED <<job, goal>>,
           \A u \in Threads : pc'[u] \in {"callback", "read_result"} => pc'[u] = pc[u]
    PROVE  FenceInv'
  <1>inv. TypeOK /\ ControlInv /\ FenceInv
    BY Zenon DEF BaseInv
  <1>1. /\ NoFence \notin Fences /\ Clients \subseteq Threads
        /\ \A h \in Groups : FenceOf[h] # NoFence => FenceOf[h] \in Fences
    BY QueueAssumption, Zenon DEF Threads
  <1>2. \A h \in Groups : ~Idle(h)' => ~Idle(h) \/ (h = g /\ FenceOf[g] = f)
    BY Zenon DEF Idle
  <1>3. \A h \in Groups : stage'[h] \in {"called", "cleaned"} => stage'[h] = stage[h]
    BY Zenon
  <1>4. \A e \in Fences : fenceSignal'[e] =>
          /\ fenceResult'[e] = "success"
          /\ \A h \in Groups : FenceOf[h] = e => Idle(h)'
    BY <1>inv, <1>2 DEF FenceInv
  <1>5. \A h, i \in Groups :
          FenceOf[h] = FenceOf[i] /\ FenceOf[h] # NoFence /\ ~Idle(h)' /\ ~Idle(i)' => h = i
    BY <1>inv, <1>2 DEF FenceInv
  <1>6. \A h \in Groups : FenceOf[h] # NoFence /\ stage'[h] \in {"called", "cleaned"} =>
          fenceResult'[FenceOf[h]] = "success"
    BY <1>inv, <1>1, <1>3 DEF FenceInv, Idle
  <1>7. \A u \in Threads : pc'[u] = "callback" =>
          pc[u] = "callback" /\ job[u] \in Groups /\ ~Idle(job[u])
    BY <1>inv, RunsGroup DEF ControlInv, Control, Running, Idle
  <1>8. \A u \in Threads : pc'[u] = "callback" /\ FenceOf[job[u]] # NoFence =>
          fenceResult'[FenceOf[job[u]]] = "success"
    BY <1>inv, <1>1, <1>7 DEF FenceInv
  <1>9. \A u \in Clients : pc'[u] = "read_result" =>
          pc[u] = "read_result" /\ goal[u] \in Fences
    BY <1>inv, <1>1 DEF TypeOK, ControlInv, Control
  <1>10. \A u \in Clients : pc'[u] = "read_result" => fenceSignal'[goal[u]]
    BY <1>inv, <1>1, <1>9 DEF FenceInv
  <1> QED
    BY <1>4, <1>5, <1>6, <1>8, <1>10, Zenon DEF FenceInv

\* hostResetFence.
LEMMA ResetFenceBase ==
    ASSUME BaseInv, NEW t \in Clients, NEW f \in Fences, ResetFence(t, f)
    PROVE  BaseInv'
  <1>1. /\ \A g \in Groups : FenceOf[g] = f => Idle(g)
        /\ \A c \in Clients : goal[c] # f
        /\ fenceSignal' = [fenceSignal EXCEPT ![f] = FALSE]
        /\ fenceResult' = [fenceResult EXCEPT ![f] = "not_ready"]
        /\ UNCHANGED <<mutex, waitCount, signalled, waitingGroups, signalSemaphores,
                       runningGroups, pending, asleep, goal, got, sems, calls, enq, pc, job,
                       stage, times>>
    BY Zenon DEF ResetFence, semVars, poolVars, waitVars, loopVars
  <1>2. TypeOK
    BY Zenon DEF BaseInv
  <1>3. TypeOK'
    BY <1>1, <1>2, Zenon DEF TypeOK
  <1>4. /\ \A e \in Fences \ {f} :
             (fenceSignal'[e] <=> fenceSignal[e]) /\ fenceResult'[e] = fenceResult[e]
        /\ ~fenceSignal'[f]
    BY <1>1, <1>2, Zenon DEF TypeOK
  <1>5. FenceInv'
    BY <1>1, <1>4, FenceReset, Zenon
  <1> QED
    BY <1>1, <1>3, <1>5, NoneMoves, Zenon

\* hostResetSemaphore.
LEMMA ResetSemaphoreBase ==
    ASSUME BaseInv, NEW t \in Clients, NEW s \in Semaphores, ResetSemaphore(t, s)
    PROVE  BaseInv'
  <1>1. /\ signalled' = [signalled EXCEPT ![s] = FALSE]
        /\ waitingGroups' = [waitingGroups EXCEPT ![s] = << >>]
        /\ UNCHANGED <<mutex, waitCount, fenceSignal, fenceResult, signalSemaphores,
                       runningGroups, pending, asleep, goal, got, sems, calls, enq, pc, job,
                       stage, times>>
    BY Zenon DEF ResetSemaphore, fenceVars, poolVars, waitVars, loopVars
  <1>2. TypeOK'
    BY <1>1 DEF BaseInv, TypeOK
  <1>3. FenceInv'
    BY <1>1, FenceKept, Zenon DEF Idle
  <1> QED
    BY <1>1, <1>2, <1>3, NoneMoves, Zenon

\* Lists of the same group, as long as a set of waits.
LEMMA ListOf ==
    ASSUME NEW g \in Groups, NEW W \in SUBSET DOMAIN WaitsOf[g]
    PROVE  [k \in 1..Cardinality(W) |-> g] \in Seq(Groups)
  <1>1. DOMAIN WaitsOf[g] = 1..Len(WaitsOf[g]) /\ Len(WaitsOf[g]) \in Nat
    BY QueueAssumption
  <1>2. IsFiniteSet(DOMAIN WaitsOf[g])
    BY <1>1, FS_Interval
  <1>3. Cardinality(W) \in Nat
    BY <1>2, FS_Subset, FS_CardinalityType, Zenon
  <1> QED
    BY <1>3

\* What hostDispatch appends to the semaphores, and the calls it has to make.
LEMMA DispatchLists ==
    ASSUME TypeOK, NEW t \in Clients, NEW g \in Groups, Dispatch(t, g)
    PROVE  /\ waitingGroups' \in [Semaphores -> Seq(Groups)]
           /\ calls' \in [Threads -> Seq(Groups)]
           /\ \A u \in Threads \ {t} : calls'[u] = calls[u]
  <1> DEFINE early == {k \in DOMAIN WaitsOf[g] : signalled[WaitsOf[g][k]]}
             late(lost, s) == {k \in DOMAIN WaitsOf[g] \ (early \cup lost) : WaitsOf[g][k] = s}
  <1>1. PICK lost : /\ waitingGroups' = [s \in Semaphores |->
                          waitingGroups[s] \o [k \in 1..Cardinality(late(lost, s)) |-> g]]
                    /\ calls' = [calls EXCEPT ![t] = [k \in 1..Cardinality(early) |-> g]]
    BY Zenon DEF Dispatch
  <1>2. /\ [k \in 1..Cardinality(early) |-> g] \in Seq(Groups)
        /\ \A s \in Semaphores : [k \in 1..Cardinality(late(lost, s)) |-> g] \in Seq(Groups)
    BY ListOf, Zenon
  <1> HIDE DEF early, late
  <1>3. \A s \in Semaphores : waitingGroups[s] \in Seq(Groups)
    BY Zenon DEF TypeOK
  <1>4. waitingGroups' \in [Semaphores -> Seq(Groups)]
    BY <1>1, <1>2, <1>3
  <1> QED
    BY <1>1, <1>2, <1>4, Zenon DEF TypeOK

\* hostDispatch: a free group with a free fence, and nothing refers to it yet.
LEMMA DispatchBase ==
    ASSUME BaseInv, NEW t \in Clients, NEW g \in Groups, Dispatch(t, g)
    PROVE  BaseInv'
  <1>1. /\ pc[t] = "idle" /\ mutex = NoThread /\ mutex' = t /\ Idle(g)
        /\ stage' = [stage EXCEPT ![g] = "dispatched"]
        /\ times' = [times EXCEPT ![g] = @ + 1]
        /\ signalSemaphores' = [signalSemaphores EXCEPT ![g] = @ \o SignalsOf[g]]
        /\ UNCHANGED <<signalled, runningGroups, pending, asleep, goal, got, job, sems>>
    BY Zenon DEF Dispatch, MayDispatch, poolVars, waitVars
  <1>2. /\ fenceSignal' = [f \in Fences |-> f # FenceOf[g] /\ fenceSignal[f]]
        /\ fenceResult' = [f \in Fences |-> IF f = FenceOf[g] THEN "not_ready"
                                            ELSE fenceResult[f]]
    BY Zenon DEF Dispatch
  <1>3. \/ /\ enq' = [enq EXCEPT ![t] = g] /\ pc' = [pc EXCEPT ![t] = "enq_count"]
           /\ waitCount' = waitCount
        \/ /\ enq' = enq /\ pc' = [pc EXCEPT ![t] = "notify"]
           /\ \/ waitCount' = [waitCount EXCEPT ![g] = Len(WaitsOf[g])]
              \/ waitCount' = waitCount
    BY Zenon DEF Dispatch, EnqueueGroup, Goto
  <1>inv. TypeOK /\ ControlInv /\ RunsOnce /\ StageInv
    BY Zenon DEF BaseInv
  <1>a. /\ t \in Threads /\ t \notin Workers /\ NoThread \notin Threads
        /\ Len(WaitsOf[g]) \in Nat /\ SignalsOf[g] \in Seq(Semaphores) /\ g # NoGroup
    BY QueueAssumption DEF Threads
  <1>4. /\ pc \in [Threads -> Labels] /\ DOMAIN stage = Groups
        /\ waitCount \in [Groups -> Nat] /\ enq \in [Threads -> Groups \cup {NoGroup}]
    BY <1>inv, Zenon DEF TypeOK
  <1>b. waitCount[g] = 0
    BY <1>inv, <1>1, <1>4, Zenon DEF StageInv, Idle
  <1>5. Control(t) /\ job[t] = NoGroup /\ \A u \in Threads : enq[u] = NoGroup
    BY <1>inv, <1>1, <1>a, Zenon DEF ControlInv, Control, Locked, Running
  <1>6. /\ stage'[g] = "dispatched" /\ \A h \in Groups \ {g} : stage'[h] = stage[h]
        /\ \A h \in Groups \ {g} : waitCount'[h] = waitCount[h]
    BY <1>1, <1>3, <1>4, Zenon
  <1>7. /\ \A u \in Threads \ {t} : pc'[u] = pc[u] /\ enq'[u] = enq[u]
        /\ \/ pc'[t] = "enq_count" /\ enq'[t] = g /\ waitCount'[g] = 0
           \/ pc'[t] = "notify" /\ enq'[t] = NoGroup
    BY <1>3, <1>4, <1>5, <1>a, <1>b, Zenon
  <1>c. /\ \A u \in Threads \ {t} : mutex' = u <=> mutex = u
        /\ UNCHANGED <<job, goal, pending>>
    BY <1>1, <1>a, Zenon
  <1>8. TypeOK'
    <2>1. signalSemaphores' \in [Groups -> Seq(Semaphores)]
      BY <1>inv, <1>1, <1>a DEF TypeOK
    <2>2. waitCount' \in [Groups -> Nat]
      BY <1>3, <1>4, <1>a, Zenon
    <2>6. enq' \in [Threads -> Groups \cup {NoGroup}] /\ pc' \in [Threads -> Labels]
      BY <1>3, <1>4, Zenon DEF Labels
    <2>3. times' \in [Groups -> Nat]
      BY <1>inv, <1>1 DEF TypeOK
    <2>4. /\ fenceSignal' \in [Fences -> BOOLEAN]
          /\ fenceResult' \in [Fences -> {"internal", "not_ready", "success"}]
      BY <1>inv, <1>2, Zenon DEF TypeOK
    <2>5. /\ waitingGroups' \in [Semaphores -> Seq(Groups)] /\ calls' \in [Threads -> Seq(Groups)]
          /\ mutex' \in Threads
      BY <1>inv, <1>1, <1>a, DispatchLists, Zenon
    <2> QED
      BY <1>inv, <1>1, <2>1, <2>2, <2>3, <2>4, <2>5, <2>6, Zenon DEF TypeOK
  <1>9. Control(t)' /\ Placed(t)'
    BY <1>1, <1>5, <1>7, <1>a, Zenon DEF Control, Placed, Locked, Running
  <1>10. \A u \in Threads : job[u] # NoGroup /\ pc[u] # "decrement" =>
            job[u] # g /\ job[u] \in Groups
    BY <1>1, RunsGroup, Zenon DEF Idle
  <1>11. /\ \A h \in Groups : waitCount'[h] # 0 => stage'[h] = "dispatched"
         /\ \A u \in Threads : enq'[u] # NoGroup =>
               stage'[enq'[u]] = "dispatched" /\ waitCount'[enq'[u]] = 0
    BY <1>inv, <1>5, <1>6, <1>7, <1>a, <1>b DEF StageInv
  <1>12. ControlInv' /\ StageInv'
    <2>1. \A u \in Threads \ {t} : calls'[u] = calls[u]
      BY <1>inv, DispatchLists, Zenon
    <2> QED
      BY <1>6, <1>7, <1>9, <1>10, <1>11, <1>a, <1>c, <2>1, ThreadMoves
  <1>13. RunsOnce'
    BY <1>1, <1>5, <1>6, <1>7, <1>c, RingKept, Zenon DEF Idle
  <1>14. FenceInv'
    <2>1. /\ \A f \in Fences \ {FenceOf[g]} :
               (fenceSignal'[f] <=> fenceSignal[f]) /\ fenceResult'[f] = fenceResult[f]
          /\ FenceOf[g] \in Fences => ~fenceSignal'[FenceOf[g]]
      BY <1>2, Zenon
    <2>2. FenceOf[g] # NoFence =>
            /\ \A h \in Groups : FenceOf[h] = FenceOf[g] => Idle(h)
            /\ \A c \in Clients : goal[c] # FenceOf[g]
      BY Zenon DEF Dispatch, MayDispatch
    <2>3. \A u \in Threads : pc'[u] \in {"callback", "read_result"} => pc'[u] = pc[u]
      BY <1>7, Zenon
    <2> QED
      BY <1>6, <1>c, <2>1, <2>2, <2>3, FenceReset, Zenon
  <1> QED
    BY <1>8, <1>12, <1>13, <1>14, Zenon DEF BaseInv

\* The calls and waits of a client.
LEMMA ClientBase ==
    ASSUME BaseInv, NEW t \in Clients, Call(t) \/ WaitStep(t)
    PROVE  BaseInv'
  <1>1. /\ t \in Threads /\ goal \in [Clients -> Fences \cup {NoFence}] /\ Control(t)
        /\ got \in [Clients -> {"none", "internal", "not_ready", "success"}]
        /\ fenceResult \in [Fences -> {"internal", "not_ready", "success"}]
        /\ NoFence \notin Fences
    BY QueueAssumption, Zenon DEF Threads, BaseInv, TypeOK, ControlInv
  <1>2. pc[t] \in {"idle", "help", "blocked", "poll", "read_result", "wait_all"} =>
          job[t] = NoGroup
    BY <1>1, Zenon DEF Control, Running, Locked
  <1>3. pc[t] \in {"help", "blocked", "poll", "read_result"} =>
          goal[t] # NoFence /\ goal[t] \in Fences
    BY <1>1, Zenon DEF Control
  <1>4. ASSUME NEW f \in Fences, NEW label \in {"help", "poll"}, TryWait(t, f, label)
        PROVE  BaseInv'
    BY <1>1, <1>2, <1>4, ClientMoves, Zenon DEF TryWait, Labels
  <1>5. CASE WaitAll(t)
    BY <1>1, <1>2, <1>5, ClientMoves, Zenon DEF WaitAll, Labels
  <1>6. CASE HelpEnds(t)
    BY <1>1, <1>2, <1>3, <1>6, ClientMoves, Zenon DEF HelpEnds, waitVars, Labels
  <1>7. CASE ReadSignal(t)
    BY <1>1, <1>2, <1>3, <1>7, ClientMoves, Zenon DEF ReadSignal, AfterWait, waitVars, Labels
  <1>8. CASE Poll(t)
    BY <1>1, <1>2, <1>3, <1>8, ClientMoves DEF Poll, Labels
  <1>9. CASE ReadResult(t)
    BY <1>1, <1>2, <1>3, <1>9, ClientMoves, Zenon DEF ReadResult, Labels
  <1>10. CASE WaitAllReturn(t)
    BY <1>1, <1>2, <1>10, ClientMoves, Zenon DEF WaitAllReturn, Labels
  <1> QED
    BY <1>4, <1>5, <1>6, <1>7, <1>8, <1>9, <1>10, DispatchBase, ResetFenceBase,
       ResetSemaphoreBase, Zenon DEF Call, WaitStep

-------------------------------------------------------------------------------
\* Theorems

LEMMA NextBase == BaseInv /\ [Next]_vars => BaseInv'
  <1> SUFFICES ASSUME BaseInv, [Next]_vars PROVE BaseInv'
    BY Zenon
  <1>1. ASSUME NEW t \in Clients, Call(t) \/ WaitStep(t) PROVE BaseInv'
    BY <1>1, ClientBase, Zenon
  <1>2. ASSUME NEW t \in Threads, LockedStep(t) PROVE BaseInv'
    BY <1>2, NotifyGroupsBase, EnqueueCountBase, EnqueueStoreBase, Zenon DEF LockedStep
  <1>3. ASSUME NEW t \in Threads, RunStep(t) PROVE BaseInv'
    BY <1>3, TakeBase, ProcessCommandsBase, SetResultBase, UserFunctionBase, CleanupLockBase,
       CleanupSignalBase, SetSignalBase, DecrementBase, Zenon DEF RunStep
  <1>4. CASE UNCHANGED vars
    <2>1. UNCHANGED <<mutex, waitCount, signalled, waitingGroups, fenceSignal, fenceResult,
                      signalSemaphores, runningGroups, pending, asleep, goal, got, sems, calls,
                      enq, pc, job, stage, times>>
      BY <1>4, Zenon DEF vars, semVars, fenceVars, poolVars, waitVars, loopVars
    <2>2. TypeOK'
      BY <2>1, Zenon DEF BaseInv, TypeOK
    <2>3. FenceInv'
      BY <2>1, FenceKept, Zenon DEF Idle
    <2> QED
      BY <2>1, <2>2, <2>3, NoneMoves, Zenon
  <1> QED
    BY <1>1, <1>2, <1>3, <1>4, SpuriousWakeBase, Zenon DEF Next

\* The inductive invariant of the queue: who holds its mutex, which thread has which
\* group, how far each dispatch is and what its fence says fit together in every state.
THEOREM BaseInvariance == Spec => []BaseInv
  BY InitBase, NextBase, PTL DEF Spec

\* The pool never gets the same dispatch twice, however the calls of signalCompleted
\* from hostDispatch and from threadPoolCleanup interleave.
THEOREM PoolRunsOnce == Spec => []RunsOnce
  <1>1. BaseInv => RunsOnce
    BY Zenon DEF BaseInv
  <1> QED
    BY <1>1, BaseInvariance, PTL

\* A step in which a client leaves read_result is its ReadResult.
LEMMA OnlyReadResultReturns ==
    ASSUME BaseInv, Next, NEW t \in Clients, pc[t] = "read_result", pc'[t] = "idle"
    PROVE  ReadResult(t)
  <1>1. t \in Threads /\ pc \in [Threads -> Labels]
    BY Zenon DEF Threads, BaseInv, TypeOK
  <1>2. ASSUME NEW u \in Clients, Call(u) PROVE FALSE
    <2>1. pc[u] = "idle" /\ (pc' = pc \/ \E l : pc' = [pc EXCEPT ![u] = l])
      BY <1>2, Zenon DEF Call, Dispatch, TryWait, WaitAll, ResetFence, ResetSemaphore,
         EnqueueGroup, Goto
    <2> QED
      BY <1>1, <2>1, Zenon
  <1>3. ASSUME NEW u \in Clients, WaitStep(u) PROVE ReadResult(t)
    BY <1>1, <1>3, Zenon DEF WaitStep, HelpEnds, ReadSignal, Poll, WaitAllReturn, ReadResult, Goto
  <1>4. ASSUME NEW u \in Threads, LockedStep(u) PROVE FALSE
    BY <1>1, <1>4, Zenon DEF LockedStep, NotifyGroups, SignalCompleted, EnqueueGroup, EnqueueCount,
       EnqueueStore, Goto
  <1>5. ASSUME NEW u \in Threads, RunStep(u) PROVE FALSE
    BY <1>1, <1>5, Zenon DEF RunStep, Take, ProcessCommands, SetResult, UserFunction, CleanupLock,
       CleanupSignal, SignalSemaphore, SetSignal, Decrement, Goto
  <1>6. ASSUME NEW u \in Threads, SpuriousWake(u) PROVE FALSE
    BY <1>1, <1>6, Zenon DEF SpuriousWake
  <1> QED
    BY <1>2, <1>3, <1>4, <1>5, <1>6, Zenon DEF Next

\* muxTryWait reports the result of a dispatch that is complete, though fence_s::tryWait
\* reads the signal and the result without a lock: what its asserts rely on.
THEOREM TryWaitIsSound == Spec => TryWaitIsFinal
  <1> DEFINE Returns == \A t \in Clients : pc[t] = "read_result" /\ pc'[t] = "idle" =>
                /\ got'[t] = "success"
                /\ \A g \in Groups : FenceOf[g] = goal[t] => Idle(g)
  <1>1. BaseInv /\ [Next]_vars => [Returns]_vars
    <2> SUFFICES ASSUME BaseInv, Next, NEW t \in Clients, pc[t] = "read_result", pc'[t] = "idle"
                 PROVE  /\ got'[t] = "success"
                        /\ \A g \in Groups : FenceOf[g] = goal[t] => Idle(g)
      BY Zenon
    <2>1. /\ goal[t] \in Fences /\ fenceSignal[goal[t]] /\ fenceResult[goal[t]] = "success"
          /\ \A g \in Groups : FenceOf[g] = goal[t] => Idle(g)
      <3>1. TypeOK /\ Control(t) /\ FenceInv
        BY Zenon DEF Threads, BaseInv, ControlInv
      <3> QED
        BY <3>1 DEF TypeOK, Control, FenceInv
    <2>2. DOMAIN got = Clients
      BY Zenon DEF BaseInv, TypeOK
    <2> QED
      BY <2>1, <2>2, OnlyReadResultReturns, Zenon DEF ReadResult
  <1> QED
    BY <1>1, BaseInvariance, PTL DEF Spec, TryWaitIsFinal

-------------------------------------------------------------------------------
\* Lists

\* A set and its image under a one-to-one function have the same size.
LEMMA SameSize ==
    ASSUME NEW S, NEW T, IsFiniteSet(S), NEW f \in [S -> T],
           \A a, b \in S : f[a] = f[b] => a = b,
           \A b \in T : \E a \in S : f[a] = b
    PROVE  IsFiniteSet(T) /\ Cardinality(T) = Cardinality(S)
  <1>1. f \in Bijection(S, T)
    BY Zenon DEF Bijection, Injection, Surjection, IsInjective
  <1> QED
    BY <1>1, FS_Bijection, Zenon DEF ExistsBijection

\* The places of x in a list are finitely many.
LEMMA InFinite ==
    ASSUME NEW S, NEW list \in Seq(S), NEW x
    PROVE  /\ IsFiniteSet(In(list, x)) /\ Cardinality(In(list, x)) \in Nat
           /\ Cardinality(In(list, x)) = 0 <=> In(list, x) = {}
  <1>1. In(list, x) \in SUBSET (1..Len(list)) /\ Len(list) \in Nat
    BY DEF In
  <1>2. IsFiniteSet(1..Len(list))
    BY <1>1, FS_Interval
  <1>3. IsFiniteSet(In(list, x))
    BY <1>1, <1>2, FS_Subset, Zenon
  <1> QED
    BY <1>3, FS_CardinalityType, FS_EmptySet, Zenon

\* The tail has one place of x less, if x is the head.
LEMMA InTail ==
    ASSUME NEW S, NEW list \in Seq(S), list # << >>, NEW x
    PROVE  Cardinality(In(Tail(list), x)) =
              Cardinality(In(list, x)) - (IF Head(list) = x THEN 1 ELSE 0)
  <1> DEFINE rest == In(list, x) \ {1}
             f == [k \in rest |-> k - 1]
  <1>1. /\ Tail(list) \in Seq(S) /\ Len(Tail(list)) = Len(list) - 1
        /\ \A k \in 1..Len(list) - 1 : Tail(list)[k] = list[k + 1]
        /\ Len(list) \in Nat \ {0} /\ Head(list) = list[1]
    OBVIOUS
  <1>2. IsFiniteSet(In(list, x)) /\ Cardinality(In(list, x)) \in Nat
    BY InFinite, Zenon
  <1>3. IsFiniteSet(rest) /\ Cardinality(rest) =
          Cardinality(In(list, x)) - (IF Head(list) = x THEN 1 ELSE 0)
    <2>1. 1 \in In(list, x) <=> Head(list) = x
      BY <1>1 DEF In
    <2> QED
      BY <1>2, <2>1, FS_RemoveElement
  <1>4. \A k \in rest : k \in 2..Len(list) /\ k - 1 \in In(Tail(list), x)
    BY <1>1 DEF In
  <1>5. \A l \in In(Tail(list), x) : l + 1 \in rest /\ l = (l + 1) - 1
    BY <1>1 DEF In
  <1> HIDE DEF rest
  <1>6. /\ f \in [rest -> In(Tail(list), x)]
        /\ \A k, l \in rest : f[k] = f[l] => k = l
    BY <1>4
  <1>7. \A l \in In(Tail(list), x) : \E k \in rest : f[k] = l
    BY <1>5
  <1> HIDE DEF f
  <1> QED
    BY <1>3, <1>6, <1>7, SameSize, Zenon

\* Entries g, behind a list without g.
LEMMA InAppend ==
    ASSUME NEW S, NEW list \in Seq(S), NEW more \in Seq(S), NEW g \in S, NEW x,
           \A k \in DOMAIN more : more[k] = g
    PROVE  /\ x # g => In(list \o more, x) = In(list, x)
           /\ In(list, g) = {} => Cardinality(In(list \o more, g)) = Len(more)
  <1> DEFINE longer == list \o more
  <1>1. /\ DOMAIN longer = 1..(Len(list) + Len(more)) /\ Len(list) \in Nat /\ Len(more) \in Nat
        /\ DOMAIN list = 1..Len(list) /\ DOMAIN more = 1..Len(more)
        /\ \A k \in 1..Len(list) : longer[k] = list[k]
        /\ \A k \in (Len(list) + 1)..(Len(list) + Len(more)) : longer[k] = g
    OBVIOUS
  <1> HIDE DEF longer
  <1>2. x # g => In(longer, x) = In(list, x)
    BY <1>1 DEF In
  <1>3. ASSUME In(list, g) = {} PROVE Cardinality(In(longer, g)) = Len(more)
    <2>1. In(longer, g) = (Len(list) + 1)..(Len(list) + Len(more))
      BY <1>1, <1>3 DEF In
    <2>2. PICK a \in Int, b \in Int : a = Len(list) + 1 /\ b = Len(list) + Len(more)
      BY <1>1
    <2>3. Cardinality(a..b) = IF a > b THEN 0 ELSE b - a + 1
      BY FS_Interval, Zenon
    <2>4. (IF a > b THEN 0 ELSE b - a + 1) = Len(more)
      BY <1>1, <2>2
    <2> QED
      BY <2>1, <2>2, <2>3, <2>4, Zenon
  <1> QED
    BY <1>2, <1>3, Zenon DEF longer

\* A list of n entries g.
LEMMA InRepeat ==
    ASSUME NEW n \in Nat, NEW g, NEW x
    PROVE  /\ x # g => In([k \in 1..n |-> g], x) = {}
           /\ Cardinality(In([k \in 1..n |-> g], g)) = n
  <1>1. In([k \in 1..n |-> g], g) = 1..n /\ (x # g => In([k \in 1..n |-> g], x) = {})
    BY DEF In
  <1>2. Cardinality(1..n) = n
    BY FS_Interval
  <1> QED
    BY <1>1, <1>2, Zenon

\* The head of a list without repetition is not in its tail.
LEMMA UniqueTail ==
    ASSUME NEW S, NEW list \in Seq(S), list # << >>, Unique(list)
    PROVE  /\ Head(list) \in SemsIn(list) /\ Unique(Tail(list))
           /\ SemsIn(Tail(list)) = SemsIn(list) \ {Head(list)}
  <1>1. /\ Len(Tail(list)) = Len(list) - 1 /\ Len(list) \in Nat \ {0} /\ Head(list) = list[1]
        /\ DOMAIN list = 1..Len(list) /\ DOMAIN Tail(list) = 1..Len(list) - 1
        /\ \A k \in 1..Len(list) - 1 : Tail(list)[k] = list[k + 1]
    OBVIOUS
  <1>2. /\ \A k \in DOMAIN list : k = 1 \/ \E l \in DOMAIN Tail(list) : Tail(list)[l] = list[k]
        /\ 1 \in DOMAIN list
    <2>1. \A k \in DOMAIN list : k = 1 \/ (k - 1 \in DOMAIN Tail(list) /\ Tail(list)[k - 1] = list[k])
      BY <1>1
    <2>2. 1 \in DOMAIN list
      BY <1>1
    <2> QED
      BY <2>1, <2>2, Zenon
  <1>3. Unique(Tail(list))
    BY <1>1 DEF Unique
  <1>4. \A k \in DOMAIN list : k = 1 \/ list[k] \in SemsIn(Tail(list))
    BY <1>2, Zenon DEF SemsIn
  <1>5. \A k \in DOMAIN Tail(list) : Tail(list)[k] # list[1] /\ Tail(list)[k] \in SemsIn(list)
    BY <1>1 DEF SemsIn, Unique
  <1>6. \A s \in SemsIn(list) \ {Head(list)} : s \in SemsIn(Tail(list))
    BY <1>1, <1>4, Zenon DEF SemsIn
  <1>7. \A s \in SemsIn(Tail(list)) : s \in SemsIn(list) \ {Head(list)}
    BY <1>1, <1>5, Zenon DEF SemsIn
  <1> QED
    BY <1>1, <1>2, <1>3, <1>6, <1>7, Zenon DEF SemsIn

-------------------------------------------------------------------------------
\* Steps that signal nothing

\* The calls under way are those of the owner of the mutex.
LEMMA DueIs ==
    ASSUME BaseInv
    PROVE  /\ \A t \in Threads : mutex = t => Due = calls[t]
           /\ \A t \in Threads : mutex # t => calls[t] = << >>
           /\ mutex = NoThread => Due = << >>
           /\ Due \in Seq(Groups)
  <1>1. TypeOK /\ ControlInv /\ NoThread \notin Threads
    BY QueueAssumption, Zenon DEF BaseInv
  <1>2. \A t \in Threads : mutex # t => calls[t] = << >>
    BY <1>1, Zenon DEF ControlInv, Control, Locked
  <1>3. Due \in Seq(Groups)
    <2>1. CASE mutex = NoThread
      BY <2>1 DEF Due
    <2>2. CASE mutex \in Threads
      BY <1>1, <2>2, Zenon DEF Due, TypeOK
    <2> QED
      BY <1>1, <2>1, <2>2, Zenon DEF TypeOK
  <1> QED
    BY <1>1, <1>2, <1>3, Zenon DEF Due

LEMMA DueKept ==
    ASSUME BaseInv, BaseInv', calls' = calls
    PROVE  Due' = Due
  <1>1. /\ mutex \in Threads \cup {NoThread} /\ mutex' \in Threads \cup {NoThread}
        /\ NoThread \notin Threads
    BY QueueAssumption, Zenon DEF BaseInv, TypeOK
  <1>2. /\ \A t \in Threads : mutex # t => calls[t] = << >>
        /\ \A t \in Threads : mutex' # t => calls[t] = << >>
    BY <1>1, Zenon DEF BaseInv, ControlInv, Control, Locked
  <1> QED
    BY <1>1, <1>2, Zenon DEF Due

\* A group goes on in a step that signals nothing.
Moves(g) ==
    \/ stage'[g] = stage[g]
    \/ stage[g] = "dispatched" /\ stage'[g] = "queued" /\ \E t \in Threads : enq[t] = g
    \/ stage[g] = "queued" /\ stage'[g] = "running"
    \/ stage[g] = "running" /\ stage'[g] = "executed"
    \/ stage[g] = "executed" /\ stage'[g] = "called"

\* A step that signals nothing, ...
SignalsNothing ==
    /\ UNCHANGED <<signalled, signalSemaphores, sems>>
    /\ \A g \in Groups : Moves(g)
    /\ \A t \in Threads :
          /\ pc'[t] = "cleanup" => job'[t] = job[t] /\ pc[t] \in {"cleanup", "callback"}
          /\ pc'[t] \in Locked /\ job'[t] # NoGroup => pc[t] \in Locked /\ job'[t] = job[t]

\* ... and has no group wait for more or for less.
Quiet ==
    /\ SignalsNothing
    /\ UNCHANGED <<waitCount, waitingGroups, calls>>
    /\ \A t \in Threads :
          enq'[t] = enq[t] \/ (enq'[t] = NoGroup /\ stage'[enq[t]] = "queued")

LEMMA SemaphoreKept ==
    ASSUME BaseInv, SemaphoreInv, SignalsNothing
    PROVE  SemaphoreInv'
  <1>1. \A g \in Groups : /\ Idle(g)' <=> Idle(g)
                          /\ stage'[g] = "cleaned" <=> stage[g] = "cleaned"
                          /\ stage'[g] \in {"dispatched", "queued", "running", "executed"} =>
                                stage[g] \in {"dispatched", "queued", "running", "executed"}
    BY Zenon DEF SignalsNothing, Moves, Idle
  <1>2. /\ \A g, h \in Groups : \A s \in SemsIn(SignalsOf[g]) \cap SemsIn(SignalsOf[h]) :
             Idle(g)' \/ Idle(h)' \/ g = h
        /\ \A g \in Groups :
              signalSemaphores'[g] = IF Idle(g)' \/ stage'[g] = "cleaned" THEN << >>
                                     ELSE SignalsOf[g]
        /\ \A g \in Groups : \A s \in SemsIn(SignalsOf[g]) :
              /\ stage'[g] \in {"dispatched", "queued", "running", "executed"} => ~signalled'[s]
              /\ stage'[g] = "cleaned" => signalled'[s]
    BY <1>1, Zenon DEF SemaphoreInv, SignalsNothing
  <1>3. ASSUME NEW t \in Threads PROVE Signalling(t)'
    <2>1. /\ Signalling(t) /\ UNCHANGED <<signalled, sems>>
          /\ pc'[t] = "cleanup" => job'[t] = job[t] /\ pc[t] \in {"cleanup", "callback"}
          /\ pc'[t] \in Locked /\ job'[t] # NoGroup => pc[t] \in Locked /\ job'[t] = job[t]
      BY Zenon DEF SemaphoreInv, SignalsNothing
    <2>2. pc[t] = "callback" => job[t] \in Groups /\ stage[job[t]] = "executed"
      <3>1. TypeOK /\ Control(t) /\ Placed(t)
        BY Zenon DEF BaseInv, ControlInv, StageInv
      <3> QED
        BY <3>1, Zenon DEF TypeOK, Control, Running, Placed
    <2>3. pc[t] = "callback" => \A s \in SemsIn(SignalsOf[job[t]]) : ~signalled[s]
      BY <2>2, Zenon DEF SemaphoreInv
    <2> QED
      BY <2>1, <2>3, Zenon DEF Signalling
  <1> QED
    BY <1>2, <1>3, Zenon DEF SemaphoreInv

\* The counts stay, and the groups that are tracked.
LEMMA CountKept ==
    ASSUME BaseInv, BaseInv', CountInv, ExactInv,
           UNCHANGED <<waitCount, signalled, waitingGroups, calls>>,
           \A t \in Threads : enq'[t] # NoGroup => enq'[t] = enq[t],
           \A g \in Groups : /\ Tracked(g)' <=> Tracked(g)
                             /\ stage'[g] \notin {"idle", "dispatched", "complete"} =>
                                   \/ stage[g] \notin {"idle", "dispatched", "complete"}
                                   \/ \E t \in Threads : enq[t] = g
    PROVE  CountInv' /\ ExactInv'
  <1>1. Due' = Due
    BY DueKept, Zenon
  <1>2. \A g : Unsignalled(g)' = Unsignalled(g) /\ Left(g)' = Left(g)
    BY <1>1, Zenon DEF Unsignalled, Left
  <1>3. NoGroup \notin Groups
    BY QueueAssumption, Zenon
  <1>4. /\ \A g \in Groups : waitCount'[g] # 0 => Left(g)' <= waitCount'[g]
        /\ \A t \in Threads : enq'[t] # NoGroup => Unsignalled(enq[t])' = {}
        /\ \A g \in Groups : \A s \in Semaphores : ~signalled'[s] =>
              /\ Cardinality(In(waitingGroups'[s], g)) <= Cardinality(In(WaitsOf[g], s))
              /\ In(waitingGroups'[s], g) # {} => Tracked(g)'
    BY <1>2, Zenon DEF CountInv
  <1>5. \A g \in Groups : stage'[g] \notin {"idle", "dispatched", "complete"} =>
          Unsignalled(g)' = {}
    BY <1>2, <1>3, Zenon DEF CountInv
  <1>6. ExactInv'
    BY <1>1, <1>2, Zenon DEF ExactInv
  <1> QED
    BY <1>4, <1>5, <1>6, Zenon DEF CountInv

LEMMA QuietKept ==
    ASSUME BaseInv, BaseInv', OrderInv, Quiet
    PROVE  OrderInv'
  <1>1. NoGroup \notin Groups
    BY QueueAssumption, Zenon
  <1>2. ASSUME NEW g \in Groups PROVE Tracked(g)' <=> Tracked(g)
    <2>1. /\ Moves(g)
          /\ \A t \in Threads : enq'[t] = enq[t] \/ (enq'[t] = NoGroup /\ stage'[enq[t]] = "queued")
      BY Zenon DEF Quiet, SignalsNothing
    <2>2. Tracked(g) => stage'[g] = "dispatched"
      BY <2>1, Zenon DEF Moves, Tracked
    <2>3. Tracked(g)' => stage[g] = "dispatched"
      BY <2>1, Zenon DEF Moves, Tracked
    <2> QED
      BY <1>1, <2>1, <2>2, <2>3, Zenon DEF Tracked
  <1>3. CountInv' /\ ExactInv'
    BY <1>2, CountKept, Zenon DEF Quiet, SignalsNothing, Moves, OrderInv
  <1> QED
    BY <1>3, SemaphoreKept, Zenon DEF OrderInv, Quiet

\* A thread goes on, and nothing else changes that matters here.
LEMMA QuietPc ==
    ASSUME BaseInv, NEW t \in Threads, NEW label, pc' = [pc EXCEPT ![t] = label],
           label # "cleanup", label \in Locked => pc[t] \in Locked,
           UNCHANGED <<waitCount, signalled, waitingGroups, calls, signalSemaphores, sems,
                       enq, job, stage>>
    PROVE  Quiet
  <1>1. pc'[t] = label /\ \A u \in Threads \ {t} : pc'[u] = pc[u]
    BY Zenon DEF BaseInv, TypeOK
  <1> QED
    BY <1>1, Zenon DEF Quiet, SignalsNothing, Moves

\* The waits of a client, and the calls that leave groups and semaphores alone.
LEMMA QuietClient ==
    ASSUME BaseInv, NEW t \in Clients,
           \/ \E f \in Fences : TryWait(t, f, "help") \/ TryWait(t, f, "poll") \/ ResetFence(t, f)
           \/ WaitAll(t) \/ WaitStep(t)
    PROVE  Quiet
  <1>1. t \in Threads
    BY Zenon DEF Threads
  <1>2. ASSUME NEW f \in Fences, NEW label \in {"help", "poll"}, TryWait(t, f, label)
        PROVE  Quiet
    BY <1>1, <1>2, QuietPc, Zenon DEF TryWait, Goto, semVars, loopVars, Locked
  <1>3. ASSUME NEW f \in Fences, ResetFence(t, f) PROVE Quiet
    BY <1>3, Zenon DEF ResetFence, semVars, loopVars, Quiet, SignalsNothing, Moves
  <1>4. ASSUME WaitAll(t) \/ WaitAllReturn(t) PROVE Quiet
    BY <1>1, <1>4, QuietPc, Zenon
       DEF WaitAll, WaitAllReturn, Goto, semVars, loopVars, Locked
  <1>5. ASSUME HelpEnds(t) \/ ReadSignal(t) PROVE Quiet
    BY <1>1, <1>5, QuietPc, Zenon
       DEF HelpEnds, ReadSignal, AfterWait, Goto, semVars, loopVars, Locked
  <1>6. ASSUME Poll(t) \/ ReadResult(t) PROVE Quiet
    BY <1>1, <1>6, QuietPc, Zenon DEF Poll, ReadResult, Goto, semVars, loopVars, Locked
  <1> QED
    BY <1>2, <1>3, <1>4, <1>5, <1>6, Zenon DEF WaitStep

\* The steps of a thread that stores, takes or runs a group.
LEMMA QuietThread ==
    ASSUME BaseInv, NEW t \in Threads,
           \/ EnqueueCount(t) \/ EnqueueStore(t) \/ Take(t) \/ ProcessCommands(t)
           \/ SetResult(t) \/ UserFunction(t) \/ Decrement(t) \/ SpuriousWake(t)
    PROVE  Quiet
  <1>inv. TypeOK /\ Control(t) /\ Placed(t) /\ RunsOnce /\ StageInv
    BY Zenon DEF BaseInv, ControlInv, StageInv
  <1>1. /\ DOMAIN pc = Threads /\ DOMAIN stage = Groups /\ DOMAIN enq = Threads
        /\ DOMAIN job = Threads
    BY <1>inv, Zenon DEF TypeOK
  <1>2. CASE EnqueueCount(t)
    BY <1>2, QuietPc, Zenon DEF EnqueueCount, Goto, semVars, loopVars, Locked
  <1>3. CASE SetResult(t)
    BY <1>3, QuietPc, Zenon DEF SetResult, Goto, semVars, loopVars, Locked
  <1>4. CASE SpuriousWake(t)
    BY <1>4, Zenon DEF SpuriousWake, semVars, loopVars, Quiet, SignalsNothing, Moves
  <1>5. CASE EnqueueStore(t)
    <2>1. /\ UNCHANGED <<waitCount, signalled, waitingGroups, calls, signalSemaphores, sems, job>>
          /\ pc[t] = "enq_store"
      BY <1>5, Zenon DEF EnqueueStore, semVars
    <2>2. enq[t] \in Groups /\ stage[enq[t]] = "dispatched"
      BY <1>inv, <2>1, Zenon DEF TypeOK, Control, StageInv
    <2>3. CASE UNCHANGED <<stage, enq, pc>>
      BY <2>1, <2>3, Zenon DEF Quiet, SignalsNothing, Moves
    <2>4. CASE /\ stage' = [stage EXCEPT ![enq[t]] = "queued"]
               /\ enq' = [enq EXCEPT ![t] = NoGroup] /\ pc' = [pc EXCEPT ![t] = "notify"]
      <3>1. /\ stage'[enq[t]] = "queued" /\ enq'[t] = NoGroup /\ pc'[t] = "notify"
            /\ \A g \in Groups \ {enq[t]} : stage'[g] = stage[g]
            /\ \A u \in Threads \ {t} : enq'[u] = enq[u] /\ pc'[u] = pc[u]
        BY <1>1, <2>2, <2>4, Zenon
      <3>2. \A g \in Groups : Moves(g)
        BY <2>2, <3>1, Zenon DEF Moves
      <3> QED
        BY <2>1, <3>1, <3>2, Zenon DEF Quiet, SignalsNothing, Locked
    <2> QED
      BY <1>5, <2>3, <2>4, Zenon DEF EnqueueStore, Goto
  <1>6. CASE Take(t)
    <2>1. /\ UNCHANGED <<waitCount, signalled, waitingGroups, calls, signalSemaphores, sems, enq>>
          /\ job' = [job EXCEPT ![t] = Head(pending)] /\ pc' = [pc EXCEPT ![t] = "process"]
          /\ stage' = [stage EXCEPT ![Head(pending)] = "running"] /\ pending # << >>
      BY <1>6, Zenon DEF Take, Goto, semVars, loopVars
    <2>2. Head(pending) = pending[1] /\ 1 \in DOMAIN pending /\ Head(pending) \in Groups
      BY <1>inv, <2>1 DEF TypeOK
    <2>3. stage[Head(pending)] = "queued"
      BY <1>inv, <2>2, Zenon DEF RunsOnce
    <2>4. /\ pc'[t] = "process"
          /\ \A u \in Threads \ {t} : job'[u] = job[u] /\ pc'[u] = pc[u]
          /\ \A g \in Groups : Moves(g)
      BY <1>1, <2>1, <2>2, <2>3, Zenon DEF Moves
    <2> QED
      BY <2>1, <2>4, Zenon DEF Quiet, SignalsNothing, Locked
  <1>7. CASE ProcessCommands(t) \/ UserFunction(t)
    <2>1. /\ UNCHANGED <<waitCount, signalled, waitingGroups, calls, signalSemaphores, sems, enq, job>>
          /\ \/ /\ pc[t] = "process" /\ pc' = [pc EXCEPT ![t] = "result"]
                /\ stage' = [stage EXCEPT ![job[t]] = "executed"]
             \/ /\ pc[t] = "callback" /\ pc' = [pc EXCEPT ![t] = "cleanup"]
                /\ stage' = [stage EXCEPT ![job[t]] = "called"]
      BY <1>7, Zenon DEF ProcessCommands, UserFunction, Goto, semVars, loopVars
    <2>2. /\ job[t] \in Groups
          /\ pc[t] = "process" => stage[job[t]] = "running"
          /\ pc[t] = "callback" => stage[job[t]] = "executed"
      BY <1>inv, <2>1, Zenon DEF TypeOK, Control, Running, Placed
    <2>3. /\ \A u \in Threads \ {t} : pc'[u] = pc[u]
          /\ pc'[t] = "result" \/ (pc'[t] = "cleanup" /\ pc[t] = "callback")
      BY <1>1, <2>1, Zenon
    <2>4. \A g \in Groups : Moves(g)
      BY <1>1, <2>1, <2>2, Zenon DEF Moves
    <2> QED
      BY <2>1, <2>3, <2>4, Zenon DEF Quiet, SignalsNothing, Locked
  <1>8. CASE Decrement(t)
    <2>1. /\ UNCHANGED <<waitCount, signalled, waitingGroups, calls, signalSemaphores, sems, enq, stage>>
          /\ job' = [job EXCEPT ![t] = NoGroup]
          /\ pc' = [pc EXCEPT ![t] = IF t \in Workers THEN "get" ELSE "help"]
      BY <1>8, Zenon DEF Decrement, Goto, semVars, loopVars
    <2>2. /\ \A u \in Threads \ {t} : job'[u] = job[u] /\ pc'[u] = pc[u]
          /\ pc'[t] \in {"get", "help"} /\ job'[t] = NoGroup
      BY <1>1, <2>1, Zenon
    <2> QED
      BY <2>1, <2>2, Zenon DEF Quiet, SignalsNothing, Moves, Locked
  <1> QED
    BY <1>2, <1>3, <1>4, <1>5, <1>6, <1>7, <1>8, Zenon

-------------------------------------------------------------------------------
\* Cleaning up

\* A thread that stays where it is has the same semaphores to signal.
LEMMA SignallingKept ==
    ASSUME NEW u, Signalling(u), pc'[u] = pc[u], sems'[u] = sems[u], job'[u] = job[u],
           UNCHANGED signalled
    PROVE  Signalling(u)'
  BY Zenon DEF Signalling

\* A thread that cleans up takes the list of the semaphores, none signalled.
LEMMA CleanupLockOrder ==
    ASSUME SignalsOnce, BaseInv, BaseInv', OrderInv, NEW t \in Threads, CleanupLock(t)
    PROVE  OrderInv'
  <1>inv. TypeOK /\ Control(t) /\ Placed(t) /\ SemaphoreInv /\ CountInv /\ ExactInv
    BY Zenon DEF BaseInv, ControlInv, StageInv, OrderInv
  <1>1. /\ pc[t] = "cleanup" /\ sems' = [sems EXCEPT ![t] = signalSemaphores[job[t]]]
        /\ pc' = [pc EXCEPT ![t] = "signal"]
        /\ UNCHANGED <<waitCount, signalled, waitingGroups, signalSemaphores, calls, enq, job,
                       stage>>
    BY Zenon DEF CleanupLock, Goto, semVars
  <1>2. job[t] \in Groups /\ stage[job[t]] = "called"
    BY <1>inv, <1>1, Zenon DEF TypeOK, Control, Running, Placed
  <1>3. signalSemaphores[job[t]] = SignalsOf[job[t]] /\ Unique(SignalsOf[job[t]])
    BY <1>inv, <1>2, Zenon DEF SemaphoreInv, Idle, SignalsOnce
  <1>4. /\ \A u \in Threads \ {t} : pc'[u] = pc[u] /\ sems'[u] = sems[u]
        /\ sems'[t] = SignalsOf[job[t]] /\ pc'[t] = "signal"
    BY <1>inv, <1>1, <1>3, Zenon DEF TypeOK
  <1>5. Signalling(t)'
    <2>1. \A s \in SemsIn(SignalsOf[job[t]]) : ~signalled[s]
      BY <1>inv, <1>1, Zenon DEF SemaphoreInv, Signalling
    <2>2. SemsIn(SignalsOf[job[t]]) = {s \in SemsIn(SignalsOf[job[t]]) : ~signalled[s]}
      BY <2>1, Zenon
    <2> QED
      BY <1>1, <1>3, <1>4, <2>2, Zenon DEF Signalling
  <1>6. ASSUME NEW u \in Threads \ {t} PROVE Signalling(u)'
    <2>1. Signalling(u) /\ pc'[u] = pc[u] /\ sems'[u] = sems[u]
      BY <1>inv, <1>4, Zenon DEF SemaphoreInv
    <2> QED
      BY <1>1, <2>1, SignallingKept, Zenon
  <1>7. SemaphoreInv'
    BY <1>inv, <1>1, <1>5, <1>6, Zenon DEF SemaphoreInv, Idle
  <1>8. CountInv' /\ ExactInv'
    BY <1>inv, <1>1, CountKept, Zenon DEF Tracked
  <1> QED
    BY <1>7, <1>8, Zenon DEF OrderInv

\* The thread has signalled them all.
LEMMA CleanupEndOrder ==
    ASSUME BaseInv, BaseInv', OrderInv, NEW t \in Threads, CleanupSignal(t), sems[t] = << >>
    PROVE  OrderInv'
  <1>inv. TypeOK /\ Control(t) /\ Placed(t) /\ SemaphoreInv /\ CountInv /\ ExactInv
    BY Zenon DEF BaseInv, ControlInv, StageInv, OrderInv
  <1>1. /\ pc[t] = "signal" /\ pc' = [pc EXCEPT ![t] = "set_signal"]
        /\ signalSemaphores' = [signalSemaphores EXCEPT ![job[t]] = << >>]
        /\ stage' = [stage EXCEPT ![job[t]] = "cleaned"]
        /\ UNCHANGED <<waitCount, signalled, waitingGroups, calls, enq, job, sems>>
    BY Zenon DEF CleanupSignal, SignalSemaphore, Goto
  <1>2. job[t] \in Groups /\ job[t] # NoGroup /\ stage[job[t]] = "called"
    BY <1>inv, <1>1, QueueAssumption, Zenon DEF TypeOK, Control, Running, Placed, Locked
  <1>3. /\ stage'[job[t]] = "cleaned" /\ signalSemaphores'[job[t]] = << >>
        /\ pc'[t] = "set_signal" /\ \A u \in Threads \ {t} : pc'[u] = pc[u]
        /\ \A g \in Groups \ {job[t]} :
              stage'[g] = stage[g] /\ signalSemaphores'[g] = signalSemaphores[g]
    BY <1>inv, <1>1, <1>2, Zenon DEF TypeOK
  <1>4. \A s \in SemsIn(SignalsOf[job[t]]) : signalled[s]
    <2>1. SemsIn(<< >>) = {}
      BY DEF SemsIn
    <2>2. {s \in SemsIn(SignalsOf[job[t]]) : ~signalled[s]} = {}
      BY <1>inv, <1>1, <1>2, <2>1, Zenon DEF SemaphoreInv, Signalling, Locked
    <2> QED
      BY <2>2, Zenon
  <1>5. ASSUME NEW u \in Threads PROVE Signalling(u)'
    <2>1. CASE u = t
      BY <1>3, <2>1, Zenon DEF Signalling, Locked
    <2>2. CASE u # t
      <3>1. Signalling(u) /\ pc'[u] = pc[u]
        BY <1>inv, <1>3, <2>2, Zenon DEF SemaphoreInv
      <3> QED
        BY <1>1, <3>1, SignallingKept, Zenon
    <2> QED
      BY <2>1, <2>2, Zenon
  <1>6. \A g \in Groups : Idle(g)' <=> Idle(g)
    BY <1>2, <1>3, Zenon DEF Idle
  <1>7. /\ \A g, h \in Groups : \A s \in SemsIn(SignalsOf[g]) \cap SemsIn(SignalsOf[h]) :
             Idle(g)' \/ Idle(h)' \/ g = h
        /\ \A g \in Groups :
              signalSemaphores'[g] = IF Idle(g)' \/ stage'[g] = "cleaned" THEN << >>
                                     ELSE SignalsOf[g]
    BY <1>inv, <1>3, <1>6, Zenon DEF SemaphoreInv
  <1>8. \A g \in Groups : \A s \in SemsIn(SignalsOf[g]) :
           /\ stage'[g] \in {"dispatched", "queued", "running", "executed"} => ~signalled[s]
           /\ stage'[g] = "cleaned" => signalled[s]
    BY <1>inv, <1>3, <1>4, Zenon DEF SemaphoreInv
  <1>9. SemaphoreInv'
    BY <1>1, <1>5, <1>7, <1>8, Zenon DEF SemaphoreInv
  <1>10. CountInv' /\ ExactInv'
    BY <1>inv, <1>1, <1>2, <1>3, CountKept, Zenon DEF Tracked
  <1> QED
    BY <1>9, <1>10, Zenon DEF OrderInv

\* The group is complete.
LEMMA SetSignalOrder ==
    ASSUME BaseInv, BaseInv', OrderInv, NEW t \in Threads, SetSignal(t)
    PROVE  OrderInv'
  <1>inv. TypeOK /\ Control(t) /\ Placed(t) /\ SemaphoreInv /\ CountInv /\ ExactInv
    BY Zenon DEF BaseInv, ControlInv, StageInv, OrderInv
  <1>1. /\ pc[t] = "set_signal" /\ pc' = [pc EXCEPT ![t] = "decrement"]
        /\ stage' = [stage EXCEPT ![job[t]] = "complete"]
        /\ UNCHANGED <<waitCount, signalled, waitingGroups, signalSemaphores, calls, enq, job,
                       sems>>
    BY Zenon DEF SetSignal, Goto, semVars, loopVars
  <1>2. job[t] \in Groups /\ stage[job[t]] = "cleaned"
    BY <1>inv, <1>1, Zenon DEF TypeOK, Control, Running, Placed
  <1>3. /\ stage'[job[t]] = "complete" /\ pc'[t] = "decrement"
        /\ \A u \in Threads \ {t} : pc'[u] = pc[u]
        /\ \A g \in Groups \ {job[t]} : stage'[g] = stage[g]
    BY <1>inv, <1>1, <1>2, Zenon DEF TypeOK
  <1>4. \A g \in Groups : /\ Idle(g) => Idle(g)'
                          /\ (Idle(g)' \/ stage'[g] = "cleaned") <=> (Idle(g) \/ stage[g] = "cleaned")
    BY <1>2, <1>3, Zenon DEF Idle
  <1>5. ASSUME NEW u \in Threads PROVE Signalling(u)'
    <2>1. CASE u = t
      BY <1>3, <2>1, Zenon DEF Signalling, Locked
    <2>2. CASE u # t
      <3>1. Signalling(u) /\ pc'[u] = pc[u]
        BY <1>inv, <1>3, <2>2, Zenon DEF SemaphoreInv
      <3> QED
        BY <1>1, <3>1, SignallingKept, Zenon
    <2> QED
      BY <2>1, <2>2, Zenon
  <1>6. /\ \A g, h \in Groups : \A s \in SemsIn(SignalsOf[g]) \cap SemsIn(SignalsOf[h]) :
             Idle(g)' \/ Idle(h)' \/ g = h
        /\ \A g \in Groups :
              signalSemaphores'[g] = IF Idle(g)' \/ stage'[g] = "cleaned" THEN << >>
                                     ELSE SignalsOf[g]
    BY <1>inv, <1>1, <1>4, Zenon DEF SemaphoreInv
  <1>7. \A g \in Groups : \A s \in SemsIn(SignalsOf[g]) :
           /\ stage'[g] \in {"dispatched", "queued", "running", "executed"} => ~signalled[s]
           /\ stage'[g] = "cleaned" => signalled[s]
    BY <1>inv, <1>3, Zenon DEF SemaphoreInv
  <1>8. SemaphoreInv'
    BY <1>1, <1>5, <1>6, <1>7, Zenon DEF SemaphoreInv
  <1>9. CountInv' /\ ExactInv'
    BY <1>inv, <1>1, <1>2, <1>3, CountKept, Zenon DEF Tracked
  <1> QED
    BY <1>8, <1>9, Zenon DEF OrderInv

-------------------------------------------------------------------------------
\* Signalling a semaphore

\* The waits of a group are finitely many.
LEMMA WaitsFinite ==
    ASSUME NEW g \in Groups, NEW W \in SUBSET DOMAIN WaitsOf[g]
    PROVE  IsFiniteSet(W) /\ Cardinality(W) \in Nat
  <1>1. DOMAIN WaitsOf[g] = 1..Len(WaitsOf[g]) /\ Len(WaitsOf[g]) \in Nat
    BY QueueAssumption
  <1>2. IsFiniteSet(DOMAIN WaitsOf[g])
    BY <1>1, FS_Interval
  <1> QED
    BY <1>2, FS_Subset, FS_CardinalityType, Zenon

\* A signal takes its semaphore from what a group waits for.
LEMMA UnsignalledLess ==
    ASSUME signalled \in [Semaphores -> BOOLEAN], NEW s \in Semaphores, ~signalled[s],
           signalled' = [signalled EXCEPT ![s] = TRUE], NEW g \in Groups
    PROVE  /\ Unsignalled(g)' \subseteq Unsignalled(g)
           /\ Cardinality(Unsignalled(g)') \in Nat /\ Cardinality(In(WaitsOf[g], s)) \in Nat
           /\ Cardinality(Unsignalled(g)) =
                 Cardinality(Unsignalled(g)') + Cardinality(In(WaitsOf[g], s))
  <1>1. WaitsOf[g] \in Seq(Semaphores)
    BY QueueAssumption, Zenon
  <1>2. \A k \in DOMAIN WaitsOf[g] : WaitsOf[g][k] \in Semaphores
    BY <1>1
  <1>3. /\ Unsignalled(g) = Unsignalled(g)' \cup In(WaitsOf[g], s)
        /\ Unsignalled(g)' \cap In(WaitsOf[g], s) = {}
    BY <1>2 DEF Unsignalled, In
  <1>4. /\ IsFiniteSet(Unsignalled(g)') /\ Cardinality(Unsignalled(g)') \in Nat
        /\ IsFiniteSet(In(WaitsOf[g], s)) /\ Cardinality(In(WaitsOf[g], s)) \in Nat
    BY WaitsFinite, Zenon DEF Unsignalled, In
  <1>5. Cardinality(Unsignalled(g)) = Cardinality(Unsignalled(g)')
          + Cardinality(In(WaitsOf[g], s)) - Cardinality({})
    BY <1>3, <1>4, FS_Union, Zenon
  <1> QED
    BY <1>3, <1>4, <1>5, FS_EmptySet

\* semaphore_s::signal makes the signals that were to come the calls to be made.
LEMMA SignalSemaphoreOrder ==
    ASSUME BaseInv, BaseInv', OrderInv, NEW t \in Threads, CleanupSignal(t), sems[t] # << >>
    PROVE  OrderInv'
  <1> DEFINE s == Head(sems[t])
  <1>inv. /\ TypeOK /\ ControlInv /\ Control(t) /\ StageInv /\ Placed(t)
          /\ SemaphoreInv /\ CountInv /\ ExactInv
    BY Zenon DEF BaseInv, ControlInv, StageInv, OrderInv
  <1>1. /\ pc[t] = "signal" /\ pc' = [pc EXCEPT ![t] = "notify"]
        /\ signalled' = [signalled EXCEPT ![s] = TRUE]
        /\ sems' = [sems EXCEPT ![t] = Tail(@)]
        /\ calls' = [calls EXCEPT ![t] = waitingGroups[s]]
        /\ UNCHANGED <<mutex, waitCount, waitingGroups, signalSemaphores, enq, job, stage>>
    BY Zenon DEF CleanupSignal, SignalSemaphore, SetSignalled, NextSemaphore, Goto
  <1>2. /\ job[t] \in Groups /\ job[t] # NoGroup /\ stage[job[t]] = "called" /\ ~Idle(job[t])
        /\ mutex = t /\ calls[t] = << >> /\ pc[t] # "decrement"
    BY <1>inv, <1>1, QueueAssumption, Zenon DEF TypeOK, Control, Running, Placed, Locked, Idle
  <1>3. /\ Unique(sems[t]) /\ sems[t] \in Seq(Semaphores)
        /\ SemsIn(sems[t]) = {r \in SemsIn(SignalsOf[job[t]]) : ~signalled[r]}
    BY <1>inv, <1>1, <1>2, Zenon DEF TypeOK, SemaphoreInv, Signalling, Locked
  <1>4. /\ s \in SemsIn(sems[t]) /\ Unique(Tail(sems[t]))
        /\ SemsIn(Tail(sems[t])) = SemsIn(sems[t]) \ {s}
    BY <1>3, UniqueTail, Zenon
  <1>5. s \in SemsIn(SignalsOf[job[t]]) /\ ~signalled[s]
    BY <1>3, <1>4, Zenon
  <1>6. s \in Semaphores
    BY <1>3
  <1> HIDE DEF s
  <1>7. /\ signalled'[s] /\ \A r \in Semaphores \ {s} : signalled'[r] <=> signalled[r]
        /\ calls'[t] = waitingGroups[s] /\ sems'[t] = Tail(sems[t]) /\ pc'[t] = "notify"
        /\ \A u \in Threads \ {t} : pc'[u] = pc[u] /\ sems'[u] = sems[u]
    BY <1>inv, <1>1, <1>6, Zenon DEF TypeOK
  <1>8. \A g \in Groups : \A r \in SemsIn(SignalsOf[g]) : r \in Semaphores
    <2>1. \A g \in Groups : SignalsOf[g] \in Seq(Semaphores)
      BY QueueAssumption, Zenon
    <2>2. \A g \in Groups : \A k \in DOMAIN SignalsOf[g] : SignalsOf[g][k] \in Semaphores
      BY <2>1
    <2> QED
      BY <2>2, Zenon DEF SemsIn
  <1>9. SemaphoreInv'
    <2>1. \A g \in Groups : \A r \in SemsIn(SignalsOf[g]) :
             /\ stage[g] \in {"dispatched", "queued", "running", "executed"} => ~signalled'[r]
             /\ stage[g] = "cleaned" => signalled'[r]
      <3> SUFFICES ASSUME NEW g \in Groups, NEW r \in SemsIn(SignalsOf[g])
                   PROVE  /\ stage[g] \in {"dispatched", "queued", "running", "executed"} =>
                                ~signalled'[r]
                          /\ stage[g] = "cleaned" => signalled'[r]
        BY Zenon
      <3>1. CASE r = s
        <4>1. Idle(g) \/ g = job[t]
          BY <1>inv, <1>2, <1>5, <3>1, Zenon DEF SemaphoreInv
        <4> QED
          BY <1>2, <1>7, <3>1, <4>1, Zenon DEF Idle
      <3>2. CASE r # s
        BY <1>inv, <1>7, <1>8, <3>2, Zenon DEF SemaphoreInv
      <3> QED
        BY <3>1, <3>2, Zenon
    <2>2. Signalling(t)'
      <3>1. SemsIn(Tail(sems[t])) = {r \in SemsIn(SignalsOf[job[t]]) : ~signalled'[r]}
        BY <1>2, <1>3, <1>4, <1>7, <1>8, Zenon
      <3> QED
        BY <1>1, <1>4, <1>7, <3>1, Zenon DEF Signalling
    <2>3. ASSUME NEW u \in Threads \ {t} PROVE Signalling(u)'
      <3>1. pc[u] \notin Locked
        BY <1>inv, <1>2, <2>3, Zenon DEF ControlInv, Control
      <3>2. pc[u] = "cleanup" => job[u] \in Groups /\ ~Idle(job[u]) /\ job[u] # job[t]
        <4>1. Control(u) /\ Placed(u) /\ job[u] \in Groups \cup {NoGroup}
          BY <1>inv, <2>3, Zenon DEF ControlInv, StageInv, TypeOK
        <4>2. pc[u] = "cleanup" => job[u] \in Groups /\ stage[job[u]] = "called"
          BY <4>1, Zenon DEF Control, Running, Placed
        <4>3. pc[u] = "cleanup" => job[u] # job[t]
          BY <1>2, <2>3, RunsGroup, Zenon
        <4> QED
          BY <4>2, <4>3, Zenon DEF Idle
      <3>3. pc[u] = "cleanup" => s \notin SemsIn(SignalsOf[job[u]])
        BY <1>inv, <1>2, <1>5, <3>2, Zenon DEF SemaphoreInv
      <3>4. pc[u] = "cleanup" => \A r \in SemsIn(SignalsOf[job[u]]) : ~signalled'[r]
        BY <1>inv, <1>7, <1>8, <2>3, <3>2, <3>3, Zenon DEF SemaphoreInv, Signalling
      <3> QED
        BY <1>1, <1>7, <2>3, <3>1, <3>4, Zenon DEF Signalling
    <2> QED
      BY <1>inv, <1>1, <2>1, <2>2, <2>3, Zenon DEF SemaphoreInv, Idle
  <1>10. Due = << >> /\ Due' = waitingGroups[s] /\ waitingGroups[s] \in Seq(Groups)
    <2>1. mutex # NoThread
      BY <1>2, QueueAssumption, Zenon
    <2> QED
      BY <1>inv, <1>1, <1>2, <1>6, <1>7, <2>1, Zenon DEF Due, TypeOK
  <1>11. ASSUME NEW g \in Groups
         PROVE  /\ Unsignalled(g)' \subseteq Unsignalled(g)
                /\ Left(g)' <= Left(g) /\ Left(g) \in Nat /\ Left(g)' \in Nat
                /\ Cardinality(In(waitingGroups[s], g)) = Cardinality(In(WaitsOf[g], s)) =>
                      Left(g)' = Left(g)
    <2>1. /\ Unsignalled(g)' \subseteq Unsignalled(g)
          /\ Cardinality(Unsignalled(g)') \in Nat /\ Cardinality(In(WaitsOf[g], s)) \in Nat
          /\ Cardinality(Unsignalled(g)) =
                Cardinality(Unsignalled(g)') + Cardinality(In(WaitsOf[g], s))
      BY <1>inv, <1>1, <1>5, <1>6, UnsignalledLess, Zenon DEF TypeOK
    <2>2. /\ Cardinality(In(waitingGroups[s], g)) <= Cardinality(In(WaitsOf[g], s))
          /\ Cardinality(In(waitingGroups[s], g)) \in Nat
      BY <1>inv, <1>5, <1>6, <1>10, InFinite, Zenon DEF CountInv
    <2>3. Cardinality(In(<< >>, g)) = 0
      <3>1. In(<< >>, g) = {}
        BY DEF In
      <3> QED
        BY <3>1, FS_EmptySet, Zenon
    <2>4. /\ Left(g) = Cardinality(Unsignalled(g)) + 0
          /\ Left(g)' = Cardinality(Unsignalled(g)') + Cardinality(In(waitingGroups[s], g))
      BY <1>10, <2>3, Zenon DEF Left
    <2> QED
      BY <2>1, <2>2, <2>4
  <1>12. \A g : Tracked(g)' <=> Tracked(g)
    BY <1>1, Zenon DEF Tracked
  <1>13. CountInv'
    <2>1. \A g \in Groups : waitCount[g] # 0 => Left(g)' <= waitCount[g]
      BY <1>inv, <1>11 DEF CountInv, TypeOK
    <2>2. /\ \A u \in Threads : enq[u] # NoGroup => Unsignalled(enq[u])' = {}
          /\ \A g \in Groups : stage[g] \notin {"idle", "dispatched", "complete"} =>
                Unsignalled(g)' = {}
      <3>1. \A u \in Threads : enq[u] # NoGroup => enq[u] \in Groups
        BY <1>inv, Zenon DEF TypeOK
      <3> QED
        BY <1>inv, <1>1, <1>11, <3>1, Zenon DEF CountInv, Unsignalled
    <2>3. \A r \in Semaphores : ~signalled'[r] => ~signalled[r]
      BY <1>7, Zenon
    <2> QED
      BY <1>inv, <1>1, <1>12, <2>1, <2>2, <2>3, Zenon DEF CountInv
  <1>14. ExactInv'
    <2> SUFFICES ASSUME ~AllocFails PROVE ExactInv'
      BY Zenon DEF ExactInv
    <2>1. \A r \in Semaphores : ~signalled'[r] => ~signalled[r]
      BY <1>7, Zenon
    <2>2. \A g \in Groups : Tracked(g) => waitCount[g] # 0 /\ waitCount[g] = Left(g)'
      BY <1>inv, <1>5, <1>6, <1>11, Zenon DEF ExactInv
    <2>3. \A g \in Groups : In(Due', g) # {} => Tracked(g)
      BY <1>inv, <1>5, <1>6, <1>10, Zenon DEF CountInv
    <2> QED
      BY <1>inv, <1>1, <1>12, <2>1, <2>2, <2>3, Zenon DEF ExactInv
  <1> QED
    BY <1>9, <1>13, <1>14, Zenon DEF OrderInv

-------------------------------------------------------------------------------
\* Resetting a semaphore, calling signalCompleted, and dispatching

\* hostResetSemaphore: no group waits for the semaphore or is to signal it.
LEMMA ResetSemaphoreOrder ==
    ASSUME BaseInv, BaseInv', OrderInv, NEW t \in Clients, NEW s \in Semaphores,
           ResetSemaphore(t, s)
    PROVE  OrderInv'
  <1>inv. /\ TypeOK /\ ControlInv /\ StageInv /\ SemaphoreInv /\ CountInv /\ ExactInv
    BY Zenon DEF BaseInv, OrderInv
  <1>1. /\ \A g \in Groups :
              s \in SemsIn(SignalsOf[g]) \cup SemsIn(WaitsOf[g]) => Idle(g)
        /\ signalled' = [signalled EXCEPT ![s] = FALSE]
        /\ waitingGroups' = [waitingGroups EXCEPT ![s] = << >>]
        /\ UNCHANGED <<waitCount, signalSemaphores, calls, enq, job, sems, pc, stage>>
    BY Zenon DEF ResetSemaphore, loopVars
  <1>2. /\ \A r \in Semaphores \ {s} :
              (signalled'[r] <=> signalled[r]) /\ waitingGroups'[r] = waitingGroups[r]
        /\ waitingGroups'[s] = << >>
    BY <1>inv, <1>1, Zenon DEF TypeOK
  <1>3. \A g \in Groups : /\ SignalsOf[g] \in Seq(Semaphores) /\ WaitsOf[g] \in Seq(Semaphores)
    BY QueueAssumption, Zenon
  <1>4. \A g \in Groups : /\ \A k \in DOMAIN SignalsOf[g] : SignalsOf[g][k] \in Semaphores
                          /\ \A k \in DOMAIN WaitsOf[g] : WaitsOf[g][k] \in Semaphores
    BY <1>3
  <1>5. ASSUME NEW g \in Groups, ~Idle(g)
        PROVE  /\ \A r \in SemsIn(SignalsOf[g]) : signalled'[r] <=> signalled[r]
               /\ Unsignalled(g)' = Unsignalled(g) /\ In(WaitsOf[g], s) = {}
    <2>1. s \notin SemsIn(SignalsOf[g]) /\ s \notin SemsIn(WaitsOf[g])
      BY <1>1, <1>5, Zenon
    <2>2. \A r \in SemsIn(SignalsOf[g]) : signalled'[r] <=> signalled[r]
      BY <1>2, <1>4, <2>1, Zenon DEF SemsIn
    <2>3. \A k \in DOMAIN WaitsOf[g] : /\ WaitsOf[g][k] # s
                                       /\ signalled'[WaitsOf[g][k]] <=> signalled[WaitsOf[g][k]]
      BY <1>2, <1>4, <2>1, Zenon DEF SemsIn
    <2> QED
      BY <2>2, <2>3, Zenon DEF Unsignalled, In
  <1>6. SemaphoreInv'
    <2>1. ASSUME NEW u \in Threads PROVE Signalling(u)'
      <3>1. Control(u) /\ Placed(u) /\ job[u] \in Groups \cup {NoGroup}
        BY <1>inv, <2>1, Zenon DEF ControlInv, StageInv, TypeOK
      <3>2. pc[u] = "cleanup" \/ (pc[u] \in Locked /\ job[u] # NoGroup) =>
              job[u] \in Groups /\ ~Idle(job[u])
        BY <3>1, Zenon DEF Control, Placed, Running, Idle
      <3>3. Signalling(u)
        BY <1>inv, <2>1, Zenon DEF SemaphoreInv
      <3> QED
        BY <1>1, <1>5, <3>2, <3>3, Zenon DEF Signalling
    <2>2. \A g \in Groups : \A r \in SemsIn(SignalsOf[g]) :
             /\ stage[g] \in {"dispatched", "queued", "running", "executed"} => ~signalled'[r]
             /\ stage[g] = "cleaned" => signalled'[r]
      BY <1>inv, <1>5, Zenon DEF SemaphoreInv, Idle
    <2> QED
      BY <1>inv, <1>1, <2>1, <2>2, Zenon DEF SemaphoreInv, Idle
  <1>7. Due' = Due
    BY <1>1, DueKept, Zenon
  <1>8. /\ \A g \in Groups : ~Idle(g) => Left(g)' = Left(g)
        /\ \A g : Tracked(g)' <=> Tracked(g)
    BY <1>1, <1>5, <1>7, Zenon DEF Left, Tracked
  <1>9. \A g \in Groups : /\ In(<< >>, g) = {} /\ Cardinality(In(<< >>, g)) = 0
                          /\ 0 <= Cardinality(In(WaitsOf[g], s))
    <2>1. \A g : In(<< >>, g) = {}
      BY DEF In
    <2>2. \A g \in Groups : Cardinality(In(WaitsOf[g], s)) \in Nat
      BY <1>3, InFinite, Zenon
    <2>3. \A g \in Groups : 0 <= Cardinality(In(WaitsOf[g], s))
      BY <2>2
    <2> QED
      BY <2>1, <2>3, FS_EmptySet, Zenon
  <1>10. \A u \in Threads : enq[u] # NoGroup => enq[u] \in Groups /\ ~Idle(enq[u])
    <2>1. \A u \in Threads : enq[u] # NoGroup => enq[u] \in Groups /\ stage[enq[u]] = "dispatched"
      <3>1. \A u \in Threads : enq[u] # NoGroup => enq[u] \in Groups
        BY <1>inv, Zenon DEF TypeOK
      <3> QED
        BY <1>inv, <3>1, Zenon DEF StageInv
    <2> QED
      BY <2>1, Zenon DEF Idle
  <1>11. CountInv'
    <2>1. \A g \in Groups : waitCount[g] # 0 => Left(g)' <= waitCount[g]
      BY <1>inv, <1>8, Zenon DEF CountInv, StageInv, Idle
    <2>2. \A u \in Threads : enq[u] # NoGroup =>
            {k \in DOMAIN WaitsOf[enq[u]] : ~signalled'[WaitsOf[enq[u]][k]]} = {}
      BY <1>inv, <1>5, <1>10, Zenon DEF CountInv, Unsignalled
    <2>3. \A g \in Groups : stage[g] \notin {"idle", "dispatched", "complete"} =>
            Unsignalled(g)' = {}
      BY <1>inv, <1>5, Zenon DEF CountInv, Idle
    <2>4. \A g \in Groups : \A r \in Semaphores : ~signalled'[r] =>
            /\ Cardinality(In(waitingGroups'[r], g)) <= Cardinality(In(WaitsOf[g], r))
            /\ In(waitingGroups'[r], g) # {} => Tracked(g)
      BY <1>inv, <1>2, <1>9, Zenon DEF CountInv
    <2> QED
      BY <1>1, <1>8, <2>1, <2>2, <2>3, <2>4, Zenon DEF CountInv, Unsignalled
  <1>12. ExactInv'
    <2> SUFFICES ASSUME ~AllocFails PROVE ExactInv'
      BY Zenon DEF ExactInv
    <2>1. \A g \in Groups : Tracked(g) => waitCount[g] # 0 /\ waitCount[g] = Left(g)'
      BY <1>inv, <1>8, Zenon DEF ExactInv, Tracked, Idle
    <2>2. \A g \in Groups : \A r \in Semaphores : Tracked(g) /\ ~signalled'[r] =>
            Cardinality(In(waitingGroups'[r], g)) = Cardinality(In(WaitsOf[g], r))
      <3>1. \A g \in Groups : Tracked(g) =>
              ~Idle(g) /\ Cardinality(In(WaitsOf[g], s)) = Cardinality(In(<< >>, g))
        BY <1>5, <1>9, Zenon DEF Tracked, Idle
      <3> QED
        BY <1>inv, <1>2, <3>1, Zenon DEF ExactInv
    <2> QED
      BY <1>inv, <1>1, <1>7, <1>8, <2>1, <2>2, Zenon DEF ExactInv
  <1> QED
    BY <1>6, <1>11, <1>12, Zenon DEF OrderInv

\* A call of signalCompleted: one signal less to come, one less in the count.  The
\* group is enqueued when that was the last of both.
LEMMA SignalCompletedOrder ==
    ASSUME BaseInv, BaseInv', OrderInv, NEW t \in Threads, NotifyGroups(t), calls[t] # << >>
    PROVE  OrderInv'
  <1>g. PICK g : g = Head(calls[t])
    BY Zenon
  <1> DEFINE last == waitCount[g] = 1
  <1>inv. TypeOK /\ ControlInv /\ Control(t) /\ StageInv /\ SemaphoreInv /\ CountInv /\ ExactInv
    BY Zenon DEF BaseInv, ControlInv, OrderInv
  <1>1. /\ pc[t] = "notify"
        /\ calls' = [calls EXCEPT ![t] = Tail(@)]
        /\ IF waitCount[g] = 0
           THEN UNCHANGED <<waitCount, pc, enq>>
           ELSE /\ waitCount' = [waitCount EXCEPT ![g] = @ - 1]
                /\ IF last
                   THEN enq' = [enq EXCEPT ![t] = g] /\ pc' = [pc EXCEPT ![t] = "enq_count"]
                   ELSE UNCHANGED <<pc, enq>>
        /\ UNCHANGED <<mutex, signalled, waitingGroups, signalSemaphores, job, sems, stage>>
    BY <1>g, Zenon DEF NotifyGroups, SignalCompleted, OneWaitLess, LastWait, EnqueueGroup, Goto, semVars
  <1>2. mutex = t /\ enq[t] = NoGroup /\ \A u \in Threads \ {t} : enq[u] = NoGroup
    BY <1>inv, <1>1, Zenon DEF Control, ControlInv, Locked
  <1>3. Due = calls[t] /\ Due' = Tail(calls[t]) /\ calls[t] \in Seq(Groups)
    <2>1. mutex # NoThread
      BY <1>2, QueueAssumption, Zenon
    <2> QED
      BY <1>inv, <1>1, <1>2, <2>1, Zenon DEF Due, TypeOK
  <1>4. g \in Groups /\ In(Due, g) # {} /\ Tail(calls[t]) \in Seq(Groups)
    <2>1. g \in Groups /\ Tail(calls[t]) \in Seq(Groups) /\ 1 \in DOMAIN calls[t] /\ g = calls[t][1]
      BY <1>g, <1>3
    <2> QED
      BY <1>3, <2>1, Zenon DEF In
  <1>5. SemaphoreInv'
    <2>1. \A u \in Threads : pc'[u] = pc[u] \/ (pc'[u] = "enq_count" /\ pc[u] \in Locked)
      BY <1>inv, <1>1, Zenon DEF TypeOK, Locked
    <2>2. SignalsNothing
      BY <1>1, <2>1, Zenon DEF SignalsNothing, Moves
    <2> QED
      BY <1>inv, <2>2, SemaphoreKept, Zenon
  <1>6. ASSUME NEW h \in Groups
        PROVE  /\ Unsignalled(h)' = Unsignalled(h) /\ Left(h) \in Nat /\ Left(h)' \in Nat
               /\ (h = g => Left(h)' = Left(h) - 1) /\ (h # g => Left(h)' = Left(h))
               /\ Left(h) = 0 => Unsignalled(h) = {} /\ In(Due, h) = {}
               /\ Left(h)' = 0 => Unsignalled(h) = {} /\ In(Due', h) = {}
    <2>1. Unsignalled(h)' = Unsignalled(h)
      BY <1>1, Zenon DEF Unsignalled
    <2>2. /\ Cardinality(Unsignalled(h)) \in Nat
          /\ Cardinality(Unsignalled(h)) = 0 <=> Unsignalled(h) = {}
      BY WaitsFinite, FS_EmptySet, Zenon DEF Unsignalled
    <2>3. /\ Cardinality(In(Due, h)) \in Nat /\ Cardinality(In(Due', h)) \in Nat
          /\ Cardinality(In(Due, h)) = 0 <=> In(Due, h) = {}
          /\ Cardinality(In(Due', h)) = 0 <=> In(Due', h) = {}
      BY <1>3, <1>4, InFinite, Zenon
    <2>4. /\ h = g => Cardinality(In(Due', h)) = Cardinality(In(Due, h)) - 1
          /\ h # g => Cardinality(In(Due', h)) = Cardinality(In(Due, h)) - 0
      BY <1>g, <1>3, InTail, Zenon
    <2>5. /\ Left(h) = Cardinality(Unsignalled(h)) + Cardinality(In(Due, h))
          /\ Left(h)' = Cardinality(Unsignalled(h)) + Cardinality(In(Due', h))
      BY <2>1, Zenon DEF Left
    <2>6. /\ Left(h) \in Nat /\ Left(h)' \in Nat
          /\ (h = g => Left(h)' = Left(h) - 1) /\ (h # g => Left(h)' = Left(h))
      BY <2>2, <2>3, <2>4, <2>5
    <2>7. /\ Left(h) = 0 => Cardinality(Unsignalled(h)) = 0 /\ Cardinality(In(Due, h)) = 0
          /\ Left(h)' = 0 => Cardinality(Unsignalled(h)) = 0 /\ Cardinality(In(Due', h)) = 0
      BY <2>2, <2>3, <2>5
    <2> QED
      BY <2>1, <2>2, <2>3, <2>6, <2>7, Zenon
  <1>7. CASE waitCount[g] = 0
    <2>1. /\ UNCHANGED <<waitCount, enq>>
          /\ \A h : Tracked(h)' <=> Tracked(h)
      BY <1>1, <1>7, Zenon DEF Tracked
    <2>2. \A h \in Groups : waitCount[h] # 0 => Left(h)' <= waitCount[h]
      BY <1>inv, <1>6, <1>7, Zenon DEF CountInv
    <2>3. CountInv'
      BY <1>inv, <1>1, <1>6, <2>1, <2>2, Zenon DEF CountInv, Unsignalled
    <2>4. AllocFails
      BY <1>inv, <1>4, <1>7, Zenon DEF ExactInv
    <2> QED
      BY <1>5, <2>3, <2>4, Zenon DEF OrderInv, ExactInv
  <1>8. CASE waitCount[g] # 0
    <2>1. /\ waitCount'[g] = waitCount[g] - 1
          /\ \A h \in Groups \ {g} : waitCount'[h] = waitCount[h]
          /\ stage[g] = "dispatched" /\ waitCount[g] \in Nat /\ Left(g) <= waitCount[g]
      BY <1>inv, <1>1, <1>4, <1>8, Zenon DEF TypeOK, StageInv, CountInv
    <2>2. last => Left(g)' = 0 /\ Unsignalled(g) = {} /\ In(Due', g) = {}
      <3>1. last => Left(g)' = 0
        <4>1. Cardinality(In(Due, g)) \in Nat \ {0} /\ Left(g)' \in Nat /\ Left(g)' = Left(g) - 1
          BY <1>3, <1>4, <1>6, InFinite
        <4> QED
          BY <1>4, <1>6, <2>1, <4>1
      <3> QED
        BY <1>4, <1>6, <3>1, Zenon
    <2>3. /\ last => enq'[t] = g
          /\ \A u \in Threads : enq'[u] = enq[u] \/ (last /\ enq'[u] = g)
      BY <1>inv, <1>1, <1>8, Zenon DEF TypeOK
    <2>4. /\ \A h \in Groups \ {g} : Tracked(h)' <=> Tracked(h)
          /\ Tracked(g) /\ (Tracked(g)' <=> ~last)
      <3>1. NoGroup # g /\ NoGroup \notin Groups
        BY <1>4, QueueAssumption, Zenon
      <3> QED
        BY <1>1, <1>2, <2>1, <2>3, <3>1, Zenon DEF Tracked
    <2>5. /\ \A h \in Groups : waitCount'[h] # 0 => Left(h)' <= waitCount'[h]
      <3>1. ASSUME NEW h \in Groups \ {g}, waitCount[h] # 0
            PROVE  Left(h)' <= waitCount[h]
        <4>1. Left(h)' = Left(h) /\ Left(h) \in Nat /\ Left(h) <= waitCount[h]
          BY <1>inv, <1>6, <3>1 DEF CountInv
        <4> QED
          BY <4>1
      <3>2. Left(g)' <= waitCount'[g]
        BY <1>4, <1>6, <2>1
      <3> QED
        BY <2>1, <3>1, <3>2, Zenon
    <2>6. ASSUME NEW h \in Groups, NEW s \in Semaphores, ~signalled[s], In(waitingGroups[s], h) # {}
          PROVE  Tracked(h)'
      <3>1. Tracked(h)
        BY <1>inv, <2>6, Zenon DEF CountInv
      <3>2. CASE h = g /\ last
        <4>1. In(WaitsOf[g], s) \subseteq Unsignalled(g)
          BY <2>6, Zenon DEF In, Unsignalled
        <4>2. In(WaitsOf[g], s) = {} /\ waitingGroups[s] \in Seq(Groups)
          BY <1>inv, <2>2, <2>6, <3>2, <4>1, Zenon DEF TypeOK
        <4>3. /\ Cardinality(In(waitingGroups[s], g)) <= Cardinality(In(WaitsOf[g], s))
              /\ Cardinality(In(waitingGroups[s], g)) \in Nat
              /\ Cardinality(In(waitingGroups[s], g)) # 0
          BY <1>inv, <2>6, <3>2, <4>2, InFinite, Zenon DEF CountInv
        <4>4. Cardinality(In(WaitsOf[g], s)) = 0
          BY <4>2, FS_EmptySet, Zenon
        <4> QED
          BY <4>3, <4>4
      <3> QED
        BY <2>4, <3>1, <3>2, Zenon
    <2>7. \A u \in Threads : enq'[u] # NoGroup =>
            {k \in DOMAIN WaitsOf[enq'[u]] : ~signalled[WaitsOf[enq'[u]][k]]} = {}
      BY <1>inv, <2>2, <2>3, Zenon DEF CountInv, Unsignalled
    <2>8. CountInv'
      BY <1>inv, <1>1, <1>6, <2>5, <2>6, <2>7, Zenon DEF CountInv, Unsignalled
    <2>9. ExactInv'
      <3> SUFFICES ASSUME ~AllocFails PROVE ExactInv'
        BY Zenon DEF ExactInv
      <3>1. ASSUME NEW h \in Groups, Tracked(h)'
            PROVE  waitCount'[h] # 0 /\ waitCount'[h] = Left(h)'
        <4>1. Tracked(h) /\ (h = g => waitCount[g] # 1)
          BY <2>4, <3>1, Zenon
        <4>2. waitCount[h] # 0 /\ waitCount[h] = Left(h)
          BY <1>inv, <4>1, Zenon DEF ExactInv
        <4>3. CASE h = g
          BY <1>6, <2>1, <4>1, <4>2, <4>3
        <4>4. CASE h # g
          <5>1. Left(h)' = Left(h) /\ Left(h) \in Nat
            BY <1>6, <4>4
          <5> QED
            BY <2>1, <4>2, <4>4, <5>1
        <4> QED
          BY <4>3, <4>4, Zenon
      <3>2. \A h \in Groups : Tracked(h)' => Tracked(h)
        BY <2>4, Zenon
      <3>3. ASSUME NEW h \in Groups, In(Due', h) # {} PROVE Tracked(h)'
        <4>1. h # g => In(Due, h) # {}
          <5>1. h # g => Cardinality(In(Due', h)) = Cardinality(In(Due, h)) - 0
            BY <1>g, <1>3, InTail, Zenon
          <5>2. /\ Cardinality(In(Due, h)) \in Nat /\ Cardinality(In(Due', h)) \in Nat
                /\ Cardinality(In(Due, h)) = 0 <=> In(Due, h) = {}
                /\ Cardinality(In(Due', h)) = 0 <=> In(Due', h) = {}
            BY <1>3, <1>4, InFinite, Zenon
          <5> QED
            BY <3>3, <5>1, <5>2
        <4> QED
          BY <1>inv, <2>2, <2>4, <3>3, <4>1, Zenon DEF ExactInv
      <3> QED
        BY <1>inv, <1>1, <3>1, <3>2, <3>3, Zenon DEF ExactInv
    <2> QED
      BY <1>5, <2>8, <2>9, Zenon DEF OrderInv
  <1> QED
    BY <1>7, <1>8, Zenon

\* The calls are made.
LEMMA NotifyEndOrder ==
    ASSUME BaseInv, BaseInv', OrderInv, NEW t \in Threads, NotifyGroups(t), calls[t] = << >>
    PROVE  OrderInv'
  <1>1. /\ pc[t] = "notify" /\ pc[t] \in Locked
        /\ \/ job[t] = NoGroup /\ pc' = [pc EXCEPT ![t] = "idle"]
           \/ pc' = [pc EXCEPT ![t] = "signal"]
        /\ UNCHANGED <<waitCount, signalled, waitingGroups, signalSemaphores, calls, enq, job, sems,
                       stage>>
    BY Zenon DEF NotifyGroups, SignalCompleted, Goto, semVars, Locked
  <1>2. Quiet
    <2>1. \A u \in Threads : \/ pc'[u] = pc[u]
                             \/ u = t /\ pc'[t] = "idle"
                             \/ u = t /\ pc'[t] = "signal"
      <3>1. pc \in [Threads -> Labels]
        BY Zenon DEF BaseInv, TypeOK
      <3> QED
        BY <1>1, <3>1, Zenon
    <2>2. SignalsNothing
      BY <1>1, <2>1, Zenon DEF SignalsNothing, Moves, Locked
    <2> QED
      BY <1>1, <2>2, Zenon DEF Quiet
  <1> QED
    BY <1>2, QuietKept, Zenon

\* hostDispatch: the semaphores not signalled list the group once for each wait, or
\* less when an allocation fails, and the other waits are calls to be made.
LEMMA DispatchPlaces ==
    ASSUME BaseInv, CountInv, NEW t \in Clients, NEW g \in Groups, Dispatch(t, g)
    PROVE  /\ \A s \in Semaphores : \A h \in Groups \ {g} :
                 In(waitingGroups'[s], h) = In(waitingGroups[s], h)
           /\ \A s \in Semaphores : ~signalled[s] =>
                 /\ Cardinality(In(waitingGroups'[s], g)) <= Cardinality(In(WaitsOf[g], s))
                 /\ ~AllocFails => Cardinality(In(waitingGroups'[s], g)) =
                                      Cardinality(In(WaitsOf[g], s))
           /\ \A h \in Groups \ {g} : In(calls'[t], h) = {}
           /\ Cardinality(Unsignalled(g)) + Cardinality(In(calls'[t], g)) = Len(WaitsOf[g])
  <1> DEFINE waits == WaitsOf[g]
             early == {k \in DOMAIN waits : signalled[waits[k]]}
             late(s, lost) == {k \in DOMAIN waits \ (early \cup lost) : waits[k] = s}
  <1>inv. TypeOK /\ StageInv /\ t \in Threads
    BY Zenon DEF BaseInv, Threads
  <1>1. PICK lost :
          /\ Idle(g) /\ lost \in IF AllocFails THEN SUBSET (DOMAIN waits \ early) ELSE {{}}
          /\ waitingGroups' = [s \in Semaphores |->
                waitingGroups[s] \o [k \in 1..Cardinality(late(s, lost)) |-> g]]
          /\ calls' = [calls EXCEPT ![t] = [k \in 1..Cardinality(early) |-> g]]
    BY Zenon DEF Dispatch, MayDispatch
  <1>2. DOMAIN waits = 1..Len(waits) /\ Len(waits) \in Nat /\ Cardinality(DOMAIN waits) = Len(waits)
    <2>1. DOMAIN waits = 1..Len(waits) /\ Len(waits) \in Nat
      BY QueueAssumption
    <2> QED
      BY <2>1, FS_Interval
  <1>3. /\ IsFiniteSet(early) /\ Cardinality(early) \in Nat
        /\ IsFiniteSet(Unsignalled(g)) /\ Cardinality(Unsignalled(g)) \in Nat
        /\ \A s : IsFiniteSet(late(s, lost)) /\ Cardinality(late(s, lost)) \in Nat
        /\ \A s : IsFiniteSet(In(waits, s)) /\ Cardinality(In(waits, s)) \in Nat
    BY WaitsFinite, Zenon DEF Unsignalled, In
  <1>4. \A s \in Semaphores : ~signalled[s] =>
          /\ late(s, lost) \subseteq In(waits, s)
          /\ ~AllocFails => late(s, lost) = In(waits, s)
    BY <1>1 DEF In
  <1>5. \A s \in Semaphores : ~signalled[s] => In(waitingGroups[s], g) = {}
    BY <1>inv, <1>1, Zenon DEF CountInv, Tracked, Idle
  <1>6. \A s \in Semaphores :
          /\ waitingGroups[s] \in Seq(Groups)
          /\ waitingGroups'[s] =
                waitingGroups[s] \o [k \in 1..Cardinality(late(s, lost)) |-> g]
    BY <1>inv, <1>1, Zenon DEF TypeOK
  <1>7. calls'[t] = [k \in 1..Cardinality(early) |-> g]
    BY <1>inv, <1>1, Zenon DEF TypeOK
  <1>8. Cardinality(Unsignalled(g)) + Cardinality(early) = Len(waits)
    <2>1. early \cup Unsignalled(g) = DOMAIN waits /\ early \cap Unsignalled(g) = {}
      BY Zenon DEF Unsignalled
    <2>2. Cardinality(DOMAIN waits) =
            Cardinality(early) + Cardinality(Unsignalled(g)) - Cardinality({})
      BY <1>3, <2>1, FS_Union, Zenon
    <2> HIDE DEF early, waits
    <2> QED
      BY <1>2, <1>3, <2>2, FS_EmptySet
  <1> HIDE DEF early, late, waits
  <1>9. \A s \in Semaphores : ~signalled[s] =>
          /\ Cardinality(late(s, lost)) <= Cardinality(In(waits, s))
          /\ ~AllocFails => Cardinality(late(s, lost)) = Cardinality(In(waits, s))
    BY <1>3, <1>4, FS_Subset, Zenon
  <1>10. ASSUME NEW s \in Semaphores
         PROVE  /\ \A h \in Groups \ {g} : In(waitingGroups'[s], h) = In(waitingGroups[s], h)
                /\ ~signalled[s] =>
                      Cardinality(In(waitingGroups'[s], g)) = Cardinality(late(s, lost))
    <2>1. /\ waitingGroups[s] \in Seq(Groups) /\ Cardinality(late(s, lost)) \in Nat
          /\ waitingGroups'[s] =
                waitingGroups[s] \o [k \in 1..Cardinality(late(s, lost)) |-> g]
      BY <1>3, <1>6, <1>10, Zenon
    <2>2. ASSUME NEW h \in Groups
          PROVE  /\ h # g => In(waitingGroups'[s], h) = In(waitingGroups[s], h)
                 /\ In(waitingGroups[s], g) = {} =>
                       Cardinality(In(waitingGroups'[s], g)) = Cardinality(late(s, lost))
      <3>1. PICK n \in Nat : n = Cardinality(late(s, lost))
        BY <2>1, Zenon
      <3> DEFINE more == [k \in 1..n |-> g]
      <3>2. more \in Seq(Groups) /\ Len(more) = n /\ \A k \in DOMAIN more : more[k] = g
        OBVIOUS
      <3>3. waitingGroups'[s] = waitingGroups[s] \o more /\ waitingGroups[s] \in Seq(Groups)
        BY <2>1, <3>1, Zenon
      <3> HIDE DEF more
      <3>4. PICK list \in Seq(Groups) : list = waitingGroups[s]
        BY <3>3, Zenon
      <3>5. /\ h # g => In(list \o more, h) = In(list, h)
            /\ In(list, g) = {} => Cardinality(In(list \o more, g)) = Len(more)
        BY <3>2, InAppend
      <3> QED
        BY <3>1, <3>2, <3>3, <3>4, <3>5, Zenon
    <2> QED
      BY <1>5, <2>2, Zenon
  <1>11. /\ \A h \in Groups \ {g} : In(calls'[t], h) = {}
         /\ Cardinality(In(calls'[t], g)) = Cardinality(early)
    BY <1>3, <1>7, InRepeat, Zenon
  <1> QED
    BY <1>8, <1>9, <1>10, <1>11, Zenon DEF waits

LEMMA DispatchStepOrder ==
    ASSUME BaseInv, BaseInv', OrderInv, NEW t \in Clients, NEW g \in Groups, Dispatch(t, g)
    PROVE  OrderInv'
  <1>inv. TypeOK /\ ControlInv /\ StageInv /\ SemaphoreInv /\ CountInv /\ ExactInv
    BY Zenon DEF BaseInv, OrderInv
  <1>a. t \in Threads /\ NoThread \notin Threads /\ NoGroup \notin Groups
    BY QueueAssumption, Zenon DEF Threads
  <1>1. /\ pc[t] = "idle" /\ mutex = NoThread /\ mutex' = t /\ Idle(g)
        /\ \A s \in SemsIn(SignalsOf[g]) : ~signalled[s] /\ Signallers(s) = {}
        /\ stage' = [stage EXCEPT ![g] = "dispatched"]
        /\ signalSemaphores' = [signalSemaphores EXCEPT ![g] = @ \o SignalsOf[g]]
        /\ UNCHANGED <<signalled, job, sems>>
    BY Zenon DEF Dispatch, MayDispatch
  <1>2. \/ /\ WaitsOf[g] = << >> /\ waitCount' = waitCount
           /\ enq' = [enq EXCEPT ![t] = g] /\ pc' = [pc EXCEPT ![t] = "enq_count"]
        \/ /\ WaitsOf[g] # << >> /\ enq' = enq /\ pc' = [pc EXCEPT ![t] = "notify"]
           /\ \/ waitCount' = [waitCount EXCEPT ![g] = Len(WaitsOf[g])]
              \/ AllocFails /\ waitCount' = waitCount
    BY Zenon DEF Dispatch, EnqueueGroup, Goto
  <1>3. job[t] = NoGroup /\ \A u \in Threads : pc[u] \notin Locked /\ enq[u] = NoGroup
    BY <1>inv, <1>1, <1>a, Zenon DEF ControlInv, Control, Locked, Running
  <1>4. /\ stage'[g] = "dispatched" /\ \A h \in Groups \ {g} : stage'[h] = stage[h]
        /\ \A h \in Groups \ {g} : waitCount'[h] = waitCount[h] /\ signalSemaphores'[h] = signalSemaphores[h]
        /\ \A u \in Threads \ {t} : pc'[u] = pc[u] /\ enq'[u] = enq[u]
        /\ pc'[t] # "cleanup" /\ waitCount[g] = 0
    <2>1. waitCount[g] = 0
      BY <1>inv, <1>1, Zenon DEF StageInv, Idle
    <2> QED
      BY <1>inv, <1>1, <1>2, <1>a, <2>1, Zenon DEF TypeOK
  <1>5. \/ WaitsOf[g] = << >> /\ enq'[t] = g /\ waitCount'[g] = 0
        \/ /\ WaitsOf[g] # << >> /\ \A u \in Threads : enq'[u] = NoGroup
           /\ waitCount'[g] = Len(WaitsOf[g]) \/ (AllocFails /\ waitCount'[g] = 0)
    <2>1. /\ waitCount \in [Groups -> Nat] /\ enq \in [Threads -> Groups \cup {NoGroup}]
          /\ \A u \in Threads : enq[u] = NoGroup
      BY <1>inv, <1>3, Zenon DEF TypeOK
    <2>2. CASE WaitsOf[g] = << >>
      BY <1>2, <1>4, <1>a, <2>1, <2>2, Zenon
    <2>3. CASE WaitsOf[g] # << >>
      BY <1>2, <1>4, <2>1, <2>3, Zenon
    <2> QED
      BY <2>2, <2>3, Zenon
  <1>6. SemaphoreInv'
    <2>1. \A h \in Groups \ {g} : Idle(h)' <=> Idle(h)
      BY <1>4, Zenon DEF Idle
    <2>2. ASSUME NEW h \in Groups, NEW r \in Groups, h # r,
                 NEW s \in SemsIn(SignalsOf[h]) \cap SemsIn(SignalsOf[r])
          PROVE  Idle(h)' \/ Idle(r)'
      <3>1. CASE h = g
        BY <1>1, <2>1, <2>2, <3>1, Zenon DEF Signallers
      <3>2. CASE r = g
        BY <1>1, <2>1, <2>2, <3>2, Zenon DEF Signallers
      <3>3. CASE h # g /\ r # g
        BY <1>inv, <2>1, <2>2, <3>3, Zenon DEF SemaphoreInv
      <3> QED
        BY <3>1, <3>2, <3>3, Zenon
    <2>3. signalSemaphores'[g] = SignalsOf[g]
      <3>1. signalSemaphores[g] = << >> /\ SignalsOf[g] \in Seq(Semaphores)
        BY <1>inv, <1>1, QueueAssumption, Zenon DEF SemaphoreInv
      <3>2. signalSemaphores'[g] = << >> \o SignalsOf[g]
        BY <1>inv, <1>1, <3>1, Zenon DEF TypeOK
      <3> QED
        BY <3>1, <3>2
    <2>4. \A h \in Groups :
             signalSemaphores'[h] = IF Idle(h)' \/ stage'[h] = "cleaned" THEN << >>
                                    ELSE SignalsOf[h]
      <3>1. ~Idle(g)' /\ stage'[g] # "cleaned"
        BY <1>4, Zenon DEF Idle
      <3> QED
        BY <1>inv, <1>4, <2>1, <2>3, <3>1, Zenon DEF SemaphoreInv
    <2>5. \A h \in Groups : \A s \in SemsIn(SignalsOf[h]) :
             /\ stage'[h] \in {"dispatched", "queued", "running", "executed"} => ~signalled[s]
             /\ stage'[h] = "cleaned" => signalled[s]
      BY <1>inv, <1>1, <1>4, Zenon DEF SemaphoreInv
    <2>6. ASSUME NEW u \in Threads PROVE Signalling(u)'
      <3>1. CASE u = t
        BY <1>1, <1>3, <1>4, <3>1, Zenon DEF Signalling
      <3>2. CASE u # t
        <4>1. Signalling(u) /\ pc'[u] = pc[u]
          BY <1>inv, <1>4, <3>2, Zenon DEF SemaphoreInv
        <4> QED
          BY <1>1, <4>1, SignallingKept, Zenon
      <3> QED
        BY <3>1, <3>2, Zenon
    <2> QED
      BY <1>1, <2>2, <2>4, <2>5, <2>6, Zenon DEF SemaphoreInv
  <1>7. Due = << >> /\ Due' = calls'[t] /\ calls'[t] \in Seq(Groups)
    <2>1. calls' \in [Threads -> Seq(Groups)]
      BY Zenon DEF BaseInv, TypeOK
    <2> QED
      BY <1>1, <1>a, <2>1, Zenon DEF Due
  <1>8. /\ \A s \in Semaphores : \A h \in Groups \ {g} :
              In(waitingGroups'[s], h) = In(waitingGroups[s], h)
        /\ \A s \in Semaphores : ~signalled[s] =>
              /\ Cardinality(In(waitingGroups'[s], g)) <= Cardinality(In(WaitsOf[g], s))
              /\ ~AllocFails => Cardinality(In(waitingGroups'[s], g)) =
                                   Cardinality(In(WaitsOf[g], s))
        /\ \A h \in Groups \ {g} : In(Due', h) = {}
        /\ Cardinality(Unsignalled(g)) + Cardinality(In(Due', g)) = Len(WaitsOf[g])
    BY <1>inv, <1>7, DispatchPlaces, Zenon
  <1>9. /\ \A h \in Groups : Unsignalled(h)' = Unsignalled(h)
        /\ \A h \in Groups \ {g} : Left(h)' = Left(h) /\ (Tracked(h)' <=> Tracked(h))
        /\ Left(g)' = Len(WaitsOf[g]) /\ (Tracked(g)' <=> WaitsOf[g] # << >>)
    <2>1. \A h \in Groups : Unsignalled(h)' = Unsignalled(h)
      BY <1>1, Zenon DEF Unsignalled
    <2>2. \A h \in Groups \ {g} : In(Due', h) = In(Due, h)
      <3>1. \A h : In(<< >>, h) = {}
        BY DEF In
      <3> QED
        BY <1>7, <1>8, <3>1, Zenon
    <2>3. \A h \in Groups \ {g} : Left(h)' = Left(h)
      BY <2>1, <2>2, Zenon DEF Left
    <2>4. Left(g)' = Len(WaitsOf[g])
      BY <1>8, <2>1, Zenon DEF Left
    <2>5. ASSUME NEW h \in Groups \ {g} PROVE Tracked(h)' <=> Tracked(h)
      <3>1. \A u \in Threads : enq'[u] \in {NoGroup, g} /\ enq[u] = NoGroup
        BY <1>3, <1>4, <1>5, <1>a, Zenon
      <3>2. h # NoGroup /\ h # g /\ stage'[h] = stage[h]
        BY <1>4, <1>a, <2>5, Zenon
      <3> QED
        BY <3>1, <3>2, Zenon DEF Tracked
    <2>6. Tracked(g)' <=> WaitsOf[g] # << >>
      BY <1>4, <1>5, <1>a, Zenon DEF Tracked
    <2> QED
      BY <2>1, <2>3, <2>4, <2>5, <2>6, Zenon
  <1>10. /\ Len(WaitsOf[g]) \in Nat
         /\ WaitsOf[g] = << >> => /\ Unsignalled(g) = {} /\ Len(WaitsOf[g]) = 0
                                  /\ \A s : In(WaitsOf[g], s) = {}
         /\ WaitsOf[g] # << >> => Len(WaitsOf[g]) # 0
    <2>1. WaitsOf[g] \in Seq(Semaphores)
      BY QueueAssumption, Zenon
    <2> QED
      BY <2>1 DEF Unsignalled, In
  <1>11. CountInv'
    <2>1. \A h \in Groups : waitCount'[h] # 0 => Left(h)' <= waitCount'[h]
      <3>1. \A h \in Groups \ {g} : waitCount'[h] # 0 => Left(h)' <= waitCount'[h]
        BY <1>inv, <1>4, <1>9, Zenon DEF CountInv
      <3>2. waitCount'[g] # 0 => Left(g)' <= waitCount'[g]
        BY <1>5, <1>9, <1>10
      <3> QED
        BY <3>1, <3>2, Zenon
    <2>2. \A u \in Threads : enq'[u] # NoGroup => enq'[u] = g /\ WaitsOf[g] = << >>
      BY <1>3, <1>4, <1>5, <1>a, Zenon
    <2>3. \A u \in Threads : enq'[u] # NoGroup =>
            {k \in DOMAIN WaitsOf[enq'[u]] : ~signalled[WaitsOf[enq'[u]][k]]} = {}
      BY <1>10, <2>2, Zenon DEF Unsignalled
    <2>4. \A h \in Groups : stage'[h] \notin {"idle", "dispatched", "complete"} =>
            Unsignalled(h)' = {}
      BY <1>inv, <1>4, <1>9, Zenon DEF CountInv
    <2>5. ASSUME NEW s \in Semaphores, ~signalled[s], In(waitingGroups'[s], g) # {}
          PROVE  WaitsOf[g] # << >>
      <3>1. waitingGroups'[s] \in Seq(Groups)
        BY Zenon DEF BaseInv, TypeOK
      <3>2. /\ Cardinality(In(waitingGroups'[s], g)) \in Nat \ {0}
            /\ Cardinality(In(waitingGroups'[s], g)) <= Cardinality(In(WaitsOf[g], s))
        BY <1>8, <2>5, <3>1, InFinite, Zenon
      <3>3. WaitsOf[g] = << >> => Cardinality(In(WaitsOf[g], s)) = 0
        BY <1>10, FS_EmptySet, Zenon
      <3> QED
        BY <3>2, <3>3
    <2>6. \A h \in Groups : \A s \in Semaphores : ~signalled[s] =>
            /\ Cardinality(In(waitingGroups'[s], h)) <= Cardinality(In(WaitsOf[h], s))
            /\ In(waitingGroups'[s], h) # {} => Tracked(h)'
      BY <1>inv, <1>8, <1>9, <2>5, Zenon DEF CountInv
    <2> QED
      BY <1>1, <2>1, <2>3, <2>4, <2>6, Zenon DEF CountInv, Unsignalled
  <1>12. ExactInv'
    <2> SUFFICES ASSUME ~AllocFails PROVE ExactInv'
      BY Zenon DEF ExactInv
    <2>1. \A h \in Groups : Tracked(h)' => waitCount'[h] # 0 /\ waitCount'[h] = Left(h)'
      BY <1>inv, <1>4, <1>5, <1>9, <1>10, Zenon DEF ExactInv
    <2>2. ASSUME NEW h \in Groups, NEW s \in Semaphores, Tracked(h)', ~signalled[s]
          PROVE  Cardinality(In(waitingGroups'[s], h)) = Cardinality(In(WaitsOf[h], s))
      <3>1. CASE h = g
        BY <1>8, <2>2, <3>1, Zenon
      <3>2. CASE h # g
        <4>1. Tracked(h)
          BY <1>9, <2>2, <3>2, Zenon
        <4>2. Cardinality(In(waitingGroups[s], h)) = Cardinality(In(WaitsOf[h], s))
          BY <1>inv, <2>2, <4>1, Zenon DEF ExactInv
        <4> QED
          BY <1>8, <2>2, <3>2, <4>2, Zenon
      <3> QED
        BY <3>1, <3>2, Zenon
    <2>3. \A h \in Groups : In(Due', h) # {} => Tracked(h)'
      <3>1. In(Due', g) # {} => WaitsOf[g] # << >>
        <4>1. /\ Cardinality(In(Due', g)) \in Nat /\ Cardinality(Unsignalled(g)) \in Nat
              /\ Cardinality(In(Due', g)) = 0 <=> In(Due', g) = {}
          BY <1>7, InFinite, WaitsFinite, Zenon DEF Unsignalled
        <4> QED
          BY <1>8, <1>10, <4>1
      <3> QED
        BY <1>8, <1>9, <3>1, Zenon
    <2> QED
      BY <1>1, <2>1, <2>2, <2>3, Zenon DEF ExactInv
  <1> QED
    BY <1>6, <1>11, <1>12, Zenon DEF OrderInv

-------------------------------------------------------------------------------
\* The invariant

LEMMA InitOrder == Init => OrderInv
  <1> SUFFICES ASSUME Init PROVE OrderInv
    BY Zenon
  <1>1. /\ \A g \in Groups : stage[g] = "idle" /\ waitCount[g] = 0 /\ signalSemaphores[g] = << >>
        /\ \A t \in Threads : pc[t] \in {"get", "idle"} /\ enq[t] = NoGroup
        /\ \A s \in Semaphores : waitingGroups[s] = << >>
        /\ Due = << >>
    BY Zenon DEF Init, Due
  <1>2. SemaphoreInv
    BY <1>1, Zenon DEF SemaphoreInv, Signalling, Idle, Locked
  <1>3. \A x : In(<< >>, x) = {}
    BY DEF In
  <1>4. ASSUME NEW g \in Groups, NEW s
        PROVE  Cardinality(In(<< >>, g)) <= Cardinality(In(WaitsOf[g], s))
    <2>1. Cardinality(In(WaitsOf[g], s)) \in Nat
      BY WaitsFinite, Zenon DEF In
    <2>2. Cardinality(In(<< >>, g)) = 0
      BY <1>3, FS_EmptySet, Zenon
    <2> QED
      BY <2>1, <2>2
  <1>5. CountInv
    BY <1>1, <1>3, <1>4, Zenon DEF CountInv
  <1>6. ExactInv
    BY <1>1, <1>3, Zenon DEF ExactInv, Tracked
  <1> QED
    BY <1>2, <1>5, <1>6, Zenon DEF OrderInv

LEMMA NextOrder ==
    ASSUME SignalsOnce, BaseInv, BaseInv', OrderInv, [Next]_vars
    PROVE  OrderInv'
  <1>1. ASSUME NEW t \in Clients, Call(t) \/ WaitStep(t)
        PROVE  OrderInv'
    <2>1. CASE \E g \in Groups : Dispatch(t, g)
      BY <2>1, DispatchStepOrder, Zenon
    <2>2. CASE \E s \in Semaphores : ResetSemaphore(t, s)
      BY <2>2, ResetSemaphoreOrder, Zenon
    <2>3. CASE \/ \E f \in Fences : TryWait(t, f, "help") \/ TryWait(t, f, "poll") \/ ResetFence(t, f)
               \/ WaitAll(t) \/ WaitStep(t)
      BY <2>3, QuietClient, QuietKept, Zenon
    <2> QED
      BY <1>1, <2>1, <2>2, <2>3, Zenon DEF Call
  <1>2. ASSUME NEW t \in Threads, LockedStep(t) \/ RunStep(t) \/ SpuriousWake(t)
        PROVE  OrderInv'
    <2>1. CASE NotifyGroups(t)
      BY <2>1, SignalCompletedOrder, NotifyEndOrder, Zenon
    <2>2. CASE CleanupLock(t)
      BY <2>2, CleanupLockOrder, Zenon
    <2>3. CASE CleanupSignal(t)
      BY <2>3, SignalSemaphoreOrder, CleanupEndOrder, Zenon
    <2>4. CASE SetSignal(t)
      BY <2>4, SetSignalOrder, Zenon
    <2>5. CASE \/ EnqueueCount(t) \/ EnqueueStore(t) \/ Take(t) \/ ProcessCommands(t)
               \/ SetResult(t) \/ UserFunction(t) \/ Decrement(t) \/ SpuriousWake(t)
      BY <2>5, QuietThread, QuietKept, Zenon
    <2> QED
      BY <1>2, <2>1, <2>2, <2>3, <2>4, <2>5, Zenon DEF LockedStep, RunStep
  <1>3. CASE UNCHANGED vars
    <2>1. UNCHANGED <<waitCount, signalled, waitingGroups, signalSemaphores, sems, calls, enq, pc,
                      job, stage>>
      BY <1>3, Zenon DEF vars, semVars, loopVars
    <2>2. Quiet
      BY <2>1, Zenon DEF Quiet, SignalsNothing, Moves
    <2> QED
      BY <2>2, QuietKept, Zenon
  <1> QED
    BY <1>1, <1>2, <1>3, Zenon DEF Next

\* What the semaphores say, the lists they keep and the counts of signalInfos fit
\* together in every state, where no dispatch lists a semaphore to signal twice.
THEOREM OrderInvariance ==
    ASSUME SignalsOnce
    PROVE  Spec => []OrderInv
  <1>1. BaseInv /\ BaseInv' /\ OrderInv /\ [Next]_vars => OrderInv'
    BY NextOrder, Zenon
  <1> QED
    BY <1>1, InitOrder, BaseInvariance, PTL DEF Spec
================================================================================
