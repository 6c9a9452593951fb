--------------------------- MODULE HostQueueTheorems ---------------------------
(***************************************************************************)
(* What the queue of the host target promises: it implements the order of  *)
(* DispatchOrder, its counts of waits are exact, and muxWaitAll outlasts   *)
(* the groups dispatched before it.                                        *)
(*                                                                         *)
(* The first two follow from OrderInv, which HostQueueProofs shows to be   *)
(* inductive; RunningInv and WaitAllInv, behind the third, are shown so    *)
(* here.                                                                   *)
(***************************************************************************)
EXTENDS HostQueueProofs

-------------------------------------------------------------------------------
\* The refinement mapping

LEMMA PhaseIs ==
    ASSUME NEW g \in Groups
    PROVE  /\ Idle(g) => PhaseOf[g] = "idle"
           /\ stage[g] \in {"dispatched", "queued"} => PhaseOf[g] = "waiting"
           /\ stage[g] \in {"running", "executed"} => PhaseOf[g] = "running"
           /\ stage[g] \in {"called", "cleaned"} => PhaseOf[g] = "called"
           /\ Idle(g)' => PhaseOf'[g] = "idle"
           /\ stage'[g] \in {"dispatched", "queued"} => PhaseOf'[g] = "waiting"
           /\ stage'[g] \in {"running", "executed"} => PhaseOf'[g] = "running"
           /\ stage'[g] \in {"called", "cleaned"} => PhaseOf'[g] = "called"
  BY Zenon DEF PhaseOf, Idle

\* Both are functions on the groups.
LEMMA MapsAreFunctions ==
    /\ PhaseOf = [g \in Groups |-> PhaseOf[g]] /\ PhaseOf' = [g \in Groups |-> PhaseOf'[g]]
    /\ AfterOf = [g \in Groups |-> AfterOf[g]] /\ AfterOf' = [g \in Groups |-> AfterOf'[g]]
  <1>1. PhaseOf = [g \in Groups |-> PhaseOf[g]] /\ PhaseOf' = [g \in Groups |-> PhaseOf'[g]]
    <2>1. PhaseOf \in [Groups -> Order!Phases] /\ PhaseOf' \in [Groups -> Order!Phases]
      BY Zenon DEF PhaseOf, Order!Phases
    <2> QED
      BY <2>1, Zenon
  <1>2. AfterOf = [g \in Groups |-> AfterOf[g]] /\ AfterOf' = [g \in Groups |-> AfterOf'[g]]
    BY DEF AfterOf
  <1> QED
    BY <1>1, <1>2, Zenon

\* A group that has left the queue, or is in the ring, waits for nothing.
LEMMA NothingToWaitFor ==
    CountInv => \A g \in Groups : stage[g] # "dispatched" => AfterOf[g] = {}
  <1> SUFFICES ASSUME CountInv, NEW g \in Groups, stage[g] # "dispatched" PROVE AfterOf[g] = {}
    BY Zenon
  <1>1. stage[g] = "queued" => \A s \in SemsIn(WaitsOf[g]) : signalled[s]
    BY Zenon DEF CountInv, Unsignalled, SemsIn
  <1> QED
    BY <1>1, Zenon DEF AfterOf

\* A group moves in a step that signals nothing: the phase follows its stage, and
\* the others wait for what they waited for.
LEMMA OneMoves ==
    ASSUME CountInv, NEW g \in Groups, \A h \in Groups \ {g} : stage'[h] = stage[h],
           signalled' = signalled
    PROVE  /\ PhaseOf' = [PhaseOf EXCEPT ![g] = PhaseOf'[g]]
           /\ AfterOf' = [AfterOf EXCEPT ![g] = AfterOf'[g]]
           /\ stage'[g] \notin {"dispatched", "queued"} /\ stage[g] # "dispatched" =>
                 AfterOf' = AfterOf
  <1>1. PhaseOf' = [PhaseOf EXCEPT ![g] = PhaseOf'[g]]
    <2>1. \A h \in Groups \ {g} : PhaseOf'[h] = PhaseOf[h]
      BY Zenon DEF PhaseOf, Idle
    <2> QED
      BY <2>1, MapsAreFunctions, Zenon
  <1>2. AfterOf' = [AfterOf EXCEPT ![g] = AfterOf'[g]]
    BY Zenon DEF AfterOf
  <1>3. ASSUME stage'[g] \notin {"dispatched", "queued"}, stage[g] # "dispatched"
        PROVE  AfterOf' = AfterOf
    <2>1. AfterOf[g] = {}
      BY <1>3, NothingToWaitFor, Zenon
    <2>2. AfterOf'[g] = {}
      BY <1>3, Zenon DEF AfterOf
    <2>3. \A h \in Groups : AfterOf'[h] = AfterOf[h]
      BY <2>1, <2>2, Zenon DEF AfterOf
    <2> QED
      BY <2>3, MapsAreFunctions, Zenon
  <1> QED
    BY <1>1, <1>2, <1>3, Zenon

-------------------------------------------------------------------------------
\* The steps

\* A step that changes no stage and no semaphore that somebody waits for.
LEMMA Stutters ==
    ASSUME UNCHANGED stage,
           \A g \in Groups : ~Idle(g) =>
              \A s \in SemsIn(WaitsOf[g]) : signalled'[s] <=> signalled[s]
    PROVE  UNCHANGED Order!vars
  <1>1. PhaseOf' = PhaseOf
    BY Zenon DEF PhaseOf, Idle
  <1>2. \A g \in Groups : AfterOf'[g] = AfterOf[g]
    BY Zenon DEF AfterOf, Idle
  <1>3. AfterOf' = AfterOf
    BY <1>2, MapsAreFunctions, Zenon
  <1> QED
    BY <1>1, <1>3, Zenon DEF Order!vars

\* A group moves within its phase.
LEMMA MovesInside ==
    ASSUME CountInv, NEW g \in Groups, \A h \in Groups \ {g} : stage'[h] = stage[h],
           signalled' = signalled,
           \/ stage[g] = "dispatched" /\ stage'[g] = "queued"
           \/ stage[g] = "running" /\ stage'[g] = "executed"
           \/ stage[g] = "called" /\ stage'[g] = "cleaned"
    PROVE  UNCHANGED Order!vars
  <1>1. PhaseOf'[g] = PhaseOf[g]
    BY PhaseIs, Zenon
  <1>2. AfterOf'[g] = AfterOf[g]
    BY Zenon DEF AfterOf
  <1>3. /\ PhaseOf' = [PhaseOf EXCEPT ![g] = PhaseOf'[g]]
        /\ AfterOf' = [AfterOf EXCEPT ![g] = AfterOf'[g]]
    BY OneMoves, Zenon
  <1>4. PhaseOf' = PhaseOf /\ AfterOf' = AfterOf
    BY <1>1, <1>2, <1>3, MapsAreFunctions, Zenon
  <1> QED
    BY <1>4, Zenon DEF Order!vars

\* hostDispatch makes a dispatch that comes after those that signal its waits.
LEMMA DispatchMaps ==
    ASSUME BaseInv, BaseInv', CountInv, NEW t \in Clients, NEW g \in Groups, Dispatch(t, g)
    PROVE  Order!Dispatch(g)
  <1>1. /\ Idle(g) /\ stage' = [stage EXCEPT ![g] = "dispatched"] /\ signalled' = signalled
        /\ TypeOK /\ TypeOK'
    BY Zenon DEF Dispatch, MayDispatch, BaseInv
  <1>2. stage'[g] = "dispatched" /\ \A h \in Groups \ {g} : stage'[h] = stage[h]
    BY <1>1, Zenon DEF TypeOK
  <1>3. /\ PhaseOf' = [PhaseOf EXCEPT ![g] = PhaseOf'[g]]
        /\ AfterOf' = [AfterOf EXCEPT ![g] = AfterOf'[g]]
    BY <1>1, <1>2, OneMoves, Zenon
  <1>4. PhaseOf[g] = "idle" /\ PhaseOf'[g] = "waiting"
    BY <1>1, <1>2, PhaseIs, Zenon
  <1>5. AfterOf'[g] \in SUBSET Groups
    BY Zenon DEF AfterOf
  <1> QED
    BY <1>3, <1>4, <1>5, Zenon DEF Order!Dispatch, Order!Move

\* A thread that takes a group starts it, and it waits for nothing.
LEMMA TakeMaps ==
    ASSUME BaseInv, BaseInv', CountInv, NEW t \in Threads, Take(t)
    PROVE  \E g \in Groups : Order!Start(g)
  <1>1. /\ stage' = [stage EXCEPT ![Head(pending)] = "running"] /\ pending # << >>
        /\ signalled' = signalled /\ TypeOK /\ RunsOnce
    BY Zenon DEF Take, semVars, BaseInv
  <1>2. PICK g : g = Head(pending)
    BY Zenon
  <1>3. g = pending[1] /\ 1 \in DOMAIN pending /\ g \in Groups
    BY <1>1, <1>2 DEF TypeOK
  <1>4. stage[g] = "queued" /\ stage' = [stage EXCEPT ![g] = "running"]
    BY <1>1, <1>2, <1>3, Zenon DEF RunsOnce
  <1>5. /\ stage'[g] = "running" /\ \A h \in Groups \ {g} : stage'[h] = stage[h]
        /\ AfterOf[g] = {}
    <2>1. AfterOf[g] = {}
      BY <1>3, <1>4, NothingToWaitFor, Zenon
    <2>2. DOMAIN stage = Groups
      BY <1>1, Zenon DEF TypeOK
    <2> QED
      BY <1>3, <1>4, <2>1, <2>2, Zenon
  <1>6. /\ PhaseOf' = [PhaseOf EXCEPT ![g] = PhaseOf'[g]] /\ AfterOf' = AfterOf
    BY <1>1, <1>3, <1>4, <1>5, OneMoves, Zenon
  <1>7. PhaseOf[g] = "waiting" /\ PhaseOf'[g] = "running"
    BY <1>3, <1>4, <1>5, PhaseIs, Zenon
  <1> QED
    BY <1>3, <1>5, <1>6, <1>7, Zenon DEF Order!Start, Order!Move

\* The user_function is called before anything is released.
LEMMA UserFunctionMaps ==
    ASSUME BaseInv, BaseInv', CountInv, NEW t \in Threads, UserFunction(t)
    PROVE  \E g \in Groups : Order!Call(g)
  <1>inv. TypeOK /\ Control(t) /\ Placed(t) /\ pc[t] = "callback"
    BY Zenon DEF UserFunction, BaseInv, ControlInv, StageInv
  <1>1. stage' = [stage EXCEPT ![job[t]] = "called"] /\ signalled' = signalled
    BY Zenon DEF UserFunction, semVars
  <1>2. PICK g : g = job[t]
    BY Zenon
  <1>3. g \in Groups /\ stage[g] = "executed"
    <2>1. job[t] \in Groups /\ stage[job[t]] = "executed"
      BY <1>inv, Zenon DEF TypeOK, Control, Running, Placed
    <2> QED
      BY <1>2, <2>1, Zenon
  <1>4. stage'[g] = "called" /\ \A h \in Groups \ {g} : stage'[h] = stage[h]
    BY <1>inv, <1>1, <1>2, <1>3, Zenon DEF TypeOK
  <1>5. PhaseOf' = [PhaseOf EXCEPT ![g] = PhaseOf'[g]] /\ AfterOf' = AfterOf
    BY <1>1, <1>3, <1>4, OneMoves, Zenon
  <1>6. PhaseOf[g] = "running" /\ PhaseOf'[g] = "called"
    BY <1>3, <1>4, PhaseIs, Zenon
  <1> QED
    BY <1>3, <1>5, <1>6, Zenon DEF Order!Call, Order!Move

\* When a dispatch completes its semaphores are signalled, so nobody waits for it.
LEMMA SetSignalMaps ==
    ASSUME BaseInv, BaseInv', SemaphoreInv, CountInv, NEW t \in Threads, SetSignal(t)
    PROVE  \E g \in Groups : Order!Complete(g)
  <1>inv. TypeOK /\ Control(t) /\ Placed(t) /\ pc[t] = "set_signal"
    BY Zenon DEF SetSignal, BaseInv, ControlInv, StageInv
  <1>1. stage' = [stage EXCEPT ![job[t]] = "complete"] /\ signalled' = signalled
    BY Zenon DEF SetSignal, semVars
  <1>2. PICK g : g = job[t]
    BY Zenon
  <1>3. g \in Groups /\ stage[g] = "cleaned"
    <2>1. job[t] \in Groups /\ stage[job[t]] = "cleaned"
      BY <1>inv, Zenon DEF TypeOK, Control, Running, Placed
    <2> QED
      BY <1>2, <2>1, Zenon
  <1>4. stage'[g] = "complete" /\ Idle(g)' /\ \A h \in Groups \ {g} : stage'[h] = stage[h]
    BY <1>inv, <1>1, <1>2, <1>3, Zenon DEF TypeOK, Idle
  <1>5. PhaseOf' = [PhaseOf EXCEPT ![g] = PhaseOf'[g]] /\ AfterOf' = AfterOf
    BY <1>1, <1>3, <1>4, OneMoves, Zenon
  <1>6. PhaseOf[g] = "called" /\ PhaseOf'[g] = "idle"
    BY <1>3, <1>4, PhaseIs, Zenon
  <1>7. \A h \in Groups : g \notin AfterOf[h]
    BY <1>3, Zenon DEF SemaphoreInv, AfterOf
  <1> QED
    BY <1>3, <1>5, <1>6, <1>7, Zenon DEF Order!Complete, Order!Move

\* semaphore_s::signal, of a semaphore that one group signals, releases those that
\* waited for no other semaphore of that group.
LEMMA SignalMaps ==
    ASSUME OneSignaller, BaseInv, SemaphoreInv, NEW t \in Threads,
           CleanupSignal(t), sems[t] # << >>
    PROVE  \E g \in Groups : Order!Release(g)
  <1>1. /\ pc[t] = "signal" /\ signalled' = [signalled EXCEPT ![Head(sems[t])] = TRUE]
        /\ stage' = stage /\ TypeOK /\ Control(t) /\ Placed(t) /\ Signalling(t)
    BY Zenon DEF CleanupSignal, SignalSemaphore, SetSignalled, BaseInv, ControlInv, StageInv,
       SemaphoreInv
  <1>2. PICK g, s : g = job[t] /\ s = Head(sems[t])
    BY Zenon
  <1>3. /\ g \in Groups /\ g # NoGroup /\ stage[g] = "called"
        /\ sems[t] \in Seq(Semaphores) /\ Unique(sems[t])
        /\ SemsIn(sems[t]) = {r \in SemsIn(SignalsOf[g]) : ~signalled[r]}
    BY <1>1, <1>2, QueueAssumption, Zenon DEF TypeOK, Control, Running, Placed, Locked, Signalling
  <1>4. s \in SemsIn(SignalsOf[g])
    BY <1>2, <1>3, UniqueTail, Zenon
  <1>5. s \in Semaphores
    BY <1>2, <1>3
  <1>6. signalled'[s] /\ \A r : r # s => (signalled'[r] <=> signalled[r])
    BY <1>1, <1>2, <1>5 DEF TypeOK
  <1> DEFINE S == {h \in Groups : g \notin AfterOf'[h]}
  <1>7. ASSUME NEW h \in Groups
        PROVE  AfterOf'[h] = AfterOf[h] \ (IF h \in S THEN {g} ELSE {})
    <2>1. \A x \in AfterOf'[h] : x \in AfterOf[h]
      BY <1>1, <1>6, Zenon DEF AfterOf
    <2>2. ASSUME NEW x \in AfterOf[h], x # g PROVE x \in AfterOf'[h]
      <3>1. x \in Groups /\ s \notin SemsIn(SignalsOf[x])
        BY <1>3, <1>4, <2>2, Zenon DEF OneSignaller, AfterOf
      <3> QED
        BY <1>1, <1>6, <2>2, <3>1, Zenon DEF AfterOf
    <2> QED
      BY <1>3, <2>1, <2>2, Zenon
  <1>8. AfterOf' = [h \in Groups |-> AfterOf[h] \ (IF h \in S THEN {g} ELSE {})]
    BY <1>7, MapsAreFunctions, Zenon
  <1>9. PhaseOf[g] = "called" /\ PhaseOf' = PhaseOf /\ S \in SUBSET Groups
    BY <1>1, <1>3, PhaseIs, Zenon DEF PhaseOf, Idle
  <1> HIDE DEF S
  <1> QED
    BY <1>3, <1>8, <1>9, Zenon DEF Order!Release

\* A step of the queue is a step of DispatchOrder, or none.
LEMMA StepMaps ==
    ASSUME OneSignaller, BaseInv, BaseInv', OrderInv, [Next]_vars
    PROVE  [Order!Next]_Order!vars
  <1>inv. TypeOK /\ SemaphoreInv /\ CountInv
    BY Zenon DEF BaseInv, OrderInv
  <1>1. ASSUME UNCHANGED <<stage, signalled>> PROVE [Order!Next]_Order!vars
    BY <1>1, Stutters, Zenon
  <1>2. ASSUME NEW t \in Clients, Call(t) \/ WaitStep(t)
        PROVE  [Order!Next]_Order!vars
    <2>1. CASE \E g \in Groups : Dispatch(t, g)
      BY <1>inv, <2>1, DispatchMaps, Zenon DEF Order!Next
    <2>2. ASSUME NEW s \in Semaphores, ResetSemaphore(t, s)
          PROVE  [Order!Next]_Order!vars
      <3>1. /\ UNCHANGED stage /\ signalled' = [signalled EXCEPT ![s] = FALSE]
            /\ \A g \in Groups : ~Idle(g) => s \notin SemsIn(WaitsOf[g])
        BY <2>2, Zenon DEF ResetSemaphore
      <3>2. \A r : r # s => (signalled'[r] <=> signalled[r])
        BY <1>inv, <3>1 DEF TypeOK
      <3> QED
        BY <3>1, <3>2, Stutters, Zenon
    <2>3. CASE \E f \in Fences : TryWait(t, f, "help") \/ TryWait(t, f, "poll") \/ ResetFence(t, f)
      BY <1>1, <2>3, Zenon DEF TryWait, ResetFence, semVars
    <2>4. CASE WaitAll(t) \/ WaitStep(t)
      BY <1>1, <2>4, Zenon DEF WaitAll, WaitStep, HelpEnds, ReadSignal, Poll, ReadResult,
         WaitAllReturn, semVars
    <2> QED
      BY <1>2, <2>1, <2>2, <2>3, <2>4, Zenon DEF Call
  <1>3. ASSUME NEW t \in Threads, LockedStep(t) \/ RunStep(t) \/ SpuriousWake(t)
        PROVE  [Order!Next]_Order!vars
    <2>inv. Control(t) /\ Placed(t) /\ StageInv
      BY Zenon DEF BaseInv, ControlInv, StageInv
    <2>1. CASE \/ NotifyGroups(t) \/ EnqueueCount(t) \/ SetResult(t) \/ CleanupLock(t)
               \/ Decrement(t) \/ SpuriousWake(t)
      BY <1>1, <2>1, Zenon DEF NotifyGroups, EnqueueCount, SetResult, CleanupLock, Decrement,
         SpuriousWake, semVars
    <2>2. CASE EnqueueStore(t)
      <3>1. CASE UNCHANGED stage
        BY <1>1, <2>2, <3>1, Zenon DEF EnqueueStore, semVars
      <3>2. CASE stage' = [stage EXCEPT ![enq[t]] = "queued"]
        <4>1. PICK g : g = enq[t]
          BY Zenon
        <4>2. enq[t] \in Groups /\ stage[enq[t]] = "dispatched"
          BY <1>inv, <2>2, <2>inv, Zenon DEF EnqueueStore, TypeOK, Control, StageInv
        <4>3. /\ g \in Groups /\ stage[g] = "dispatched" /\ stage'[g] = "queued"
              /\ \A h \in Groups \ {g} : stage'[h] = stage[h]
          BY <1>inv, <3>2, <4>1, <4>2, Zenon DEF TypeOK
        <4>4. signalled' = signalled
          BY <2>2, Zenon DEF EnqueueStore, semVars
        <4> QED
          BY <1>inv, <4>3, <4>4, MovesInside, Zenon
      <3> QED
        BY <2>2, <3>1, <3>2, Zenon DEF EnqueueStore
    <2>3. CASE Take(t)
      BY <1>inv, <2>3, TakeMaps, Zenon DEF Order!Next
    <2>4. CASE ProcessCommands(t)
      <3>1. PICK g : g = job[t]
        BY Zenon
      <3>2. job[t] \in Groups /\ stage[job[t]] = "running"
        BY <1>inv, <2>4, <2>inv, Zenon DEF ProcessCommands, TypeOK, Control, Running, Placed
      <3>3. stage' = [stage EXCEPT ![job[t]] = "executed"] /\ signalled' = signalled
        BY <2>4, Zenon DEF ProcessCommands, semVars
      <3>4. /\ g \in Groups /\ stage[g] = "running" /\ stage'[g] = "executed"
            /\ \A h \in Groups \ {g} : stage'[h] = stage[h]
        BY <1>inv, <3>1, <3>2, <3>3, Zenon DEF TypeOK
      <3> QED
        BY <1>inv, <3>3, <3>4, MovesInside, Zenon
    <2>5. CASE UserFunction(t)
      BY <1>inv, <2>5, UserFunctionMaps, Zenon DEF Order!Next
    <2>6. CASE CleanupSignal(t) /\ sems[t] # << >>
      BY <1>inv, <2>6, SignalMaps, Zenon DEF Order!Next
    <2>7. CASE CleanupSignal(t) /\ sems[t] = << >>
      <3>1. PICK g : g = job[t]
        BY Zenon
      <3>2. job[t] \in Groups /\ stage[job[t]] = "called"
        BY <1>inv, <2>7, <2>inv, Zenon DEF CleanupSignal, TypeOK, Control, Running, Placed, Locked
      <3>3. stage' = [stage EXCEPT ![job[t]] = "cleaned"] /\ signalled' = signalled
        BY <2>7, Zenon DEF CleanupSignal, SignalSemaphore
      <3>4. /\ g \in Groups /\ stage[g] = "called" /\ stage'[g] = "cleaned"
            /\ \A h \in Groups \ {g} : stage'[h] = stage[h]
        BY <1>inv, <3>1, <3>2, <3>3, Zenon DEF TypeOK
      <3> QED
        BY <1>inv, <3>3, <3>4, MovesInside, Zenon
    <2>8. CASE SetSignal(t)
      BY <1>inv, <2>8, SetSignalMaps, Zenon DEF Order!Next
    <2> QED
      BY <1>3, <2>1, <2>2, <2>3, <2>4, <2>5, <2>6, <2>7, <2>8, Zenon DEF LockedStep, RunStep
  <1>4. CASE UNCHANGED vars
    BY <1>1, <1>4, Zenon DEF vars, semVars
  <1> QED
    BY <1>2, <1>3, <1>4, Zenon DEF Next

\* The queue of the host target: where each semaphore has one group that signals it,
\* once, the dispatches run in the order muxDispatch promises, whether or not their
\* allocations fail and however often groups, semaphores and fences are used again.
THEOREM HostImplementsOrder ==
    ASSUME SignalsOnce, OneSignaller
    PROVE  Spec => ImplementsDispatchOrder
  <1>1. Init => Order!Init
    BY DEF Init, Order!Init, PhaseOf, AfterOf, Idle
  <1>2. BaseInv /\ BaseInv' /\ OrderInv /\ [Next]_vars => [Order!Next]_Order!vars
    BY StepMaps, Zenon
  <1> QED
    BY <1>1, <1>2, BaseInvariance, OrderInvariance, PTL DEF Spec, ImplementsDispatchOrder, Order!Spec

-------------------------------------------------------------------------------
\* The counts of waits

LEMMA PlacesAre ==
    ASSUME NEW g, NEW f, NEW S, NEW p
    PROVE  p \in Places(g, f, S) <=> \E x \in S : \E k \in In(f[x], g) : p = <<x, k>>
  <1>1. p \in Places(g, f, S) <=> \E x \in S : p \in {x} \X In(f[x], g)
    BY Zenon DEF Places, In
  <1>2. \A x : p \in {x} \X In(f[x], g) <=> \E k \in In(f[x], g) : p = <<x, k>>
    OBVIOUS
  <1> QED
    BY <1>1, <1>2, Zenon

\* The calls under way are those of the owner of the mutex.
LEMMA PlacesOfCalls ==
    ASSUME BaseInv, NEW g \in Groups
    PROVE  Cardinality(Places(g, calls, Threads)) = Cardinality(In(Due, g))
  <1> DEFINE f == [k \in In(Due, g) |-> <<mutex, k>>]
             P == Places(g, calls, Threads)
  <1>1. /\ \A t \in Threads : mutex = t => Due = calls[t]
        /\ \A t \in Threads : mutex # t => calls[t] = << >>
        /\ mutex = NoThread => Due = << >>
        /\ Due \in Seq(Groups) /\ mutex \in Threads \cup {NoThread}
    BY DueIs, Zenon DEF BaseInv, TypeOK
  <1>2. IsFiniteSet(In(Due, g)) /\ In(<< >>, g) = {}
    <2>1. In(<< >>, g) = {}
      BY DEF In
    <2> QED
      BY <1>1, <2>1, InFinite, Zenon
  <1>3. \A k \in In(Due, g) : mutex \in Threads /\ k \in In(calls[mutex], g)
    BY <1>1, <1>2, Zenon
  <1>p. \A p : p \in P <=> \E t \in Threads : \E k \in In(calls[t], g) : p = <<t, k>>
    BY PlacesAre
  <1> HIDE DEF P
  <1>4. \A k \in In(Due, g) : <<mutex, k>> \in P
    BY <1>3, <1>p, Zenon
  <1>5. \A p \in P : \E k \in In(Due, g) : p = <<mutex, k>>
    <2> SUFFICES ASSUME NEW p \in P PROVE \E k \in In(Due, g) : p = <<mutex, k>>
      BY Zenon
    <2>1. PICK t \in Threads : \E k \in In(calls[t], g) : p = <<t, k>>
      BY <1>p, Zenon
    <2>2. mutex = t
      BY <1>1, <1>2, <2>1, Zenon
    <2> QED
      BY <1>1, <2>1, <2>2, Zenon
  <1>6. f \in [In(Due, g) -> P] /\ \A k, l \in In(Due, g) : f[k] = f[l] => k = l
    BY <1>4
  <1>7. \A p \in P : \E k \in In(Due, g) : f[k] = p
    BY <1>5
  <1> HIDE DEF f
  <1> QED
    BY <1>2, <1>6, <1>7, SameSize, Zenon DEF P

\* A tracked group is in the lists of the semaphores once for each wait that is not
\* signalled.
LEMMA PlacesOfWaits ==
    ASSUME BaseInv, OrderInv, ~AllocFails, NEW g \in Groups, Tracked(g)
    PROVE  Cardinality(Places(g, waitingGroups, {s \in Semaphores : ~signalled[s]})) =
              Cardinality(Unsignalled(g))
  <1> DEFINE U == {s \in Semaphores : ~signalled[s]}
             P == Places(g, waitingGroups, U)
             at == [s \in U |-> CHOOSE f : f \in Bijection(In(WaitsOf[g], s),
                                                           In(waitingGroups[s], g))]
             f == [k \in Unsignalled(g) |-> <<WaitsOf[g][k], at[WaitsOf[g][k]][k]>>]
  <1>1. WaitsOf[g] \in Seq(Semaphores) /\ \A s \in U : waitingGroups[s] \in Seq(Groups)
    BY QueueAssumption, Zenon DEF BaseInv, TypeOK
  <1>2. ASSUME NEW s \in U
        PROVE  at[s] \in Bijection(In(WaitsOf[g], s), In(waitingGroups[s], g))
    <2>1. Cardinality(In(waitingGroups[s], g)) = Cardinality(In(WaitsOf[g], s))
      BY <1>2, Zenon DEF OrderInv, ExactInv
    <2>2. IsFiniteSet(In(waitingGroups[s], g)) /\ IsFiniteSet(In(WaitsOf[g], s))
      BY <1>1, <1>2, InFinite, Zenon
    <2>3. ExistsBijection(In(WaitsOf[g], s), In(waitingGroups[s], g))
      BY <2>1, <2>2, FS_SameCardinalityBij, Zenon
    <2> HIDE DEF U
    <2> QED
      BY <1>2, <2>3, Zenon DEF ExistsBijection
  <1>3. ASSUME NEW s \in U
        PROVE  /\ \A k \in In(WaitsOf[g], s) : at[s][k] \in In(waitingGroups[s], g)
               /\ \A k, l \in In(WaitsOf[g], s) : at[s][k] = at[s][l] => k = l
               /\ \A l \in In(waitingGroups[s], g) : \E k \in In(WaitsOf[g], s) : at[s][k] = l
    <2>1. at[s] \in Bijection(In(WaitsOf[g], s), In(waitingGroups[s], g))
      BY <1>2, <1>3, Zenon
    <2> HIDE DEF at, U
    <2> QED
      BY <2>1, Zenon DEF Bijection, Injection, Surjection, IsInjective
  <1>4. IsFiniteSet(Unsignalled(g))
    BY WaitsFinite, Zenon DEF Unsignalled
  <1>5. /\ \A k \in Unsignalled(g) : WaitsOf[g][k] \in U /\ k \in In(WaitsOf[g], WaitsOf[g][k])
        /\ \A s \in U : \A k \in In(WaitsOf[g], s) : k \in Unsignalled(g) /\ WaitsOf[g][k] = s
    <2>1. \A k \in DOMAIN WaitsOf[g] : WaitsOf[g][k] \in Semaphores
      BY <1>1
    <2> QED
      BY <2>1, Zenon DEF Unsignalled, In
  <1>p. \A p : p \in P <=> \E s \in U : \E l \in In(waitingGroups[s], g) : p = <<s, l>>
    BY PlacesAre
  <1> HIDE DEF at, U, P
  <1>6. f \in [Unsignalled(g) -> P]
    <2>1. \A k \in Unsignalled(g) : <<WaitsOf[g][k], at[WaitsOf[g][k]][k]>> \in P
      <3> SUFFICES ASSUME NEW k \in Unsignalled(g)
                   PROVE  <<WaitsOf[g][k], at[WaitsOf[g][k]][k]>> \in P
        BY Zenon
      <3>1. /\ WaitsOf[g][k] \in U
            /\ at[WaitsOf[g][k]][k] \in In(waitingGroups[WaitsOf[g][k]], g)
        BY <1>3, <1>5, Zenon
      <3> QED
        BY <1>p, <3>1, Zenon
    <2> QED
      BY <2>1, Zenon
  <1>7. \A k, l \in Unsignalled(g) : f[k] = f[l] => k = l
    <2> SUFFICES ASSUME NEW k \in Unsignalled(g), NEW l \in Unsignalled(g), f[k] = f[l]
                 PROVE  k = l
      BY Zenon
    <2>1. WaitsOf[g][k] = WaitsOf[g][l] /\ at[WaitsOf[g][k]][k] = at[WaitsOf[g][l]][l]
      OBVIOUS
    <2> QED
      <3>1. PICK s \in U : s = WaitsOf[g][k]
        BY <1>5, Zenon
      <3>2. k \in In(WaitsOf[g], s) /\ l \in In(WaitsOf[g], s) /\ at[s][k] = at[s][l]
        BY <1>5, <2>1, <3>1, Zenon
      <3> QED
        BY <1>3, <3>2, Zenon
  <1>8. \A p \in P : \E k \in Unsignalled(g) : f[k] = p
    <2> SUFFICES ASSUME NEW p \in P PROVE \E k \in Unsignalled(g) : f[k] = p
      BY Zenon
    <2>1. PICK s \in U : \E l \in In(waitingGroups[s], g) : p = <<s, l>>
      BY <1>p, Zenon
    <2>2. PICK l \in In(waitingGroups[s], g) : p = <<s, l>>
      BY <2>1, Zenon
    <2>3. PICK k \in In(WaitsOf[g], s) : at[s][k] = l
      BY <1>3, Zenon
    <2>4. k \in Unsignalled(g) /\ WaitsOf[g][k] = s
      BY <1>5, Zenon
    <2> QED
      BY <2>2, <2>3, <2>4, Zenon
  <1> HIDE DEF f
  <1> QED
    BY <1>4, <1>6, <1>7, <1>8, SameSize, Zenon DEF P, U

\* Where allocations succeed, a group waits for exactly as many signals as will come,
\* from semaphores that list it and from calls of signalCompleted under way: it is
\* neither lost nor started early.
THEOREM CountsAreExact ==
    ASSUME SignalsOnce, ~AllocFails
    PROVE  Spec => []WaitCountIsExact
  <1>1. ASSUME BaseInv, OrderInv, NEW g \in Groups
        PROVE  waitCount[g] =
                 Cardinality(Places(g, waitingGroups, {s \in Semaphores : ~signalled[s]}))
                   + Cardinality(Places(g, calls, Threads))
    <2>inv. StageInv /\ CountInv /\ ExactInv
      BY <1>1, Zenon DEF BaseInv, OrderInv
    <2>1. CASE Tracked(g)
      <3>1. waitCount[g] = Cardinality(Unsignalled(g)) + Cardinality(In(Due, g))
        BY <2>inv, <2>1, Zenon DEF ExactInv, Left
      <3> QED
        BY <1>1, <2>1, <3>1, PlacesOfWaits, PlacesOfCalls, Zenon
    <2>2. CASE ~Tracked(g)
      <3>1. waitCount[g] = 0
        BY <2>inv, <2>2, QueueAssumption, Zenon DEF StageInv, Tracked
      <3>2. In(Due, g) = {}
        BY <2>inv, <2>2, Zenon DEF ExactInv
      <3>3. Places(g, waitingGroups, {s \in Semaphores : ~signalled[s]}) = {}
        <4>1. \A s \in {r \in Semaphores : ~signalled[r]} : In(waitingGroups[s], g) = {}
          BY <2>inv, <2>2, Zenon DEF CountInv
        <4> QED
          BY <4>1, PlacesAre, Zenon
      <3>4. /\ Cardinality(Places(g, calls, Threads)) = 0
            /\ Cardinality(Places(g, waitingGroups, {s \in Semaphores : ~signalled[s]})) = 0
        BY <1>1, <3>2, <3>3, PlacesOfCalls, FS_EmptySet, Zenon
      <3> QED
        BY <3>1, <3>4
    <2> QED
      BY <2>1, <2>2, Zenon
  <1>2. BaseInv /\ OrderInv => WaitCountIsExact
    BY <1>1, Zenon DEF WaitCountIsExact
  <1> QED
    BY <1>2, BaseInvariance, OrderInvariance, PTL

-------------------------------------------------------------------------------
\* muxWaitAll

\* The ring and the threads keep their groups, and the count says how many.
LEMMA RunningKept ==
    ASSUME RunningInv, UNCHANGED <<runningGroups, pending, job>>,
           \A t \in Threads : pc'[t] = "enq_store" <=> pc[t] = "enq_store",
           \A g \in Groups : stage'[g] = "queued" => stage[g] = "queued",
           \A g \in Groups : stage'[g] \in {"running", "executed", "called", "cleaned"} =>
              /\ stage[g] \in {"running", "executed", "called", "cleaned"}
              /\ \A t \in Threads : job[t] = g /\ pc'[t] = "decrement" => pc[t] = "decrement"
    PROVE  RunningInv'
  <1>1. Jobs' = Jobs
    BY Zenon DEF Jobs
  <1>2. (\E t \in Threads : pc'[t] = "enq_store") <=> (\E t \in Threads : pc[t] = "enq_store")
    BY Zenon
  <1>3. ASSUME NEW g \in Groups, stage'[g] = "queued"
        PROVE  \E k \in DOMAIN pending' : pending'[k] = g
    <2>1. stage[g] = "queued"
      BY <1>3, Zenon
    <2>2. \E k \in DOMAIN pending : pending[k] = g
      BY <2>1, Zenon DEF RunningInv
    <2> QED
      BY <2>2, Zenon
  <1>4. ASSUME NEW g \in Groups, stage'[g] \in {"running", "executed", "called", "cleaned"}
        PROVE  \E t \in Jobs : job'[t] = g /\ pc'[t] # "decrement"
    <2>1. PICK t \in Jobs : job[t] = g /\ pc[t] # "decrement"
      BY <1>4, Zenon DEF RunningInv
    <2> QED
      BY <1>4, <2>1, Zenon DEF Jobs
  <1>5. /\ IsFiniteSet(Jobs')
        /\ runningGroups' = Len(pending') + Cardinality(Jobs')
                         + (IF \E t \in Threads : pc'[t] = "enq_store" THEN 1 ELSE 0)
    <2>1. CASE \E t \in Threads : pc[t] = "enq_store"
      BY <1>1, <1>2, <2>1, Zenon DEF RunningInv
    <2>2. CASE ~\E t \in Threads : pc[t] = "enq_store"
      BY <1>1, <1>2, <2>2, Zenon DEF RunningInv
    <2> QED
      BY <2>1, <2>2, Zenon
  <1> QED
    BY <1>1, <1>3, <1>4, <1>5, Zenon DEF RunningInv

\* Only the owner of the mutex is about to store a group.
LEMMA OneStores ==
    ASSUME BaseInv, NEW t \in Threads, pc[t] \in {"enq_count", "enq_store"}
    PROVE  \A u \in Threads \ {t} : pc[u] # "enq_store"
  <1>1. \A u \in Threads : pc[u] \in Locked <=> mutex = u
    BY Zenon DEF BaseInv, ControlInv, Control
  <1> QED
    BY <1>1, Zenon DEF Locked

LEMMA EnqueueCountRunning ==
    ASSUME BaseInv, RunningInv, NEW t \in Threads, EnqueueCount(t)
    PROVE  RunningInv'
  <1>1. /\ pc[t] = "enq_count" /\ runningGroups' = runningGroups + 1
        /\ pc' = [pc EXCEPT ![t] = "enq_store"] /\ UNCHANGED <<pending, job, stage>>
    BY Zenon DEF EnqueueCount, Goto
  <1>2. TypeOK
    BY Zenon DEF BaseInv
  <1>3. /\ pc'[t] = "enq_store" /\ \A u \in Threads \ {t} : pc'[u] = pc[u]
        /\ \A u \in Threads : pc[u] # "enq_store"
    BY <1>1, <1>2, OneStores, Zenon DEF TypeOK
  <1>4. Jobs' = Jobs /\ IsFiniteSet(Jobs) /\ runningGroups = Len(pending) + Cardinality(Jobs) + 0
    BY <1>1, <1>3, Zenon DEF Jobs, RunningInv
  <1>5. Len(pending) \in Nat /\ Cardinality(Jobs) \in Nat
    BY <1>2, <1>4, FS_CardinalityType DEF TypeOK
  <1>6. runningGroups' = Len(pending) + Cardinality(Jobs) + 1
    BY <1>1, <1>4, <1>5
  <1>7. \A g \in Groups : stage'[g] = "queued" => \E k \in DOMAIN pending' : pending'[k] = g
    BY <1>1, Zenon DEF RunningInv
  <1>8. ASSUME NEW g \in Groups, stage'[g] \in {"running", "executed", "called", "cleaned"}
        PROVE  \E u \in Jobs' : job'[u] = g /\ pc'[u] # "decrement"
    <2>1. PICK u \in Jobs : job[u] = g /\ pc[u] # "decrement"
      BY <1>1, <1>8, Zenon DEF RunningInv
    <2>2. u \in Threads
      BY Zenon DEF Jobs
    <2> QED
      BY <1>1, <1>3, <1>4, <2>1, <2>2, Zenon
  <1> QED
    BY <1>1, <1>3, <1>4, <1>6, <1>7, <1>8, Zenon DEF RunningInv

LEMMA EnqueueStoreRunning ==
    ASSUME BaseInv, RunningInv, NEW t \in Threads, EnqueueStore(t)
    PROVE  RunningInv'
  <1>1. pc[t] = "enq_store" /\ UNCHANGED <<runningGroups, job>>
    BY Zenon DEF EnqueueStore
  <1>2. TypeOK
    BY Zenon DEF BaseInv
  <1>3. CASE UNCHANGED <<pending, stage, pc>>
    BY <1>1, <1>3, RunningKept, Zenon
  <1>4. CASE /\ pending' = Append(pending, enq[t]) /\ stage' = [stage EXCEPT ![enq[t]] = "queued"]
             /\ pc' = [pc EXCEPT ![t] = "notify"]
    <2>1. /\ pc'[t] = "notify" /\ \A u \in Threads \ {t} : pc'[u] = pc[u]
          /\ \A u \in Threads : pc'[u] # "enq_store"
      BY <1>1, <1>2, <1>4, OneStores, Zenon DEF TypeOK
    <2>2. Jobs' = Jobs /\ IsFiniteSet(Jobs) /\ runningGroups = Len(pending) + Cardinality(Jobs) + 1
      BY <1>1, Zenon DEF Jobs, RunningInv
    <2>3. Cardinality(Jobs) \in Nat
      BY <2>2, FS_CardinalityType, Zenon
    <2>4. enq[t] \in Groups
      BY <1>1, <1>2, Zenon DEF BaseInv, TypeOK, ControlInv, Control
    <2>5. PICK g : g = enq[t]
      BY Zenon
    <2>6. /\ g \in Groups /\ pending \in Seq(Groups) /\ pending' = Append(pending, g)
          /\ \A h \in Groups \ {g} : stage'[h] = stage[h]
          /\ stage'[g] = "queued"
      BY <1>2, <1>4, <2>4, <2>5, Zenon DEF TypeOK
    <2>7. /\ Len(pending') = Len(pending) + 1 /\ Len(pending) \in Nat
          /\ \A k \in DOMAIN pending : k \in DOMAIN pending' /\ pending'[k] = pending[k]
          /\ \E k \in DOMAIN pending' : pending'[k] = g
      <3>1. /\ Len(pending') = Len(pending) + 1 /\ Len(pending) \in Nat
            /\ DOMAIN pending = 1..Len(pending) /\ DOMAIN pending' = 1..Len(pending')
            /\ pending'[Len(pending) + 1] = g
        BY <2>6
      <3>2. \A k \in 1..Len(pending) : pending'[k] = pending[k]
        BY <2>6
      <3>3. Len(pending) + 1 \in DOMAIN pending'
        BY <3>1
      <3>4. \A k \in DOMAIN pending : k \in DOMAIN pending'
        BY <3>1
      <3> QED
        BY <3>1, <3>2, <3>3, <3>4, Zenon
    <2>8. runningGroups' = Len(pending') + Cardinality(Jobs) + 0
      BY <1>1, <2>2, <2>3, <2>7
    <2>9. ASSUME NEW h \in Groups, stage'[h] = "queued"
          PROVE  \E k \in DOMAIN pending' : pending'[k] = h
      <3>1. CASE h = g
        BY <2>7, <3>1, Zenon
      <3>2. CASE h # g
        BY <2>6, <2>7, <2>9, <3>2, Zenon DEF RunningInv
      <3> QED
        BY <3>1, <3>2, Zenon
    <2>10. ASSUME NEW h \in Groups, stage'[h] \in {"running", "executed", "called", "cleaned"}
           PROVE  \E u \in Jobs' : job'[u] = h /\ pc'[u] # "decrement"
      <3>1. stage[h] \in {"running", "executed", "called", "cleaned"}
        BY <2>6, <2>10, Zenon
      <3>2. PICK u \in Jobs : job[u] = h /\ pc[u] # "decrement"
        BY <3>1, Zenon DEF RunningInv
      <3>3. u \in Threads
        BY Zenon DEF Jobs
      <3> QED
        BY <1>1, <2>1, <2>2, <3>2, <3>3, Zenon
    <2> QED
      BY <1>1, <2>1, <2>2, <2>8, <2>9, <2>10, Zenon DEF RunningInv
  <1> QED
    BY <1>3, <1>4, Zenon DEF EnqueueStore, Goto

LEMMA TakeRunning ==
    ASSUME BaseInv, RunningInv, NEW t \in Threads, Take(t)
    PROVE  RunningInv'
  <1>1. /\ pc[t] \in {"get", "help"} /\ pending # << >> /\ pending' = Tail(pending)
        /\ job' = [job EXCEPT ![t] = Head(pending)]
        /\ stage' = [stage EXCEPT ![Head(pending)] = "running"]
        /\ pc' = [pc EXCEPT ![t] = "process"] /\ UNCHANGED runningGroups
    BY Zenon DEF Take, Goto
  <1>inv. TypeOK /\ Control(t) /\ NoGroup \notin Groups
    BY QueueAssumption, Zenon DEF BaseInv, ControlInv
  <1>2. PICK g : g = Head(pending)
    BY Zenon
  <1>3. pending \in Seq(Groups) /\ DOMAIN stage = Groups /\ job \in [Threads -> Groups \cup {NoGroup}]
    BY <1>inv, Zenon DEF TypeOK
  <1>4. /\ g \in Groups /\ g = pending[1] /\ Len(pending) \in Nat /\ Len(pending) # 0
        /\ Len(pending') = Len(pending) - 1
        /\ DOMAIN pending = 1..Len(pending) /\ DOMAIN pending' = 1..Len(pending')
        /\ \A k \in 1..Len(pending') : pending'[k] = pending[k + 1]
    BY <1>1, <1>2, <1>3
  <1>5. /\ job'[t] = g /\ \A u \in Threads \ {t} : job'[u] = job[u] /\ pc'[u] = pc[u]
        /\ pc'[t] = "process" /\ \A h \in Groups \ {g} : stage'[h] = stage[h]
        /\ stage'[g] = "running"
    BY <1>1, <1>2, <1>3, <1>4, <1>inv, Zenon DEF TypeOK
  <1>6. job[t] = NoGroup /\ g # NoGroup
    BY <1>1, <1>4, <1>inv, Zenon DEF Control, Running, Locked
  <1>7. Jobs' = Jobs \cup {t} /\ t \notin Jobs
    BY <1>5, <1>6, Zenon DEF Jobs
  <1>8. IsFiniteSet(Jobs) /\ IsFiniteSet(Jobs') /\ Cardinality(Jobs') = Cardinality(Jobs) + 1
    BY <1>7, FS_AddElement, Zenon DEF RunningInv
  <1>9. Cardinality(Jobs) \in Nat
    BY <1>8, FS_CardinalityType, Zenon
  <1>10. (\E u \in Threads : pc'[u] = "enq_store") <=> (\E u \in Threads : pc[u] = "enq_store")
    BY <1>1, <1>5, Zenon
  <1>11. PICK n \in {0, 1} :
            /\ n = IF \E u \in Threads : pc[u] = "enq_store" THEN 1 ELSE 0
            /\ n = IF \E u \in Threads : pc'[u] = "enq_store" THEN 1 ELSE 0
            /\ runningGroups = Len(pending) + Cardinality(Jobs) + n
    BY <1>10, Zenon DEF RunningInv
  <1>12. runningGroups' = Len(pending') + Cardinality(Jobs') + n
    BY <1>1, <1>4, <1>8, <1>9, <1>11
  <1>13. ASSUME NEW h \in Groups, stage'[h] = "queued"
         PROVE  \E k \in DOMAIN pending' : pending'[k] = h
    <2>1. h # g /\ stage[h] = "queued"
      BY <1>5, <1>13, Zenon
    <2>2. PICK k \in DOMAIN pending : pending[k] = h
      BY <2>1, Zenon DEF RunningInv
    <2>3. k \in 1..Len(pending) /\ k # 1
      BY <1>4, <2>1, <2>2, Zenon
    <2>4. k - 1 \in 1..Len(pending') /\ (k - 1) + 1 = k
      BY <1>4, <2>3
    <2>5. pending'[k - 1] = h
      BY <1>4, <2>2, <2>4, Zenon
    <2> QED
      BY <1>4, <2>4, <2>5, Zenon
  <1>14. ASSUME NEW h \in Groups, stage'[h] \in {"running", "executed", "called", "cleaned"}
         PROVE  \E u \in Jobs' : job'[u] = h /\ pc'[u] # "decrement"
    <2>1. CASE h = g
      BY <1>5, <1>7, <2>1, Zenon
    <2>2. CASE h # g
      <3>1. PICK u \in Jobs : job[u] = h /\ pc[u] # "decrement"
        BY <1>5, <1>14, <2>2, Zenon DEF RunningInv
      <3>2. u \in Threads \ {t}
        BY <1>7, Zenon DEF Jobs
      <3> QED
        BY <1>5, <1>7, <3>1, <3>2, Zenon
    <2> QED
      BY <2>1, <2>2, Zenon
  <1> QED
    BY <1>8, <1>11, <1>12, <1>13, <1>14, Zenon DEF RunningInv

LEMMA DecrementRunning ==
    ASSUME BaseInv, RunningInv, NEW t \in Threads, Decrement(t)
    PROVE  RunningInv'
  <1>1. /\ pc[t] = "decrement" /\ runningGroups' = runningGroups - 1
        /\ job' = [job EXCEPT ![t] = NoGroup] /\ UNCHANGED <<pending, stage>>
        /\ pc' = [pc EXCEPT ![t] = IF t \in Workers THEN "get" ELSE "help"]
    BY Zenon DEF Decrement, Goto
  <1>inv. TypeOK /\ Control(t)
    BY Zenon DEF BaseInv, ControlInv
  <1>2. /\ job[t] # NoGroup /\ job'[t] = NoGroup /\ pc'[t] \in {"get", "help"}
        /\ \A u \in Threads \ {t} : job'[u] = job[u] /\ pc'[u] = pc[u]
    BY <1>1, <1>inv, Zenon DEF TypeOK, Control, Running
  <1>3. Jobs' = Jobs \ {t} /\ t \in Jobs
    BY <1>2, Zenon DEF Jobs
  <1>4. IsFiniteSet(Jobs)
    BY Zenon DEF RunningInv
  <1>5. IsFiniteSet(Jobs') /\ Cardinality(Jobs') = Cardinality(Jobs) - 1
    BY <1>3, <1>4, FS_RemoveElement, Zenon
  <1>6. Cardinality(Jobs) \in Nat /\ Len(pending) \in Nat
    BY <1>4, <1>inv, FS_CardinalityType DEF TypeOK
  <1>7. (\E u \in Threads : pc'[u] = "enq_store") <=> (\E u \in Threads : pc[u] = "enq_store")
    BY <1>1, <1>2, Zenon
  <1>8. PICK n \in {0, 1} :
            /\ n = IF \E u \in Threads : pc[u] = "enq_store" THEN 1 ELSE 0
            /\ n = IF \E u \in Threads : pc'[u] = "enq_store" THEN 1 ELSE 0
            /\ runningGroups = Len(pending) + Cardinality(Jobs) + n
    BY <1>7, Zenon DEF RunningInv
  <1>9. runningGroups' = Len(pending') + Cardinality(Jobs') + n
    BY <1>1, <1>5, <1>6, <1>8
  <1>10. ASSUME NEW h \in Groups, stage'[h] \in {"running", "executed", "called", "cleaned"}
         PROVE  \E u \in Jobs' : job'[u] = h /\ pc'[u] # "decrement"
    <2>1. PICK u \in Jobs : job[u] = h /\ pc[u] # "decrement"
      BY <1>1, <1>10, Zenon DEF RunningInv
    <2>2. u \in Threads \ {t}
      BY <1>1, <2>1, Zenon DEF Jobs
    <2> QED
      BY <1>2, <1>3, <2>1, <2>2, Zenon
  <1>11. \A g \in Groups : stage'[g] = "queued" => \E k \in DOMAIN pending' : pending'[k] = g
    BY <1>1, Zenon DEF RunningInv
  <1> QED
    BY <1>5, <1>8, <1>9, <1>10, <1>11, Zenon DEF RunningInv

\* A thread that neither stores a group nor completes one goes on.
LEMMA RunningQuiet ==
    ASSUME TypeOK, RunningInv, UNCHANGED <<runningGroups, pending, job>>, NEW t \in Threads,
           pc[t] # "enq_store",
           pc' = pc \/ \E l \in Labels \ {"enq_store", "decrement"} : pc' = [pc EXCEPT ![t] = l],
           \A g \in Groups :
              \/ stage'[g] = stage[g]
              \/ stage'[g] \in {"dispatched", "complete"}
              \/ /\ stage[g] \in {"running", "executed", "called", "cleaned"}
                 /\ stage'[g] \in {"running", "executed", "called", "cleaned"}
    PROVE  RunningInv'
  <1>1. \A u \in Threads : /\ pc'[u] = "enq_store" <=> pc[u] = "enq_store"
                           /\ pc'[u] = "decrement" => pc[u] = "decrement"
    BY Zenon DEF TypeOK
  <1>2. \A g \in Groups : stage'[g] = "queued" => stage[g] = "queued"
    BY Zenon
  <1>3. \A g \in Groups : stage'[g] \in {"running", "executed", "called", "cleaned"} =>
            stage[g] \in {"running", "executed", "called", "cleaned"}
    BY Zenon
  <1> QED
    BY <1>1, <1>2, <1>3, RunningKept, Zenon

LEMMA ClientRunning ==
    ASSUME BaseInv, RunningInv, NEW t \in Clients, Call(t) \/ WaitStep(t)
    PROVE  RunningInv'
  <1>inv. TypeOK /\ t \in Threads
    BY Zenon DEF BaseInv, Threads
  <1>1. ASSUME NEW g \in Groups, Dispatch(t, g) PROVE RunningInv'
    <2>1. /\ pc[t] = "idle" /\ UNCHANGED <<runningGroups, pending, job>>
          /\ stage' = [stage EXCEPT ![g] = "dispatched"]
          /\ \/ pc' = [pc EXCEPT ![t] = "enq_count"] \/ pc' = [pc EXCEPT ![t] = "notify"]
      BY <1>1, Zenon DEF Dispatch, EnqueueGroup, Goto, poolVars
    <2>2. \A h \in Groups : stage'[h] = stage[h] \/ stage'[h] = "dispatched"
      BY <1>inv, <2>1, Zenon DEF TypeOK
    <2>3. \E l \in Labels \ {"enq_store", "decrement"} : pc' = [pc EXCEPT ![t] = l]
      BY <2>1, Zenon DEF Labels
    <2> QED
      BY <1>inv, <2>1, <2>2, <2>3, RunningQuiet, Zenon
  <1>2. CASE \/ \E f \in Fences : TryWait(t, f, "help") \/ TryWait(t, f, "poll") \/ ResetFence(t, f)
             \/ \E s \in Semaphores : ResetSemaphore(t, s)
             \/ WaitAll(t) \/ WaitStep(t)
    <2>1. /\ UNCHANGED <<runningGroups, pending, job, stage>>
          /\ pc[t] \in {"idle", "help", "blocked", "poll", "read_result", "wait_all"}
      BY <1>2, Zenon DEF TryWait, ResetFence, ResetSemaphore, WaitAll, WaitStep, HelpEnds,
         ReadSignal, Poll, ReadResult, WaitAllReturn, poolVars
    <2>2. \/ pc' = pc
          \/ \E l \in {"help", "poll", "wait_all", "blocked", "read_result", "idle"} :
                pc' = [pc EXCEPT ![t] = l]
      BY <1>2, Zenon DEF TryWait, ResetFence, ResetSemaphore, WaitAll, WaitStep, HelpEnds,
         ReadSignal, AfterWait, Poll, ReadResult, WaitAllReturn, Goto
    <2>3. pc' = pc \/ \E l \in Labels \ {"enq_store", "decrement"} : pc' = [pc EXCEPT ![t] = l]
      BY <2>2, Zenon DEF Labels
    <2> QED
      BY <1>inv, <2>1, <2>3, RunningQuiet, Zenon
  <1> QED
    BY <1>1, <1>2, Zenon DEF Call

\* The thread of a group goes on with it.
LEMMA GroupRunning ==
    ASSUME BaseInv, RunningInv, NEW t \in Threads,
           ProcessCommands(t) \/ UserFunction(t) \/ CleanupSignal(t) \/ SetSignal(t)
    PROVE  RunningInv'
  <1>inv. TypeOK /\ Control(t)
    BY Zenon DEF BaseInv, ControlInv
  <1>1. /\ UNCHANGED <<runningGroups, pending, job>>
        /\ pc[t] \in {"process", "callback", "signal", "set_signal"}
    BY Zenon DEF ProcessCommands, UserFunction, CleanupSignal, SetSignal, poolVars
  <1>2. job[t] # NoGroup
    BY <1>1, <1>inv, Zenon DEF Control, Running
  <1>3. PICK g : g = job[t]
    BY Zenon
  <1>4. /\ g \in Groups /\ stage[g] \in {"running", "executed", "called", "cleaned"}
        /\ \A u \in Threads : job[u] = g /\ pc[u] # "decrement" => u = t
    BY <1>1, <1>2, <1>3, RunsGroup, Zenon
  <1>5. ASSUME ProcessCommands(t) \/ UserFunction(t) \/ CleanupSignal(t) PROVE RunningInv'
    <2>1. /\ \E l \in {"result", "cleanup", "notify", "set_signal"} : pc' = [pc EXCEPT ![t] = l]
          /\ \/ stage' = stage
             \/ \E s \in {"executed", "called", "cleaned"} : stage' = [stage EXCEPT ![g] = s]
      BY <1>3, <1>5, Zenon DEF ProcessCommands, UserFunction, CleanupSignal, SignalSemaphore, Goto
    <2>2. \A h \in Groups :
              \/ stage'[h] = stage[h]
              \/ /\ stage[h] \in {"running", "executed", "called", "cleaned"}
                 /\ stage'[h] \in {"running", "executed", "called", "cleaned"}
      BY <1>4, <1>inv, <2>1, Zenon DEF TypeOK
    <2>3. \E l \in Labels \ {"enq_store", "decrement"} : pc' = [pc EXCEPT ![t] = l]
      BY <2>1, Zenon DEF Labels
    <2> QED
      BY <1>1, <1>inv, <2>2, <2>3, RunningQuiet, Zenon
  <1>6. ASSUME SetSignal(t) PROVE RunningInv'
    <2>1. /\ pc[t] = "set_signal" /\ pc' = [pc EXCEPT ![t] = "decrement"]
          /\ stage' = [stage EXCEPT ![g] = "complete"]
      BY <1>3, <1>6, Zenon DEF SetSignal, Goto
    <2>2. /\ stage'[g] = "complete" /\ \A h \in Groups \ {g} : stage'[h] = stage[h]
          /\ pc'[t] = "decrement" /\ \A u \in Threads \ {t} : pc'[u] = pc[u]
      BY <1>4, <1>inv, <2>1, Zenon DEF TypeOK
    <2>3. \A u \in Threads : pc'[u] = "enq_store" <=> pc[u] = "enq_store"
      BY <2>1, <2>2, Zenon
    <2>4. ASSUME NEW h \in Groups, stage'[h] \in {"running", "executed", "called", "cleaned"}
          PROVE  /\ stage[h] \in {"running", "executed", "called", "cleaned"}
                 /\ \A u \in Threads : job[u] = h /\ pc'[u] = "decrement" => pc[u] = "decrement"
      <3>1. h # g
        BY <2>2, <2>4, Zenon
      <3> QED
        BY <1>3, <2>2, <2>4, <3>1, Zenon
    <2>5. \A h \in Groups : stage'[h] = "queued" => stage[h] = "queued"
      BY <2>2, Zenon
    <2> QED
      BY <1>1, <2>3, <2>4, <2>5, RunningKept, Zenon
  <1> QED
    BY <1>5, <1>6, Zenon

LEMMA NextRunning == BaseInv /\ RunningInv /\ [Next]_vars => RunningInv'
  <1> SUFFICES ASSUME BaseInv, RunningInv, [Next]_vars PROVE RunningInv'
    BY Zenon
  <1>inv. TypeOK
    BY Zenon DEF BaseInv
  <1>1. ASSUME NEW t \in Threads,
               NotifyGroups(t) \/ SetResult(t) \/ CleanupLock(t) \/ SpuriousWake(t)
        PROVE  RunningInv'
    <2>1. UNCHANGED <<runningGroups, pending, job, stage>>
      BY <1>1, Zenon DEF NotifyGroups, SetResult, CleanupLock, SpuriousWake, poolVars
    <2>2. CASE SpuriousWake(t)
      BY <2>1, <2>2, RunningKept, Zenon DEF SpuriousWake
    <2>3. CASE NotifyGroups(t) \/ SetResult(t) \/ CleanupLock(t)
      <3>1. /\ pc[t] \in {"notify", "result", "cleanup"}
            /\ \/ pc' = pc
               \/ \E l \in {"enq_count", "idle", "signal", "callback"} : pc' = [pc EXCEPT ![t] = l]
        BY <2>3, Zenon DEF NotifyGroups, SignalCompleted, EnqueueGroup, SetResult, CleanupLock, Goto
      <3>2. pc' = pc \/ \E l \in Labels \ {"enq_store", "decrement"} : pc' = [pc EXCEPT ![t] = l]
        BY <3>1, Zenon DEF Labels
      <3> QED
        BY <1>inv, <2>1, <3>1, <3>2, RunningQuiet, Zenon
    <2> QED
      BY <1>1, <2>2, <2>3, Zenon
  <1>2. CASE UNCHANGED vars
    BY <1>2, RunningKept, Zenon DEF vars, poolVars
  <1>3. ASSUME NEW t \in Threads, LockedStep(t) \/ RunStep(t) PROVE RunningInv'
    BY <1>1, <1>3, EnqueueCountRunning, EnqueueStoreRunning, TakeRunning, DecrementRunning,
       GroupRunning, Zenon DEF LockedStep, RunStep
  <1> QED
    BY <1>1, <1>2, <1>3, ClientRunning, Zenon DEF Next

-------------------------------------------------------------------------------
\* What a muxWaitAll still has to outlast

\* The groups of a least fixed point are founded: those of any part of it are reached
\* from the rest.
LEMMA SuppliedIsFounded ==
    ASSUME NEW D \in SUBSET Groups
    PROVE  Founded(Supplied(D))
  <1> DEFINE Released(S) == {g \in D : \A s \in SemsIn(WaitsOf[g]) :
                                signalled[s] \/ Signallers(s) \cap S # {}}
  <1>1. PICK A : A = Supplied(D)
    BY Zenon
  <1>2. A \subseteq D /\ \A h \in D : h \in A <=> \A S \in SUBSET D : Released(S) \subseteq S => h \in S
    BY <1>1, Zenon DEF Supplied
  <1>3. \A S, T : S \subseteq T => Released(S) \subseteq Released(T)
    <2> SUFFICES ASSUME NEW S, NEW T, S \subseteq T, NEW g \in Released(S) PROVE g \in Released(T)
      BY Zenon
    <2> QED
      BY Zenon
  <1>4. Released(A) \subseteq A
    <2> SUFFICES ASSUME NEW g \in Released(A), NEW S \in SUBSET D, Released(S) \subseteq S
                 PROVE  g \in S
      BY <1>2, Zenon
    <2>1. A \subseteq S
      BY <1>2, Zenon
    <2> QED
      BY <1>3, <2>1, Zenon
  <1>5. ASSUME NEW S \in SUBSET A, S # {}
        PROVE  \E g \in S : \A s \in SemsIn(WaitsOf[g]) :
                  signalled[s] \/ Signallers(s) \cap (A \ S) # {}
    <2>1. ~(Released(A \ S) \subseteq A \ S)
      <3>1. PICK h : h \in S
        BY <1>5, Zenon
      <3>2. h \in A /\ h \in D /\ h \notin A \ S /\ A \ S \in SUBSET D
        BY <1>2, <1>5, <3>1, Zenon
      <3> QED
        BY <1>2, <3>2, Zenon
    <2>2. PICK g : g \in Released(A \ S) /\ g \notin A \ S
      BY <2>1, Zenon
    <2>3. g \in Released(A)
      <3>1. A \ S \subseteq A
        BY Zenon
      <3> QED
        BY <1>3, <2>2, <3>1, Zenon
    <2>4. g \in S
      BY <1>4, <2>2, <2>3, Zenon
    <2> QED
      BY <2>2, <2>4, Zenon
  <1> QED
    BY <1>1, <1>5, Zenon DEF Founded

\* A step that leaves a muxWaitAll under way alone: no group but a free one is dispatched,
\* a group completes with its semaphores signalled, and no wait of a group is taken back.
LEMMA OutlastsKept ==
    ASSUME TypeOK, SemaphoreInv, NEW t \in Clients, Outlasts(t), since'[t] = since[t],
           since[t] \in SUBSET (Groups \X Nat),
           \A g \in Groups :
              \/ times'[g] = times[g] /\ (Idle(g)' <=> Idle(g)) /\ (stage'[g] = "idle" => stage[g] = "idle")
              \/ times'[g] = times[g] /\ stage[g] = "cleaned" /\ stage'[g] = "complete"
              \/ times'[g] = times[g] + 1 /\ Idle(g) /\ stage'[g] = "dispatched",
           \A g \in Groups : ~Idle(g) =>
              \A s \in SemsIn(WaitsOf[g]) : signalled[s] => signalled'[s],
           \A g \in Groups : Dispatched(g) /\ ~Idle(g)' => Dispatched(g)'
    PROVE  Outlasts(t)'
  <1>1. times \in [Groups -> Nat]
    BY Zenon DEF TypeOK
  <1>2. \A d \in since[t] : d[1] \in Groups /\ d[2] \in Nat
    BY Zenon
  <1>3. ASSUME NEW d \in since[t]
        PROVE  d[2] <= times'[d[1]] /\ stage'[d[1]] # "idle"
    <2>1. PICK g \in Groups, n \in Nat : g = d[1] /\ n = d[2]
      BY <1>2, Zenon
    <2>2. n <= times[g] /\ stage[g] # "idle" /\ times[g] \in Nat
      BY <1>1, <2>1, Zenon DEF Outlasts
    <2>3. (times'[g] = times[g] \/ times'[g] = times[g] + 1) /\ stage'[g] # "idle"
      BY <2>2, Zenon
    <2>4. n <= times'[g]
      BY <2>2, <2>3
    <2> QED
      BY <2>1, <2>3, <2>4, Zenon
  <1>4. PICK O : O = Owed(t)
    BY Zenon
  <1>5. PICK P : P = Owed(t)'
    BY Zenon
  <1>6. \A g \in O : g \in Groups /\ ~Idle(g) /\ <<g, times[g]>> \in since[t]
    BY <1>4, Zenon DEF Owed
  <1>7. \A g : g \in P <=> g \in Groups /\ ~(Idle(g)') /\ <<g, times'[g]>> \in since[t]
    BY <1>5, Zenon DEF Owed
  <1>8. \A g \in P : g \in O
    <2> SUFFICES ASSUME NEW g \in P PROVE g \in O
      BY Zenon
    <2>1. g \in Groups /\ ~(Idle(g)') /\ <<g, times'[g]>> \in since[t]
      BY <1>7, Zenon
    <2>2. CASE times'[g] = times[g] /\ ~Idle(g)
      BY <1>4, <2>1, <2>2, Zenon DEF Owed
    <2>3. CASE times'[g] = times[g] + 1
      <3>1. PICK d \in since[t] : d = <<g, times'[g]>>
        BY <2>1, Zenon
      <3>2. d[2] <= times[d[1]]
        BY Zenon DEF Outlasts
      <3>3. d[1] = g /\ d[2] = times'[g]
        BY <3>1
      <3>4. times[g] + 1 <= times[g] /\ times[g] \in Nat
        BY <1>1, <2>1, <2>3, <3>2, <3>3, Zenon
      <3> QED
        BY <3>4
    <2> QED
      BY <2>1, <2>2, <2>3, Zenon DEF Idle
  <1>9. \A g \in P : Dispatched(g)'
    BY <1>4, <1>7, <1>8, Zenon DEF Outlasts
  <1>10. ASSUME NEW g \in O, g \notin P, NEW s \in SemsIn(SignalsOf[g]) PROVE signalled[s]
    <2>1. g \in Groups /\ ~Idle(g) /\ <<g, times[g]>> \in since[t]
      BY <1>6, Zenon
    <2>2. stage[g] = "cleaned"
      BY <1>7, <1>10, <2>1, Zenon
    <2> QED
      BY <2>1, <2>2, Zenon DEF SemaphoreInv
  <1>11. ASSUME NEW S \in SUBSET P, S # {}
         PROVE  \E g \in S : \A s \in SemsIn(WaitsOf[g]) :
                   signalled'[s] \/ Signallers(s)' \cap (P \ S) # {}
    <2>1. PICK g \in S : \A s \in SemsIn(WaitsOf[g]) :
                   signalled[s] \/ Signallers(s) \cap (O \ S) # {}
      <3>1. S \in SUBSET O
        BY <1>8, Zenon
      <3> QED
        BY <1>4, <1>11, <3>1, Zenon DEF Outlasts, Founded
    <2>2. g \in Groups /\ ~Idle(g)
      BY <1>6, <1>8, <2>1, Zenon
    <2>3. ASSUME NEW s \in SemsIn(WaitsOf[g])
          PROVE  signalled'[s] \/ Signallers(s)' \cap (P \ S) # {}
      <3>1. CASE signalled[s]
        BY <2>2, <3>1, Zenon
      <3>2. CASE ~signalled[s]
        <4>1. PICK h : h \in Signallers(s) /\ h \in O /\ h \notin S
          BY <2>1, <2>3, <3>2, Zenon
        <4>2. h \in Groups /\ s \in SemsIn(SignalsOf[h])
          BY <4>1, Zenon DEF Signallers
        <4>3. h \in P
          BY <1>10, <3>2, <4>1, <4>2, Zenon
        <4>4. h \in Signallers(s)'
          BY <1>7, <4>2, <4>3, Zenon DEF Signallers
        <4> QED
          BY <4>1, <4>3, <4>4, Zenon
      <3> QED
        BY <3>1, <3>2, Zenon
    <2> QED
      BY <2>3, Zenon
  <1>12. Founded(Owed(t))'
    BY <1>5, <1>11, Zenon DEF Founded
  <1> QED
    BY <1>3, <1>5, <1>9, <1>12, Zenon DEF Outlasts

\* The calls and the enqueues of a client inside muxDispatch are not made longer, but for
\* the group g.
LEMMA DispatchedKept ==
    ASSUME NEW g,
           \A c \in Clients : job'[c] = NoGroup =>
              \/ enq'[c] = NoGroup /\ calls'[c] = << >>
              \/ /\ job[c] = NoGroup
                 /\ \/ enq'[c] \in {NoGroup, enq[c], g}
                    \/ enq'[c] \in {calls[c][k] : k \in DOMAIN calls[c]}
                 /\ {calls'[c][k] : k \in DOMAIN calls'[c]}
                       \subseteq {calls[c][k] : k \in DOMAIN calls[c]} \cup {g}
    PROVE  \A h \in Groups \ {g} : Dispatched(h) /\ ~Idle(h)' => Dispatched(h)'
  <1> SUFFICES ASSUME NEW h \in Groups, h # g, Dispatched(h), ~Idle(h)',
                      NEW c \in Clients, job'[c] = NoGroup
               PROVE  enq'[c] # h /\ h \notin {calls'[c][k] : k \in DOMAIN calls'[c]}
    BY Zenon DEF Dispatched
  <1>1. h # NoGroup
    BY QueueAssumption, Zenon
  <1>2. CASE enq'[c] = NoGroup /\ calls'[c] = << >>
    BY <1>1, <1>2
  <1>3. CASE ~(enq'[c] = NoGroup /\ calls'[c] = << >>)
    <2>1. /\ job[c] = NoGroup
          /\ \/ enq'[c] \in {NoGroup, enq[c], g}
             \/ enq'[c] \in {calls[c][k] : k \in DOMAIN calls[c]}
          /\ {calls'[c][k] : k \in DOMAIN calls'[c]}
                       \subseteq {calls[c][k] : k \in DOMAIN calls[c]} \cup {g}
      BY <1>3, Zenon
    <2>2. enq[c] # h /\ h \notin {calls[c][k] : k \in DOMAIN calls[c]}
      BY <2>1, Zenon DEF Dispatched
    <2>3. PICK X : X = {calls[c][k] : k \in DOMAIN calls[c]}
      BY Zenon
    <2>4. PICK Y : Y = {calls'[c][k] : k \in DOMAIN calls'[c]}
      BY Zenon
    <2>5. h \notin X /\ Y \subseteq X \cup {g} /\ (enq'[c] \in {NoGroup, enq[c], g} \/ enq'[c] \in X)
      BY <2>1, <2>2, <2>3, <2>4, Zenon
    <2>6. enq'[c] # h /\ h \notin Y
      BY <1>1, <2>2, <2>5, Zenon
    <2> QED
      BY <2>4, <2>6, Zenon
  <1> QED
    BY <1>2, <1>3, Zenon

\* Every wait under way is kept.
LEMMA WaitAllKept ==
    ASSUME TypeOK, SemaphoreInv, WaitAllInv, UNCHANGED since,
           \A t \in Clients : pc'[t] = "wait_all" => pc[t] = "wait_all",
           \A g \in Groups :
              \/ times'[g] = times[g] /\ (Idle(g)' <=> Idle(g)) /\ (stage'[g] = "idle" => stage[g] = "idle")
              \/ times'[g] = times[g] /\ stage[g] = "cleaned" /\ stage'[g] = "complete"
              \/ times'[g] = times[g] + 1 /\ Idle(g) /\ stage'[g] = "dispatched",
           \A g \in Groups : ~Idle(g) =>
              \A s \in SemsIn(WaitsOf[g]) : signalled[s] => signalled'[s],
           \A g \in Groups : Dispatched(g) /\ ~Idle(g)' => Dispatched(g)'
    PROVE  WaitAllInv'
  <1>1. ASSUME NEW t \in Clients, pc'[t] = "wait_all" PROVE Outlasts(t)'
    <2>1. since'[t] = since[t] /\ Outlasts(t) /\ since[t] \in SUBSET (Groups \X Nat)
      BY <1>1, Zenon DEF WaitAllInv
    <2> QED
      BY <2>1, OutlastsKept, Zenon
  <1> QED
    BY <1>1, Zenon DEF WaitAllInv

\* Nothing of what a muxWaitAll has to outlast changes.
LEMMA WaitAllQuiet ==
    ASSUME TypeOK, SemaphoreInv, WaitAllInv, UNCHANGED <<since, times, signalled>>,
           \A t \in Clients : pc'[t] = "wait_all" => pc[t] = "wait_all",
           \A g \in Groups : (Idle(g)' <=> Idle(g)) /\ (stage'[g] = "idle" => stage[g] = "idle"),
           \A c \in Clients : job'[c] = NoGroup =>
              \/ enq'[c] = NoGroup /\ calls'[c] = << >>
              \/ /\ job[c] = NoGroup
                 /\ \/ enq'[c] \in {NoGroup, enq[c]}
                    \/ enq'[c] \in {calls[c][k] : k \in DOMAIN calls[c]}
                 /\ {calls'[c][k] : k \in DOMAIN calls'[c]}
                       \subseteq {calls[c][k] : k \in DOMAIN calls[c]}
    PROVE  WaitAllInv'
  <1>1. PICK g : g = NoGroup
    BY Zenon
  <1>2. \A c \in Clients : job'[c] = NoGroup =>
              \/ enq'[c] = NoGroup /\ calls'[c] = << >>
              \/ /\ job[c] = NoGroup
                 /\ \/ enq'[c] \in {NoGroup, enq[c], g}
                    \/ enq'[c] \in {calls[c][k] : k \in DOMAIN calls[c]}
                 /\ {calls'[c][k] : k \in DOMAIN calls'[c]}
                       \subseteq {calls[c][k] : k \in DOMAIN calls[c]} \cup {g}
    BY Zenon
  <1>3. \A h \in Groups \ {g} : Dispatched(h) /\ ~Idle(h)' => Dispatched(h)'
    BY <1>2, DispatchedKept, Zenon
  <1>4. \A h \in Groups : Dispatched(h) /\ ~Idle(h)' => Dispatched(h)'
    BY <1>1, <1>3, QueueAssumption, Zenon
  <1> QED
    BY <1>4, WaitAllKept, Zenon

LEMMA DispatchWaitAll ==
    ASSUME BaseInv, SemaphoreInv, WaitAllInv, NEW t \in Clients, NEW g \in Groups, Dispatch(t, g)
    PROVE  WaitAllInv'
  <1>inv. TypeOK
    BY Zenon DEF BaseInv
  <1>1. /\ pc[t] = "idle" /\ Idle(g) /\ UNCHANGED <<since, job, signalled>>
        /\ stage' = [stage EXCEPT ![g] = "dispatched"] /\ times' = [times EXCEPT ![g] = @ + 1]
        /\ \/ pc' = [pc EXCEPT ![t] = "enq_count"] \/ pc' = [pc EXCEPT ![t] = "notify"]
        /\ enq' = enq \/ enq' = [enq EXCEPT ![t] = g]
    BY Zenon DEF Dispatch, MayDispatch, EnqueueGroup, Goto, waitVars
  <1>2. PICK n : calls' = [calls EXCEPT ![t] = [k \in 1..n |-> g]]
    BY Zenon DEF Dispatch
  <1>3. /\ times'[g] = times[g] + 1 /\ stage'[g] = "dispatched"
        /\ \A h \in Groups \ {g} : times'[h] = times[h] /\ stage'[h] = stage[h]
        /\ \A c \in Clients : pc'[c] = "wait_all" => pc[c] = "wait_all"
    BY <1>1, <1>inv, Zenon DEF TypeOK, Threads
  <1>4. \A c \in Clients : /\ enq'[c] \in {enq[c], g}
                           /\ \A k \in DOMAIN calls'[c] : calls'[c][k] = g \/ calls'[c] = calls[c]
    BY <1>1, <1>2, <1>inv, Zenon DEF TypeOK, Threads
  <1>5. ASSUME NEW c \in Clients
        PROVE  {calls'[c][k] : k \in DOMAIN calls'[c]}
                  \subseteq {calls[c][k] : k \in DOMAIN calls[c]} \cup {g}
    BY <1>4, Zenon
  <1>6. \A h \in Groups \ {g} : Dispatched(h) /\ ~Idle(h)' => Dispatched(h)'
    BY <1>1, <1>4, <1>5, DispatchedKept, Zenon
  <1>7. \A h \in Groups : Dispatched(h) /\ ~Idle(h)' => Dispatched(h)'
    BY <1>1, <1>6, Zenon DEF Dispatched
  <1>8. \A h \in Groups :
              \/ times'[h] = times[h] /\ (Idle(h)' <=> Idle(h)) /\ (stage'[h] = "idle" => stage[h] = "idle")
              \/ times'[h] = times[h] + 1 /\ Idle(h) /\ stage'[h] = "dispatched"
    BY <1>1, <1>3, Zenon DEF Idle
  <1> QED
    BY <1>1, <1>3, <1>7, <1>8, <1>inv, WaitAllKept, Zenon

\* muxWaitAll starts with the dispatches that wait for no group yet to be dispatched.
LEMMA WaitAllStarts ==
    ASSUME TypeOK, SemaphoreInv, WaitAllInv, NEW t \in Clients, WaitAll(t)
    PROVE  WaitAllInv'
  <1>1. /\ since' = [since EXCEPT ![t] = Accepted] /\ pc' = [pc EXCEPT ![t] = "wait_all"]
        /\ UNCHANGED <<signalled, stage, times, job, calls, enq>>
    BY Zenon DEF WaitAll, Goto, semVars, loopVars
  <1>2. since \in [Clients -> SUBSET (Groups \X Nat)] /\ times \in [Groups -> Nat]
    BY Zenon DEF WaitAllInv, TypeOK
  <1>3. PICK D : D = {h \in Groups : Dispatched(h)}
    BY Zenon
  <1>4. D \in SUBSET Groups
    BY <1>3, Zenon
  <1>5. PICK A : A = Supplied(D)
    BY Zenon
  <1>6. A \subseteq D /\ Accepted = {<<g, times[g]>> : g \in A}
    BY <1>3, <1>5, Zenon DEF Supplied, Accepted
  <1>7. Accepted \in SUBSET (Groups \X Nat)
    BY <1>2, <1>4, <1>6
  <1>8. since'[t] = Accepted /\ \A u \in Clients \ {t} : since'[u] = since[u] /\ pc'[u] = pc[u]
    BY <1>1, <1>2, Zenon DEF TypeOK, Threads
  <1>9. since' \in [Clients -> SUBSET (Groups \X Nat)]
    BY <1>1, <1>2, <1>7, Zenon
  <1>10. \A g : Dispatched(g)' <=> Dispatched(g)
    BY <1>1, Zenon DEF Dispatched, Idle
  <1>11. ASSUME NEW u \in Clients \ {t}, pc'[u] = "wait_all" PROVE Outlasts(u)'
    <2>1. since'[u] = since[u] /\ Outlasts(u) /\ since[u] \in SUBSET (Groups \X Nat)
      BY <1>2, <1>8, <1>11, Zenon DEF WaitAllInv
    <2>2. \A g \in Groups : times'[g] = times[g] /\ (Idle(g)' <=> Idle(g)) /\ stage'[g] = stage[g]
      BY <1>1, Zenon DEF Idle
    <2> QED
      BY <1>1, <1>10, <2>1, <2>2, OutlastsKept, Zenon
  <1>12. \A g \in A : g \in Groups /\ ~Idle(g) /\ Dispatched(g)
    BY <1>3, <1>6, Zenon DEF Dispatched
  <1>13. \A d \in Accepted : d[2] <= times[d[1]] /\ stage[d[1]] # "idle"
    <2> SUFFICES ASSUME NEW d \in Accepted PROVE d[2] <= times[d[1]] /\ stage[d[1]] # "idle"
      BY Zenon
    <2>1. PICK g : g \in A /\ d = <<g, times[g]>>
      BY <1>6, Zenon
    <2>2. d[1] = g /\ d[2] = times[g]
      BY <2>1
    <2>3. times[g] \in Nat /\ stage[g] # "idle"
      BY <1>2, <1>12, <2>1, Zenon DEF Idle
    <2>4. times[g] <= times[g]
      BY <2>3
    <2> QED
      BY <2>2, <2>3, <2>4, Zenon
  <1>14. Owed(t)' = A
    <2>1. \A g \in A : g \in Owed(t)'
      BY <1>1, <1>6, <1>8, <1>12, Zenon DEF Owed, Idle
    <2>2. ASSUME NEW g, g \in Owed(t)' PROVE g \in A
      <3>1. <<g, times[g]>> \in Accepted
        BY <1>1, <1>8, <2>2, Zenon DEF Owed
      <3>2. PICK h : h \in A /\ <<g, times[g]>> = <<h, times[h]>>
        BY <1>6, <3>1, Zenon
      <3> QED
        BY <3>2
    <2> QED
      BY <2>1, <2>2, Zenon
  <1>15. Founded(A)
    BY <1>4, <1>5, SuppliedIsFounded, Zenon
  <1>16. \A s : Signallers(s)' = Signallers(s)
    BY <1>1, Zenon DEF Signallers, Idle
  <1>17. Founded(Owed(t))'
    BY <1>1, <1>14, <1>15, <1>16, Zenon DEF Founded
  <1>18. Outlasts(t)'
    BY <1>1, <1>8, <1>10, <1>12, <1>13, <1>14, <1>17, Zenon DEF Outlasts
  <1> QED
    BY <1>9, <1>11, <1>18, Zenon DEF WaitAllInv

LEMMA ClientWaitAll ==
    ASSUME BaseInv, SemaphoreInv, WaitAllInv, NEW t \in Clients, Call(t) \/ WaitStep(t)
    PROVE  WaitAllInv'
  <1>inv. TypeOK /\ t \in Threads
    BY Zenon DEF BaseInv, Threads
  <1>1. ASSUME NEW s \in Semaphores, ResetSemaphore(t, s) PROVE WaitAllInv'
    <2>1. /\ UNCHANGED <<since, times, stage, pc, job, calls, enq>>
          /\ signalled' = [signalled EXCEPT ![s] = FALSE]
          /\ \A g \in Groups : s \in SemsIn(WaitsOf[g]) => Idle(g)
      BY <1>1, Zenon DEF ResetSemaphore, waitVars, loopVars
    <2>2. \A r : r # s => (signalled'[r] <=> signalled[r])
      BY <1>inv, <2>1 DEF TypeOK
    <2>3. \A g \in Groups : ~Idle(g) => \A r \in SemsIn(WaitsOf[g]) : signalled[r] => signalled'[r]
      BY <2>1, <2>2, Zenon
    <2>4. \A g \in Groups : (Dispatched(g)' <=> Dispatched(g)) /\ (Idle(g)' <=> Idle(g))
      BY <2>1, Zenon DEF Dispatched, Idle
    <2> QED
      BY <1>inv, <2>1, <2>3, <2>4, WaitAllKept, Zenon
  <1>2. CASE \/ \E f \in Fences : TryWait(t, f, "help") \/ TryWait(t, f, "poll") \/ ResetFence(t, f)
             \/ HelpEnds(t) \/ ReadSignal(t) \/ Poll(t) \/ ReadResult(t)
    <2>1. UNCHANGED <<since, times, stage, signalled, job, calls, enq>>
      BY <1>2, Zenon DEF TryWait, ResetFence, HelpEnds, ReadSignal, Poll, ReadResult, waitVars,
         semVars, loopVars
    <2>2. \/ pc' = pc
          \/ \E l \in {"help", "poll", "blocked", "read_result", "idle"} : pc' = [pc EXCEPT ![t] = l]
      BY <1>2, Zenon DEF TryWait, ResetFence, HelpEnds, ReadSignal, AfterWait, Poll, ReadResult, Goto
    <2>3. \A c \in Clients : pc'[c] = "wait_all" => pc[c] = "wait_all"
      BY <1>inv, <2>2, Zenon DEF TypeOK, Threads
    <2>4. \A g \in Groups : Idle(g)' <=> Idle(g)
      BY <2>1, Zenon DEF Idle
    <2> QED
      BY <1>inv, <2>1, <2>3, <2>4, WaitAllQuiet, Zenon
  <1>3. ASSUME WaitAllReturn(t) PROVE WaitAllInv'
    <2>1. /\ since' = [since EXCEPT ![t] = {}] /\ pc' = [pc EXCEPT ![t] = "idle"]
          /\ UNCHANGED <<signalled, stage, times, job, calls, enq>>
      BY <1>3, Zenon DEF WaitAllReturn, Goto, semVars, loopVars
    <2>2. since \in [Clients -> SUBSET (Groups \X Nat)]
      BY Zenon DEF WaitAllInv
    <2>3. /\ since' \in [Clients -> SUBSET (Groups \X Nat)]
          /\ pc'[t] = "idle" /\ \A u \in Clients \ {t} : since'[u] = since[u] /\ pc'[u] = pc[u]
      BY <1>inv, <2>1, <2>2, Zenon DEF TypeOK, Threads
    <2>4. \A g \in Groups : /\ Dispatched(g)' <=> Dispatched(g)
                            /\ times'[g] = times[g] /\ (Idle(g)' <=> Idle(g)) /\ stage'[g] = stage[g]
      BY <2>1, Zenon DEF Dispatched, Idle
    <2>5. ASSUME NEW u \in Clients, pc'[u] = "wait_all" PROVE Outlasts(u)'
      <3>1. since'[u] = since[u] /\ Outlasts(u) /\ since[u] \in SUBSET (Groups \X Nat)
        BY <2>2, <2>3, <2>5, Zenon DEF WaitAllInv
      <3> QED
        BY <1>inv, <2>1, <2>4, <3>1, OutlastsKept, Zenon
    <2> QED
      BY <2>3, <2>5, Zenon DEF WaitAllInv
  <1> QED
    BY <1>1, <1>2, <1>3, <1>inv, DispatchWaitAll, WaitAllStarts, Zenon DEF Call, WaitStep

\* With the mutex held the calls of a thread are moved into the ring.
LEMMA LockedWaitAll ==
    ASSUME BaseInv, SemaphoreInv, WaitAllInv, NEW t \in Threads, LockedStep(t)
    PROVE  WaitAllInv'
  <1>inv. TypeOK /\ Control(t) /\ StageInv
    BY Zenon DEF BaseInv, ControlInv
  <1>1. UNCHANGED <<since, times, signalled, job>>
    BY Zenon DEF LockedStep, NotifyGroups, EnqueueCount, EnqueueStore, waitVars, semVars
  <1>2. \/ pc' = pc
        \/ \E l \in {"enq_count", "idle", "signal", "enq_store", "notify"} : pc' = [pc EXCEPT ![t] = l]
    BY Zenon DEF LockedStep, NotifyGroups, SignalCompleted, EnqueueGroup, EnqueueCount,
       EnqueueStore, Goto
  <1>3. \A c \in Clients : pc'[c] = "wait_all" => pc[c] = "wait_all"
    BY <1>2, <1>inv, Zenon DEF TypeOK, Threads
  <1>4. \A g \in Groups : (Idle(g)' <=> Idle(g)) /\ (stage'[g] = "idle" => stage[g] = "idle")
    <2>1. CASE stage' = stage
      BY <2>1, Zenon DEF Idle
    <2>2. CASE EnqueueStore(t) /\ stage' = [stage EXCEPT ![enq[t]] = "queued"]
      <3>1. enq[t] \in Groups /\ stage[enq[t]] = "dispatched"
        BY <1>inv, <2>2, Zenon DEF EnqueueStore, TypeOK, Control, StageInv
      <3> QED
        BY <1>inv, <2>2, <3>1, Zenon DEF TypeOK, Idle
    <2> QED
      BY <2>1, <2>2, Zenon DEF LockedStep, NotifyGroups, EnqueueCount, EnqueueStore
  <1>5. ASSUME NEW c \in Clients, job'[c] = NoGroup
        PROVE  /\ job[c] = NoGroup
               /\ \/ enq'[c] \in {NoGroup, enq[c]}
                  \/ enq'[c] \in {calls[c][k] : k \in DOMAIN calls[c]}
               /\ {calls'[c][k] : k \in DOMAIN calls'[c]}
                       \subseteq {calls[c][k] : k \in DOMAIN calls[c]}
    <2>1. job[c] = NoGroup
      BY <1>1, <1>5, Zenon
    <2>2. CASE enq' = enq /\ calls' = calls
      BY <2>1, <2>2, Zenon
    <2>3. CASE enq' = [enq EXCEPT ![t] = NoGroup] /\ calls' = calls
      BY <1>inv, <2>1, <2>3, Zenon DEF TypeOK, Threads
    <2>4. CASE NotifyGroups(t) /\ SignalCompleted(t)
      <3>1. /\ calls[t] # << >> /\ calls' = [calls EXCEPT ![t] = Tail(@)]
            /\ enq' = enq \/ enq' = [enq EXCEPT ![t] = Head(calls[t])]
        BY <2>4, Zenon DEF SignalCompleted, EnqueueGroup
      <3>2. CASE c # t
        BY <1>inv, <2>1, <3>1, <3>2, Zenon DEF TypeOK, Threads
      <3>3. CASE c = t
        <4>1. /\ calls[c] \in Seq(Groups) /\ calls[c] # << >> /\ calls'[c] = Tail(calls[c])
              /\ enq'[c] = enq[c] \/ enq'[c] = Head(calls[c])
          BY <1>inv, <3>1, <3>3, Zenon DEF TypeOK, Threads
        <4>2. PICK list \in Seq(Groups) : list = calls[c]
          BY <4>1, Zenon
        <4>3. 1 \in DOMAIN list /\ Head(list) = list[1]
          BY <4>1, <4>2
        <4>4. \A k \in DOMAIN Tail(list) : k + 1 \in DOMAIN list /\ Tail(list)[k] = list[k + 1]
          BY <4>1, <4>2
        <4>5. Head(list) \in {list[k] : k \in DOMAIN list}
          BY <4>3, Zenon
        <4>6. {Tail(list)[k] : k \in DOMAIN Tail(list)} \subseteq {list[k] : k \in DOMAIN list}
          BY <4>4, Zenon
        <4> QED
          BY <2>1, <4>1, <4>2, <4>5, <4>6, Zenon
      <3> QED
        BY <3>2, <3>3, Zenon
    <2> QED
      BY <2>2, <2>3, <2>4, Zenon DEF LockedStep, NotifyGroups, EnqueueCount, EnqueueStore, loopVars
  <1> QED
    BY <1>1, <1>3, <1>4, <1>5, <1>inv, WaitAllQuiet, Zenon

\* A semaphore that is signalled helps a wait, and a group that completes is no longer
\* waited for.
LEMMA SignalWaitAll ==
    ASSUME BaseInv, SemaphoreInv, WaitAllInv, NEW t \in Threads, CleanupSignal(t) \/ SetSignal(t)
    PROVE  WaitAllInv'
  <1>inv. TypeOK /\ Control(t) /\ Placed(t)
    BY Zenon DEF BaseInv, ControlInv, StageInv
  <1>1. /\ UNCHANGED <<since, times, job, enq>> /\ pc[t] \in {"signal", "set_signal"}
        /\ \E l \in {"notify", "set_signal", "decrement"} : pc' = [pc EXCEPT ![t] = l]
        /\ calls' = calls \/ \E list : calls' = [calls EXCEPT ![t] = list]
        /\ signalled' = signalled \/ signalled' = [signalled EXCEPT ![Head(sems[t])] = TRUE]
    BY Zenon DEF CleanupSignal, SignalSemaphore, SetSignalled, SetSignal, Goto, waitVars, semVars,
       loopVars
  <1>2. job[t] # NoGroup /\ job[t] \in Groups
    BY <1>1, <1>inv, Zenon DEF TypeOK, Control, Running
  <1>3. PICK g : g = job[t]
    BY Zenon
  <1>4. \/ stage' = stage
        \/ stage[g] = "called" /\ stage' = [stage EXCEPT ![g] = "cleaned"]
        \/ stage[g] = "cleaned" /\ stage' = [stage EXCEPT ![g] = "complete"]
    BY <1>2, <1>3, <1>inv, Zenon DEF CleanupSignal, SignalSemaphore, SetSignal, Placed, Locked
  <1>5. \A h \in Groups :
              \/ times'[h] = times[h] /\ (Idle(h)' <=> Idle(h)) /\ (stage'[h] = "idle" => stage[h] = "idle")
              \/ times'[h] = times[h] /\ stage[h] = "cleaned" /\ stage'[h] = "complete"
    <2>1. DOMAIN stage = Groups
      BY <1>inv, Zenon DEF TypeOK
    <2>2. /\ \A h \in Groups \ {g} : stage'[h] = stage[h]
          /\ \/ stage'[g] = stage[g]
             \/ stage[g] = "called" /\ stage'[g] = "cleaned"
             \/ stage[g] = "cleaned" /\ stage'[g] = "complete"
      BY <1>2, <1>3, <1>4, <2>1, Zenon
    <2> QED
      BY <1>1, <2>2, Zenon DEF Idle
  <1>6. \A c \in Clients : pc'[c] = "wait_all" => pc[c] = "wait_all"
    BY <1>1, <1>inv, Zenon DEF TypeOK, Threads
  <1>7. \A s \in Semaphores : signalled[s] => signalled'[s]
    BY <1>1, <1>inv, Zenon DEF TypeOK
  <1>8. \A h \in Groups : \A s \in SemsIn(WaitsOf[h]) : signalled[s] => signalled'[s]
    BY <1>7, QueueAssumption DEF SemsIn
  <1>9. \A c \in Clients : job'[c] = NoGroup => /\ job[c] = NoGroup /\ enq'[c] = enq[c]
                                                 /\ calls'[c] = calls[c]
    BY <1>1, <1>2, <1>inv, Zenon DEF TypeOK, Threads
  <1>10. \A h \in Groups : Dispatched(h) /\ ~Idle(h)' => Dispatched(h)'
    BY <1>9, Zenon DEF Dispatched
  <1> QED
    BY <1>1, <1>5, <1>6, <1>8, <1>10, <1>inv, WaitAllKept, Zenon

LEMMA RunWaitAll ==
    ASSUME BaseInv, SemaphoreInv, WaitAllInv, NEW t \in Threads,
           RunStep(t), ~(CleanupSignal(t) \/ SetSignal(t))
    PROVE  WaitAllInv'
  <1>inv. TypeOK /\ Control(t) /\ Placed(t) /\ RunsOnce
    BY Zenon DEF BaseInv, ControlInv, StageInv
  <1>1. UNCHANGED <<since, times, signalled, calls, enq>>
    BY Zenon DEF RunStep, Take, ProcessCommands, SetResult, UserFunction, CleanupLock, Decrement,
       waitVars, semVars, loopVars
  <1>2. \E l \in {"process", "result", "callback", "cleanup", "signal", "get", "help"} :
            pc' = [pc EXCEPT ![t] = l]
    BY Zenon DEF RunStep, Take, ProcessCommands, SetResult, UserFunction, CleanupLock, Decrement, Goto
  <1>3. \A c \in Clients : pc'[c] = "wait_all" => pc[c] = "wait_all"
    BY <1>2, <1>inv, Zenon DEF TypeOK, Threads
  <1>4. \A g \in Groups : (Idle(g)' <=> Idle(g)) /\ (stage'[g] = "idle" => stage[g] = "idle")
    <2>1. CASE stage' = stage
      BY <2>1, Zenon DEF Idle
    <2>2. CASE Take(t)
      <3>1. pending \in Seq(Groups) /\ pending # << >>
        BY <1>inv, <2>2, Zenon DEF Take, TypeOK
      <3>2. 1 \in DOMAIN pending /\ Head(pending) = pending[1] /\ Head(pending) \in Groups
        BY <3>1
      <3>3. /\ stage[Head(pending)] = "queued" /\ stage' = [stage EXCEPT ![Head(pending)] = "running"]
        BY <1>inv, <2>2, <3>2, Zenon DEF RunsOnce, Take
      <3> QED
        BY <1>inv, <3>2, <3>3, Zenon DEF TypeOK, Idle
    <2>3. CASE ProcessCommands(t) \/ UserFunction(t)
      <3>1. job[t] \in Groups /\ stage[job[t]] \in {"running", "executed"}
        BY <1>inv, <2>3, Zenon DEF ProcessCommands, UserFunction, TypeOK, Control, Running, Placed
      <3>2. \E s \in {"executed", "called"} : stage' = [stage EXCEPT ![job[t]] = s]
        BY <2>3, Zenon DEF ProcessCommands, UserFunction
      <3> QED
        BY <1>inv, <3>1, <3>2, Zenon DEF TypeOK, Idle
    <2> QED
      BY <2>1, <2>2, <2>3, Zenon DEF RunStep, SetResult, CleanupLock, Decrement
  <1>5. \A c \in Clients : job'[c] = NoGroup =>
              \/ enq'[c] = NoGroup /\ calls'[c] = << >>
              \/ job[c] = NoGroup /\ enq'[c] = enq[c] /\ calls'[c] = calls[c]
    <2>1. CASE job' = job
      BY <1>1, <2>1, Zenon
    <2>2. CASE Take(t)
      <3>1. pending \in Seq(Groups) /\ pending # << >> /\ job' = [job EXCEPT ![t] = Head(pending)]
        BY <1>inv, <2>2, Zenon DEF Take, TypeOK
      <3>2. Head(pending) \in Groups
        BY <3>1
      <3> QED
        BY <1>1, <1>inv, <3>1, <3>2, QueueAssumption, Zenon DEF TypeOK, Threads
    <2>3. CASE Decrement(t)
      <3>1. enq[t] = NoGroup /\ calls[t] = << >> /\ job' = [job EXCEPT ![t] = NoGroup]
        BY <1>inv, <2>3, Zenon DEF Decrement, Control
      <3> QED
        BY <1>1, <1>inv, <3>1, Zenon DEF TypeOK, Threads
    <2> QED
      BY <2>1, <2>2, <2>3, Zenon DEF RunStep, ProcessCommands, SetResult, UserFunction, CleanupLock
  <1> QED
    BY <1>1, <1>3, <1>4, <1>5, <1>inv, WaitAllQuiet, Zenon

LEMMA NextWaitAll == BaseInv /\ SemaphoreInv /\ WaitAllInv /\ [Next]_vars => WaitAllInv'
  <1> SUFFICES ASSUME BaseInv, SemaphoreInv, WaitAllInv, [Next]_vars PROVE WaitAllInv'
    BY Zenon
  <1>1. ASSUME UNCHANGED <<since, times, signalled, stage, pc, job, calls, enq>> PROVE WaitAllInv'
    <2>1. TypeOK /\ \A g \in Groups : Idle(g)' <=> Idle(g)
      BY <1>1, Zenon DEF BaseInv, Idle
    <2> QED
      BY <1>1, <2>1, WaitAllQuiet, Zenon
  <1>2. ASSUME NEW t \in Threads, LockedStep(t) \/ RunStep(t) \/ SpuriousWake(t) PROVE WaitAllInv'
    BY <1>1, <1>2, LockedWaitAll, SignalWaitAll, RunWaitAll, Zenon
       DEF SpuriousWake, waitVars, semVars, loopVars
  <1>3. CASE UNCHANGED vars
    BY <1>1, <1>3, Zenon DEF vars, waitVars, semVars, loopVars
  <1> QED
    BY <1>2, <1>3, ClientWaitAll, Zenon DEF Next

-------------------------------------------------------------------------------
\* When muxWaitAll returns

LEMMA InitWaitAll == Init => RunningInv /\ WaitAllInv
  <1> SUFFICES ASSUME Init PROVE RunningInv /\ WaitAllInv
    BY Zenon
  <1>1. /\ runningGroups = 0 /\ pending = << >> /\ \A t \in Threads : job[t] = NoGroup
        /\ \A t \in Threads : pc[t] \in {"get", "idle"}
        /\ \A g \in Groups : stage[g] = "idle" /\ since = [t \in Clients |-> {}]
    BY Zenon DEF Init
  <1>2. Jobs = {}
    BY <1>1, Zenon DEF Jobs
  <1>3. IsFiniteSet(Jobs) /\ Cardinality(Jobs) = 0
    BY <1>2, FS_EmptySet, Zenon
  <1>4. Len(pending) + Cardinality(Jobs) + 0 = 0
    BY <1>1, <1>3
  <1>5. ~\E t \in Threads : pc[t] = "enq_store"
    BY <1>1, Zenon
  <1>6. RunningInv
    BY <1>1, <1>3, <1>4, <1>5, Zenon DEF RunningInv
  <1>7. WaitAllInv
    <2>1. since \in [Clients -> SUBSET (Groups \X Nat)]
      BY DEF Init
    <2> QED
      BY <1>1, <2>1, Zenon DEF WaitAllInv, Threads
  <1> QED
    BY <1>6, <1>7, Zenon

\* A step in which a client leaves wait_all is its WaitAllReturn.
LEMMA OnlyWaitAllReturns ==
    ASSUME BaseInv, Next, NEW t \in Clients, pc[t] = "wait_all", pc'[t] = "idle"
    PROVE  WaitAllReturn(t)
  <1>1. t \in Threads /\ pc \in [Threads -> Labels]
    BY Zenon DEF Threads, BaseInv, TypeOK
  <1>2. ASSUME NEW u \in Clients, Call(u) PROVE FALSE
    <2>1. pc[u] = "idle" /\ (pc' = pc \/ \E l : pc' = [pc EXCEPT ![u] = l])
      BY <1>2, Zenon DEF Call, Dispatch, TryWait, WaitAll, ResetFence, ResetSemaphore,
         EnqueueGroup, Goto
    <2> QED
      BY <1>1, <2>1, Zenon
  <1>3. ASSUME NEW u \in Clients, WaitStep(u) PROVE WaitAllReturn(t)
    BY <1>1, <1>3, Zenon DEF WaitStep, HelpEnds, ReadSignal, Poll, ReadResult, WaitAllReturn, Goto
  <1>4. ASSUME NEW u \in Threads, LockedStep(u) PROVE FALSE
    BY <1>1, <1>4, Zenon DEF LockedStep, NotifyGroups, SignalCompleted, EnqueueGroup, EnqueueCount,
       EnqueueStore, Goto
  <1>5. ASSUME NEW u \in Threads, RunStep(u) PROVE FALSE
    BY <1>1, <1>5, Zenon DEF RunStep, Take, ProcessCommands, SetResult, UserFunction, CleanupLock,
       CleanupSignal, SignalSemaphore, SetSignal, Decrement, Goto
  <1>6. ASSUME NEW u \in Threads, SpuriousWake(u) PROVE FALSE
    BY <1>1, <1>6, Zenon DEF SpuriousWake
  <1> QED
    BY <1>2, <1>3, <1>4, <1>5, <1>6, Zenon DEF Next

\* When no group is counted, none is in the ring, in a thread or on its way.
LEMMA NoneRunning ==
    ASSUME TypeOK, RunningInv, runningGroups = 0
    PROVE  /\ \A t \in Threads : job[t] = NoGroup
           /\ \A g \in Groups : stage[g] \in {"idle", "dispatched", "complete"}
  <1>1. /\ pending \in Seq(Groups)
        /\ stage \in [Groups -> {"idle", "dispatched", "queued", "running", "executed",
                                 "called", "cleaned", "complete"}]
    BY Zenon DEF TypeOK
  <1>2. IsFiniteSet(Jobs)
    BY Zenon DEF RunningInv
  <1>3. PICK n \in {0, 1} : 0 = Len(pending) + Cardinality(Jobs) + n
    BY Zenon DEF RunningInv
  <1>4. Cardinality(Jobs) \in Nat
    BY <1>2, FS_CardinalityType, Zenon
  <1>5. Len(pending) = 0 /\ Cardinality(Jobs) = 0 /\ DOMAIN pending = {}
    BY <1>1, <1>3, <1>4
  <1>6. Jobs = {}
    BY <1>2, <1>5, FS_EmptySet, Zenon
  <1>7. \A g \in Groups : stage[g] # "queued" /\ stage[g] \notin {"running", "executed", "called", "cleaned"}
    BY <1>5, <1>6, Zenon DEF RunningInv
  <1> QED
    BY <1>1, <1>6, <1>7, Zenon DEF Jobs

\* A group that has been dispatched and whose waits are all signalled is counted.
LEMMA ReadyIsCounted ==
    ASSUME ~AllocFails, BaseInv, CountInv, ExactInv, RunningInv, runningGroups = 0,
           NEW g \in Groups, Dispatched(g)
    PROVE  Unsignalled(g) # {}
  <1>inv. TypeOK /\ ControlInv /\ NoGroup \notin Groups /\ Threads = Workers \cup Clients
    BY QueueAssumption, Zenon DEF BaseInv, Threads
  <1>1. stage[g] = "dispatched" /\ \A t \in Threads : job[t] = NoGroup
    BY <1>inv, NoneRunning, Zenon DEF Dispatched, Idle
  <1>2. ASSUME NEW t \in Threads
        PROVE  enq[t] # g /\ (mutex = t => \A k \in DOMAIN calls[t] : calls[t][k] # g)
    <2>1. CASE t \in Clients
      BY <1>1, <2>1, Zenon DEF Dispatched
    <2>2. CASE t \in Workers
      BY <1>1, <1>inv, <2>2, Zenon DEF ControlInv, Control, Locked
    <2> QED
      BY <1>inv, <2>1, <2>2, Zenon
  <1>3. Tracked(g)
    BY <1>1, <1>2, Zenon DEF Tracked
  <1>4. In(Due, g) = {}
    <2>1. CASE mutex = NoThread
      BY <2>1 DEF Due, In
    <2>2. CASE mutex \in Threads /\ mutex # NoThread
      BY <1>2, <2>2, Zenon DEF Due, In
    <2> QED
      BY <1>inv, <2>1, <2>2, Zenon DEF TypeOK
  <1>5. waitCount[g] # 0 /\ waitCount[g] = Cardinality(Unsignalled(g)) + Cardinality(In(Due, g))
    BY <1>3, Zenon DEF ExactInv, Left
  <1>6. Cardinality(In(Due, g)) = 0 /\ (Unsignalled(g) = {} => Cardinality(Unsignalled(g)) = 0)
    BY <1>4, FS_EmptySet, Zenon
  <1> QED
    BY <1>5, <1>6

\* When muxWaitAll returns, every group that was dispatched before it was called and that
\* does not wait for one yet to be dispatched is complete, however long the chain of
\* semaphores that starts it: hostWaitAll looks at the count of groups in the pool only.
THEOREM WaitAllIsSound ==
    ASSUME SignalsOnce, ~AllocFails
    PROVE  Spec => WaitAllOutlastsGroups
  <1> DEFINE Returns == \A t \in Clients : pc[t] = "wait_all" /\ pc'[t] = "idle" =>
                \A d \in since[t] : stage[d[1]] = "complete" \/ times[d[1]] > d[2]
  <1>1. BaseInv /\ OrderInv /\ RunningInv /\ WaitAllInv /\ [Next]_vars => [Returns]_vars
    <2> SUFFICES ASSUME BaseInv, OrderInv, RunningInv, WaitAllInv, Next, NEW t \in Clients,
                        pc[t] = "wait_all", pc'[t] = "idle", NEW d \in since[t]
                 PROVE  stage[d[1]] = "complete" \/ times[d[1]] > d[2]
      BY Zenon
    <2>1. runningGroups = 0
      BY OnlyWaitAllReturns, Zenon DEF WaitAllReturn
    <2>2. Outlasts(t) /\ since[t] \in SUBSET (Groups \X Nat)
      BY Zenon DEF WaitAllInv
    <2>3. Owed(t) = {}
      <3>1. SUFFICES ASSUME Owed(t) # {} PROVE FALSE
        BY Zenon
      <3>2. PICK O : O = Owed(t)
        BY Zenon
      <3>3. PICK g \in O : \A s \in SemsIn(WaitsOf[g]) : signalled[s] \/ Signallers(s) \cap (O \ O) # {}
        <4>1. O \in SUBSET O /\ O # {} /\ Founded(O)
          BY <2>2, <3>1, <3>2, Zenon DEF Outlasts
        <4> QED
          BY <4>1, Zenon DEF Founded
      <3>4. \A s \in SemsIn(WaitsOf[g]) : signalled[s]
        BY <3>3, Zenon
      <3>5. Unsignalled(g) = {}
        BY <3>4, Zenon DEF Unsignalled, SemsIn
      <3>6. g \in Groups /\ Dispatched(g)
        BY <2>2, <3>2, <3>3, Zenon DEF Outlasts, Owed
      <3>7. CountInv /\ ExactInv
        BY Zenon DEF OrderInv
      <3> QED
        BY <2>1, <3>5, <3>6, <3>7, ReadyIsCounted, Zenon
    <2>4. PICK g \in Groups, n \in Nat : d = <<g, n>>
      BY <2>2
    <2>5. d[1] = g /\ d[2] = n
      BY <2>4
    <2>6. n <= times[g] /\ stage[g] # "idle" /\ times[g] \in Nat
      BY <2>2, <2>5, Zenon DEF Outlasts, BaseInv, TypeOK
    <2>7. CASE times[g] = n
      <3>1. Idle(g)
        BY <2>3, <2>4, <2>7, Zenon DEF Owed
      <3> QED
        BY <2>5, <2>6, <3>1, Zenon DEF Idle
    <2>8. CASE times[g] # n
      <3>1. times[g] > n
        BY <2>6, <2>8
      <3> QED
        BY <2>5, <3>1, Zenon
    <2> QED
      BY <2>7, <2>8, Zenon
  <1>2. BaseInv /\ OrderInv /\ RunningInv /\ WaitAllInv /\ [Next]_vars => RunningInv' /\ WaitAllInv'
    BY NextRunning, NextWaitAll, Zenon DEF OrderInv
  <1> QED
    BY <1>1, <1>2, InitWaitAll, BaseInvariance, OrderInvariance, PTL DEF Spec, WaitAllOutlastsGroups
================================================================================
