------------------------- MODULE HostThreadPoolSteps --------------------------
(***************************************************************************)
(* IInv holds of a new pool and every action of HostThreadPool preserves   *)
(* it.                                                                     *)
(*                                                                         *)
(* The lemmas the actions share come first: the ring's indices,            *)
(* cardinalities, and the steps that move nothing but program counters     *)
(* (QuietStep), take an item, store one, mark one or enqueue one.  Then    *)
(* the steps that change an item's status, its count or its signal, and    *)
(* each function of the pool.                                              *)
(***************************************************************************)
EXTENDS HostThreadPool, TLAPS

USE DEF Threads, Settled

-------------------------------------------------------------------------------
\* The ring

\* The next index is the successor, wrapping to zero at the end of the ring.
LEMMA NextIndexWraps ==
    ASSUME NEW i \in Indices
    PROVE  /\ NextIndex(i) = IF i + 1 = QueueMax THEN 0 ELSE i + 1
           /\ NextIndex(i) \in Indices
  <1>1. QueueMax \in Nat /\ QueueMax > 1
    BY PoolAssumption
  <1>2. QueueMax % QueueMax = 0
    BY <1>1
  <1>3. \A a \in Nat : a < QueueMax => a % QueueMax = a
    BY <1>1
  <1> QED
    BY <1>1, <1>2, <1>3 DEF NextIndex, Indices

\* Storing at the write index of a ring that is not full adds that position.
LEMMA WindowGrows ==
    ASSUME readIndex \in Indices, writeIndex \in Indices, ~RingFull,
           readIndex' = readIndex, writeIndex' = NextIndex(writeIndex)
    PROVE  Window' = Window \cup {writeIndex} /\ writeIndex \notin Window
  <1>1. QueueMax \in Nat /\ QueueMax > 1
    BY PoolAssumption
  <1> QED
    BY <1>1, NextIndexWraps DEF Window, RingFull, Indices

\* Taking from the read index of a ring that is not empty removes it.
LEMMA WindowShrinks ==
    ASSUME readIndex \in Indices, writeIndex \in Indices, ~RingEmpty,
           writeIndex' = writeIndex, readIndex' = NextIndex(readIndex)
    PROVE  Window' = Window \ {readIndex} /\ readIndex \in Window
  <1>1. QueueMax \in Nat /\ QueueMax > 1
    BY PoolAssumption
  <1> QED
    BY <1>1, NextIndexWraps DEF Window, RingEmpty, Indices

-------------------------------------------------------------------------------
\* Counts

\* What the counts need to know of finite sets.  HostThreadPoolProofs proves it;
\* the steps only use it.
CardinalityFacts ==
    /\ IsFiniteSet({}) /\ Cardinality({}) = 0
    /\ \A S : IsFiniteSet(S) => /\ Cardinality(S) = 0 <=> S = {}
                               /\ \A T \in SUBSET S : IsFiniteSet(T)
    /\ \A S, x : IsFiniteSet(S) =>
          /\ Cardinality(S \cup {x}) = IF x \in S THEN Cardinality(S) ELSE Cardinality(S) + 1
          /\ Cardinality(S \ {x}) = IF x \in S THEN Cardinality(S) - 1 ELSE Cardinality(S)

\* A step that completes no item and starts none leaves every count exact.
LEMMA CountsUntouched ==
    ASSUME CountIsOutstanding, count' = count,
           \A i \in Items : Outstanding(i)' <=> Outstanding(i)
    PROVE  CountIsOutstanding'
  BY Zenon DEF CountIsOutstanding

\* Counting one item more keeps every count equal to its outstanding items.
LEMMA CountOneMore ==
    ASSUME CardinalityFacts, NEW i \in Items, CountIsOutstanding, count \in [Counts -> Nat],
           count' = [count EXCEPT ![CountOf[i]] = @ + 1],
           ~Outstanding(i), Outstanding(i)',
           \A j \in Items \ {i} : Outstanding(j)' <=> Outstanding(j)
    PROVE  CountIsOutstanding'
  <1> DEFINE Of(c) == {j \in Items : CountOf[j] = c /\ Outstanding(j)}
  <1> SUFFICES ASSUME NEW c \in Counts
               PROVE  count'[c] = Cardinality(Of(c)')
    BY Zenon DEF CountIsOutstanding
  <1>1. IsFiniteSet(Of(c)) /\ count[c] = Cardinality(Of(c))
    BY PoolAssumption, Zenon DEF CardinalityFacts, CountIsOutstanding
  <1>2. CASE c = CountOf[i]
    <2>1. Of(c)' = Of(c) \cup {i} /\ i \notin Of(c)
      BY <1>2, Zenon
    <2> HIDE DEF Of
    <2> QED
      BY <1>1, <1>2, <2>1 DEF CardinalityFacts
  <1>3. CASE c # CountOf[i]
    <2>1. Of(c)' = Of(c)
      BY <1>3, Zenon
    <2> HIDE DEF Of
    <2> QED
      BY <1>1, <1>3, <2>1, Zenon
  <1> QED
    BY <1>2, <1>3, Zenon

\* Completing one outstanding item takes one off its count, which is positive.
LEMMA CountOneLess ==
    ASSUME CardinalityFacts, NEW i \in Items, CountIsOutstanding, count \in [Counts -> Nat],
           count' = [count EXCEPT ![CountOf[i]] = @ - 1],
           Outstanding(i), ~Outstanding(i)',
           \A j \in Items \ {i} : Outstanding(j)' <=> Outstanding(j)
    PROVE  CountIsOutstanding' /\ count' \in [Counts -> Nat]
  <1> DEFINE Of(c) == {j \in Items : CountOf[j] = c /\ Outstanding(j)}
  <1>0. ASSUME NEW c \in Counts
        PROVE  IsFiniteSet(Of(c)) /\ count[c] = Cardinality(Of(c))
    BY PoolAssumption, Zenon DEF CardinalityFacts, CountIsOutstanding
  <1>1. CountOf[i] \in Counts
    BY PoolAssumption, Zenon
  <1>2. i \in Of(CountOf[i])
    BY Zenon
  <1>3. count[CountOf[i]] # 0
    <2> HIDE DEF Of
    <2> QED
      BY <1>0, <1>1, <1>2 DEF CardinalityFacts
  <1>4. ASSUME NEW c \in Counts
        PROVE  count'[c] = Cardinality(Of(c)')
    <2>1. CASE c = CountOf[i]
      <3>1. Of(c)' = Of(c) \ {i} /\ i \in Of(c)
        BY <2>1, Zenon
      <3> HIDE DEF Of
      <3> QED
        BY <1>0, <2>1, <3>1 DEF CardinalityFacts
    <2>2. CASE c # CountOf[i]
      <3>1. Of(c)' = Of(c)
        BY <2>2, Zenon
      <3> HIDE DEF Of
      <3> QED
        BY <1>0, <2>2, <3>1, Zenon
    <2> QED
      BY <2>1, <2>2, Zenon
  <1> QED
    BY <1>1, <1>3, <1>4 DEF CountIsOutstanding

-------------------------------------------------------------------------------
\* What each kind of step preserves

\* A call that has yet to store an item has that item first in its list.
LEMMA FirstItem ==
    ASSUME NEW t \in Clients, IInv, pc[t] \in AwaitsStore
    PROVE  /\ todo[t] \in Seq(Items) /\ todo[t] # << >>
           /\ Head(todo[t]) \in Items
           /\ 1 \in 1..Len(todo[t]) /\ todo[t][1] = Head(todo[t])
           /\ status[Head(todo[t])] = "counted"
  <1>1. todo[t] \in Seq(Items) /\ todo[t] # << >>
    BY Zenon DEF IInv, TypeOK, ControlInv
  <1>2. /\ Head(todo[t]) \in Items
        /\ 1 \in 1..Len(todo[t]) /\ todo[t][1] = Head(todo[t])
    BY <1>1
  <1>3. status[Head(todo[t])] = "counted"
    BY <1>2, Zenon DEF IInv, TodoInv
  <1> QED
    BY <1>1, <1>2, <1>3, Zenon

\* A step that leaves ring, counts and items alone: it moves threads between
\* labels that own the same item and the same call, and may clear a signal,
\* begin a wait or end one.
LEMMA QuietStep ==
    ASSUME IInv, TypeOK', ControlInv',
           UNCHANGED <<ringVars, count, status, work, todo>>,
           \A s \in Signals : signal'[s] => signal[s],
           \A t \in Threads : \/ pc'[t] = pc[t]
                              \/ {pc[t], pc'[t]} \cap InItem = {},
           \A t \in Clients :
              /\ pc'[t] \in AwaitsStore <=> pc[t] \in AwaitsStore
              /\ pc'[t] \in AwaitsSpace \cup {"enq_lock"} =>
                    \/ pc[t] \in AwaitsSpace \cup {"enq_lock"}
                    \/ SignalOf[Head(todo[t])] = NoSignal
                    \/ ~signal'[SignalOf[Head(todo[t])]]
              /\ \/ since'[t] = {}
                 \/ since'[t] = since[t] /\ goal'[t] = goal[t]
                 \/ since'[t] = Covered(goal'[t]) /\ Waitable(goal'[t])
    PROVE  IInv'
  <1> USE DEF IInv, ringVars
  <1>1. WorkInv'
    BY Zenon DEF WorkInv, InItem
  <1>2. TodoInv'
    BY DEF TodoInv
  <1>3. RingHoldsQueued'
    BY Zenon DEF RingHoldsQueued, Window
  <1>4. CountIsOutstanding'
    BY Zenon DEF CountIsOutstanding, Outstanding
  <1>5. SignalMeansComplete'
    BY PoolAssumption, Zenon DEF SignalMeansComplete
  <1>6. SignalInv'
    <2>1. \A t \in Clients :
             pc'[t] \in AwaitsSpace \cup {"enq_lock"} => Head(todo[t]) \in Items
      BY DEF TypeOK, ControlInv, AwaitsStore
    <2> QED
      BY <2>1, PoolAssumption, Zenon DEF SignalInv
  <1>7. SinceInv'
    <2>1. ASSUME NEW t \in Clients, Waitable(goal'[t]),
                 since'[t] = Covered(goal'[t]), NEW i \in since'[t]
          PROVE  /\ goal'[t] \in {SignalOf[i], CountOf[i]}
                 /\ status[i] \in {"queued", "running", "ran", "signalled"} \cup
                       (IF goal'[t] \in Signals THEN {} ELSE {"counted"})
      BY <2>1, PoolAssumption, Zenon DEF Covered, Waitable, Outstanding
    <2> QED
      BY <2>1, Zenon DEF SinceInv
  <1> QED
    BY <1>1, <1>2, <1>3, <1>4, <1>5, <1>6, <1>7, Zenon

\* A step that moves neither the indices nor an item into or out of the ring.
LEMMA RingUntouched ==
    ASSUME RingHoldsQueued, UNCHANGED ringVars,
           \A j \in Items : status'[j] = "queued" <=> status[j] = "queued"
    PROVE  RingHoldsQueued'
  BY Zenon DEF RingHoldsQueued, Window, ringVars

\* An item that has yet to be stored is not one that a thread is running.
LEMMA TodoItem ==
    ASSUME IInv, NEW u \in Clients, NEW k \in 1..Len(todo[u])
    PROVE  todo[u][k] \in Items /\ status[todo[u][k]] \in {"counted", "called"}
  <1>1. todo[u] \in Seq(Items)
    BY Zenon DEF IInv, TypeOK
  <1>2. todo[u][k] \in Items
    BY <1>1
  <1> QED
    BY <1>2, Zenon DEF IInv, TodoInv

\* The commonest such step: one thread goes on to a label of the same role.
SameRole(a, b) ==
    /\ a \in AwaitsSpace <=> b \in AwaitsSpace
    /\ a \in AwaitsStore <=> b \in AwaitsStore
    /\ a \in InRange <=> b \in InRange
    /\ a \in InWait \cup InBody <=> b \in InWait \cup InBody
    /\ b \notin InGet \cup {"enq_lock"}

\* A thread moves between labels of one role and touches no shared state.
LEMMA QuietMove ==
    ASSUME NEW t \in Threads, NEW l, IInv, TypeOK', Goto(t, l),
           UNCHANGED <<ringVars, itemVars, work, todo, goal, since>>,
           pc[t] \notin InItem, l \notin InItem,
           t \in Workers => l \in InGet \cup InBody,
           t \in Clients => SameRole(pc[t], l)
    PROVE  IInv'
  <1>1. pc'[t] = l /\ \A u \in Threads \ {t} : pc'[u] = pc[u]
    BY Zenon DEF IInv, TypeOK, Goto
  <1>2. ControlInv'
    <2>1. \A u \in Workers : pc'[u] \in InGet \cup InBody
      BY <1>1, Zenon DEF IInv, ControlInv
    <2>2. ASSUME NEW u \in Clients
          PROVE  /\ pc'[u] \notin InGet
                 /\ pc'[u] \in AwaitsStore \cup InRange <=> todo[u] # << >>
                 /\ pc'[u] \in InWait \cup InBody <=> goal[u] # NoGoal
      BY <1>1, Zenon DEF IInv, ControlInv, SameRole
    <2> QED
      BY <2>1, <2>2, Zenon DEF ControlInv
  <1>3. \A u \in Clients :
           /\ pc'[u] \in AwaitsStore <=> pc[u] \in AwaitsStore
           /\ pc'[u] \in AwaitsSpace \cup {"enq_lock"} =>
                 pc[u] \in AwaitsSpace \cup {"enq_lock"}
    BY <1>1, Zenon DEF SameRole
  <1>4. \A u \in Threads : pc'[u] = pc[u] \/ {pc[u], pc'[u]} \cap InItem = {}
    BY <1>1, Zenon
  <1>5. /\ \A s \in Signals : signal'[s] => signal[s]
        /\ UNCHANGED <<ringVars, count, status, work, todo>>
        /\ \A u \in Clients : since'[u] = since[u] /\ goal'[u] = goal[u]
    BY Zenon DEF itemVars
  <1> QED
    BY <1>2, <1>3, <1>4, <1>5, QuietStep, Zenon

\* Falling asleep and waking up move no thread.
LEMMA QuietSleep ==
    ASSUME IInv, TypeOK',
           UNCHANGED <<ringVars, itemVars, work, todo, goal, since, pc>>
    PROVE  IInv'
  <1>1. ControlInv'
    BY Zenon DEF IInv, ControlInv
  <1> QED
    BY <1>1, QuietStep, Zenon DEF itemVars

\* Taking the oldest item of the ring.
LEMMA TakeStep ==
    ASSUME NEW t \in Threads, IInv, ~RingEmpty, Take(t),
           pc[t] = IF t \in Workers THEN "get_lock" ELSE "wait_try",
           UNCHANGED <<queue, writeIndex, lockVars, condVars, callVars,
                       stayAlive, signal, count>>
    PROVE  IInv'
  <1> USE DEF IInv, Take, Goto, callVars
  <1> DEFINE i == queue[readIndex]
  <1>1. readIndex \in Indices /\ writeIndex \in Indices
    BY Zenon DEF TypeOK
  <1>2. Window' = Window \ {readIndex} /\ readIndex \in Window
    BY <1>1, WindowShrinks, Zenon
  <1>3. i \in Items /\ status[i] = "queued"
    BY <1>2, Zenon DEF RingHoldsQueued
  <1>4. status' = [status EXCEPT ![i] = "running"] /\ work' = [work EXCEPT ![t] = i]
    BY Zenon
  <1>5. i # NoItem
    BY <1>3, PoolAssumption, Zenon
  <1>6. \A u \in Threads : work[u] # i
    BY <1>3, <1>5, Zenon DEF WorkInv, InItem
  <1>7. readIndex' \in Indices
    BY <1>1, NextIndexWraps, Zenon
  <1>8. \A u \in Clients : \A k \in 1..Len(todo[u]) : todo[u][k] # i
    BY <1>3, Zenon DEF TodoInv
  <1> HIDE DEF i
  <1>a. TypeOK'
    BY <1>3, <1>4, <1>7 DEF TypeOK, Labels, Statuses, lockVars, condVars
  <1>b. ControlInv'
    BY Zenon DEF TypeOK, ControlInv, InGet, InBody, InItem, InWait, InRange, AwaitsStore, AwaitsSpace
  <1>c. WorkInv'
    BY <1>3, <1>4, <1>5, <1>6 DEF TypeOK, WorkInv, InItem
  <1>d. TodoInv'
    BY <1>3, <1>4, <1>8 DEF TypeOK, TodoInv, AwaitsStore, AwaitsSpace
  <1>e. RingHoldsQueued'
    BY <1>2, <1>3, <1>4 DEF TypeOK, RingHoldsQueued, i
  <1>f. CountIsOutstanding'
    BY <1>3, <1>4, CountsUntouched, Zenon DEF TypeOK, Outstanding
  <1>g. SignalMeansComplete' /\ SignalInv'
    BY <1>3, <1>4 DEF TypeOK, SignalMeansComplete, SignalInv, AwaitsSpace
  <1>h. SinceInv'
    BY <1>3, <1>4 DEF TypeOK, SinceInv
  <1> QED
    BY <1>a, <1>b, <1>c, <1>d, <1>e, <1>f, <1>g, <1>h, Zenon

\* Storing the next item of a call, or blocking on a full ring.
LEMMA StoreStep ==
    ASSUME NEW t \in Clients, IInv, StoreOrBlock(t), ClearSignal(Head(todo[t])),
           pc[t] \in {"enq_lock", "range_store", "full_relock"},
           waitMutex' \in Threads \cup {NoThread},
           UNCHANGED <<condVars, bulk, goal, since, stayAlive, count, work>>
    PROVE  IInv'
  <1> USE DEF IInv, Goto
  <1> DEFINE i == Head(todo[t])
             rest == Tail(todo[t])
  <1>1. /\ todo[t] \in Seq(Items) /\ todo[t] # << >>
        /\ i \in Items /\ i = todo[t][1] /\ rest \in Seq(Items)
        /\ Len(rest) = Len(todo[t]) - 1
        /\ \A k \in 1..Len(rest) : rest[k] = todo[t][k + 1]
    BY DEF TypeOK, ControlInv, AwaitsStore, AwaitsSpace
  <1>2. status[i] = "counted"
    BY <1>1 DEF TodoInv, AwaitsStore, AwaitsSpace
  <1>3. /\ signal' \in [Signals -> BOOLEAN]
        /\ \A s \in Signals : signal'[s] => signal[s]
        /\ SignalOf[i] # NoSignal => ~signal'[SignalOf[i]]
    <2> HIDE DEF i
    <2>1. signal' = [s \in Signals |-> IF s = SignalOf[i] THEN FALSE ELSE signal[s]]
      BY Zenon DEF i, ClearSignal
    <2>2. SignalOf[i] # NoSignal => SignalOf[i] \in Signals
      BY <1>1, PoolAssumption, Zenon
    <2>3. signal \in [Signals -> BOOLEAN]
      BY Zenon DEF TypeOK
    <2>4. signal' \in [Signals -> BOOLEAN]
      BY <2>1, <2>3, Zenon
    <2>5. \A s \in Signals : signal'[s] => signal[s]
      BY <2>1, <2>3, Zenon
    <2>6. SignalOf[i] # NoSignal => ~signal'[SignalOf[i]]
      BY <2>1, <2>2, Zenon
    <2> QED
      BY <2>4, <2>5, <2>6, Zenon
  <1>4. CASE RingFull
    <2>1. /\ mutex' = t /\ pc' = [pc EXCEPT ![t] = "full_lock"]
          /\ UNCHANGED <<ringVars, todo, status>>
      BY <1>4, Zenon DEF StoreOrBlock
    <2>2. TypeOK'
      BY <1>3, <2>1, Zenon DEF TypeOK, Labels, ringVars, condVars
    <2>3. ControlInv'
      BY <2>1, Zenon DEF TypeOK, ControlInv, InGet, InBody, InItem, InWait, InRange,
                  AwaitsStore, AwaitsSpace
    <2> QED
      BY <1>3, <2>1, <2>2, <2>3, QuietStep, Zenon DEF TypeOK, InItem, AwaitsStore, AwaitsSpace
  <1>5. CASE ~RingFull
    <2>1. /\ queue' = [queue EXCEPT ![writeIndex] = i]
          /\ writeIndex' = NextIndex(writeIndex) /\ readIndex' = readIndex
          /\ status' = [status EXCEPT ![i] = "queued"]
          /\ todo' = [todo EXCEPT ![t] = rest]
          /\ mutex' \in {t, NoThread}
          /\ pc' = [pc EXCEPT ![t] = IF rest = << >> THEN "enq_notify"
                                     ELSE "range_count"]
      BY <1>5, Zenon DEF StoreOrBlock
    <2>2. readIndex \in Indices /\ writeIndex \in Indices
      BY Zenon DEF TypeOK
    <2>3. Window' = Window \cup {writeIndex} /\ writeIndex \notin Window
      BY <1>5, <2>1, <2>2, WindowGrows, Zenon
    <2>4. writeIndex' \in Indices
      BY <2>1, <2>2, NextIndexWraps, Zenon
    <2> HIDE DEF i, rest
    <2>a. TypeOK'
      BY <1>1, <1>3, <2>1, <2>4, Zenon DEF TypeOK, Labels, Statuses, condVars
    <2>b. ControlInv'
      BY <2>1, Zenon DEF TypeOK, ControlInv, InGet, InBody, InItem, InWait, InRange,
                  AwaitsStore, AwaitsSpace
    <2>c. WorkInv'
      BY <1>1, <1>2, <2>1 DEF TypeOK, WorkInv, InItem
    <2>5. /\ status'[i] = "queued"
          /\ \A j \in Items \ {i} : status'[j] = status[j]
      BY <1>1, <2>1, Zenon DEF TypeOK
    <2>6. /\ todo'[t] = rest
          /\ \A u \in Clients \ {t} : todo'[u] = todo[u] /\ pc'[u] = pc[u]
          /\ pc'[t] \notin AwaitsStore
      BY <2>1, Zenon DEF TypeOK, AwaitsStore, AwaitsSpace
    <2>d. TodoInv'
      <3> DEFINE old(u, k) == IF u = t THEN k + 1 ELSE k
      <3>1. ASSUME NEW u \in Clients, NEW k \in 1..Len(todo'[u])
            PROVE  /\ old(u, k) \in 1..Len(todo[u])
                   /\ todo'[u][k] = todo[u][old(u, k)]
                   /\ todo'[u][k] \in Items
                   /\ u = t => old(u, k) # 1
        <4>1. CASE u = t
          BY <1>1, <2>6, <4>1
        <4>2. CASE u # t
          <5>1. todo[u] \in Seq(Items) /\ todo'[u] = todo[u]
            BY <2>6, <4>2, Zenon DEF TypeOK
          <5> QED
            BY <5>1, <4>2
        <4> QED
          BY <4>1, <4>2, Zenon
      <3>a. ASSUME NEW u \in Clients, NEW k \in 1..Len(todo'[u]),
                   NEW l \in 1..Len(todo'[u]), old(u, k) = old(u, l)
            PROVE  k = l
        BY <3>a
      <3>b. \A u \in Clients : u # t => \A k : old(u, k) = k
        BY Zenon
      <3>c. 1 \in 1..Len(todo[t]) /\ todo[t][1] = i
        BY <1>1
      <3> HIDE DEF old
      <3>2. ASSUME NEW u \in Clients, NEW k \in 1..Len(todo'[u])
            PROVE  status'[todo'[u][k]] =
                      IF k = 1 /\ pc'[u] \in AwaitsStore THEN "counted"
                      ELSE "called"
        <4>1. todo'[u][k] # i
          BY <3>1, <3>c DEF TodoInv
        <4>2. status'[todo'[u][k]] = status[todo[u][old(u, k)]]
          BY <2>5, <3>1, <4>1, Zenon
        <4> QED
          BY <2>6, <3>1, <3>b, <4>2 DEF TodoInv
      <3>3. ASSUME NEW u \in Clients, NEW k \in 1..Len(todo'[u]),
                   NEW v \in Clients, NEW l \in 1..Len(todo'[v]),
                   todo'[u][k] = todo'[v][l]
            PROVE  u = v /\ k = l
        <4>1. todo[u][old(u, k)] = todo[v][old(v, l)]
          BY <3>1, <3>3, Zenon
        <4>2. u = v /\ old(u, k) = old(v, l)
          BY <3>1, <4>1 DEF TodoInv
        <4> QED
          BY <3>a, <4>2, Zenon
      <3> QED
        BY ONLY <3>2, <3>3 DEF TodoInv
    <2>e. RingHoldsQueued'
      <3>1. queue'[writeIndex] = i /\ \A k \in Window : queue'[k] = queue[k]
        BY <2>1, <2>2, <2>3, Zenon DEF TypeOK, Window
      <3>2. \A k \in Window : queue[k] \in Items \ {i}
        BY <1>2, Zenon DEF RingHoldsQueued
      <3> QED
        <4>1. \A k \in Window' : queue'[k] \in Items /\ status'[queue'[k]] = "queued"
          BY <1>1, <2>3, <2>5, <3>1, <3>2 DEF RingHoldsQueued
        <4>2. ASSUME NEW j \in Items, status'[j] = "queued"
              PROVE  \E k \in Window' : queue'[k] = j
          BY <2>3, <2>5, <3>1, <4>2 DEF RingHoldsQueued
        <4>3. \A k, l \in Window' : queue'[k] = queue'[l] => k = l
          BY <2>3, <3>1, <3>2 DEF RingHoldsQueued
        <4> QED
          BY <4>1, <4>2, <4>3, Zenon DEF RingHoldsQueued
    <2>f. CountIsOutstanding'
      BY <1>1, <1>2, <2>1, CountsUntouched, Zenon DEF TypeOK, Outstanding
    <2>7. \A j \in Items : SignalOf[j] # NoSignal => SignalOf[j] \in Signals
      BY PoolAssumption, Zenon
    <2>g. SignalMeansComplete'
      BY <1>1, <1>3, <2>5, <2>7, Zenon DEF SignalMeansComplete
    <2>h. SignalInv'
      <3>1. ASSUME NEW u \in Clients, pc'[u] \in AwaitsSpace \cup {"enq_lock"}
            PROVE  u # t /\ Head(todo[u]) \in Items
        BY <2>6, <3>1 DEF TypeOK, ControlInv, AwaitsStore
      <3>2. \A u \in Clients :
              /\ pc'[u] \in AwaitsSpace \cup {"enq_lock"}
              /\ SignalOf[Head(todo'[u])] # NoSignal
              => ~signal'[SignalOf[Head(todo'[u])]]
        BY <1>3, <2>6, <2>7, <3>1, SMTT(30) DEF SignalInv
      <3> QED
        BY <1>2, <2>5, <3>2, SMTT(30) DEF SignalInv
    <2>i. SinceInv'
      BY <1>1, <1>2, <2>1, Zenon DEF TypeOK, SinceInv
    <2> QED
      BY <2>a, <2>b, <2>c, <2>d, <2>e, <2>f, <2>g, <2>h, <2>i, Zenon
  <1> QED
    BY <1>4, <1>5, Zenon

\* Announcing or counting items touches only items nobody runs or waits for.
LEMMA MarkStep ==
    ASSUME IInv, TypeOK', UNCHANGED <<ringVars, signal, goal, since, work>>,
           \A i \in Items :
              \/ status'[i] = status[i]
              \/ /\ status[i] \in {"new", "called"}
                 /\ status'[i] \in {"called", "counted"},
           \A t \in Threads : \/ pc'[t] = pc[t]
                              \/ {pc[t], pc'[t]} \cap InItem = {}
    PROVE  WorkInv' /\ RingHoldsQueued' /\ SignalMeansComplete' /\ SinceInv'
  <1> USE DEF IInv, ringVars
  <1>1. WorkInv'
    <2>1. \A t \in Threads : work[t] # NoItem => work[t] \in Items
      BY SMTT(30) DEF TypeOK
    <2>2. ASSUME NEW t \in Threads, pc'[t] \in InItem
          PROVE  pc'[t] = pc[t] /\ status'[work[t]] = status[work[t]]
      BY <2>1, <2>2, Zenon DEF WorkInv, InItem
    <2>3. \A t \in Threads : pc'[t] \in InItem <=> pc[t] \in InItem
      BY Zenon
    <2> QED
      BY <2>2, <2>3 DEF WorkInv, InItem
  <1>2. RingHoldsQueued'
    BY DEF RingHoldsQueued, Window
  <1>3. SignalMeansComplete'
    BY SMTT(30) DEF SignalMeansComplete
  <1>4. SinceInv'
    BY Zenon DEF SinceInv, TypeOK
  <1> QED
    BY <1>1, <1>2, <1>3, <1>4, Zenon

-------------------------------------------------------------------------------
\* Enqueuing items

\* The increment of the count at the start of enqueue.
LEMMA EnqueueStepInv ==
    ASSUME CardinalityFacts, NEW t \in Clients, NEW i \in Items, IInv, Enqueue(t, i)
    PROVE  IInv'
  <1> USE DEF IInv, Goto, AddToCount, Enqueue, MayCall
  <1>1. /\ todo[t] = << >> /\ goal[t] = NoGoal
        /\ CountOf[i] \in Counts
    BY PoolAssumption, Zenon DEF ControlInv, AwaitsStore, AwaitsSpace, InRange, InWait, InBody, InItem
  <1>2. TypeOK'
    BY <1>1 DEF TypeOK, Labels, Statuses, poolVars, ringVars, lockVars, condVars
  <1>3. /\ status'[i] = "counted"
        /\ \A j \in Items \ {i} : status'[j] = status[j]
        /\ todo'[t] = <<i>> /\ pc'[t] = "enq_signal"
        /\ \A u \in Clients \ {t} : todo'[u] = todo[u]
        /\ \A u \in Threads \ {t} : pc'[u] = pc[u]
    BY Zenon DEF TypeOK
  <1>4. ControlInv'
    <2>1. /\ \A u \in Workers : pc'[u] = pc[u]
          /\ \A u \in Clients : u # t => /\ pc'[u] = pc[u] /\ todo'[u] = todo[u]
                                         /\ goal'[u] = goal[u]
      BY <1>3, PoolAssumption
    <2> QED
      BY <1>1, <1>3, <2>1
      DEF ControlInv, AwaitsStore, AwaitsSpace, InRange, InWait, InBody, InItem, InGet
  <1>5. WorkInv' /\ RingHoldsQueued' /\ SignalMeansComplete' /\ SinceInv'
    BY <1>2, <1>3, MarkStep, Zenon DEF InItem, poolVars
  <1>6. TodoInv'
    <2>1. ASSUME NEW u \in Clients \ {t}, NEW k \in 1..Len(todo[u])
          PROVE  todo[u][k] \in Items \ {i}
      BY DEF TypeOK, TodoInv
    <2> QED
      BY <1>3, <2>1 DEF TodoInv, AwaitsStore
  <1>7. CountIsOutstanding'
    BY <1>3, CountOneMore, Zenon DEF TypeOK, Outstanding
  <1>8. SignalInv'
    BY <1>3 DEF SignalInv, SignalFree, AwaitsSpace
  <1> QED
    BY <1>2, <1>4, <1>5, <1>6, <1>7, <1>8, Zenon

\* The call of enqueue_range, before it has the mutex.
LEMMA EnqueueRangeStepInv ==
    ASSUME NEW t \in Clients, NEW slices \in Ranges, IInv,
           EnqueueRange(t, slices)
    PROVE  IInv'
  <1> USE DEF IInv, Goto, EnqueueRange, MayCall
  <1>0. /\ slices \in Seq(Items) /\ slices # << >>
        /\ \A k \in 1..Len(slices) : slices[k] \in Items
        /\ DOMAIN slices = 1..Len(slices)
    BY PoolAssumption
  <1>1. todo[t] = << >> /\ goal[t] = NoGoal
    BY Zenon DEF ControlInv, AwaitsStore, AwaitsSpace, InRange, InWait, InBody, InItem
  <1>3. /\ \A k \in 1..Len(slices) : status'[slices[k]] = "called"
        /\ \A j \in Items : \/ status'[j] = status[j]
                            \/ /\ status[j] = "new" /\ status'[j] = "called"
                               /\ \E k \in 1..Len(slices) : slices[k] = j
        /\ todo'[t] = slices /\ pc'[t] = "range_lock"
        /\ \A u \in Clients \ {t} : todo'[u] = todo[u]
        /\ \A u \in Threads \ {t} : pc'[u] = pc[u]
    BY <1>0, Zenon DEF TypeOK
  <1>2. TypeOK'
    <2>1. status' \in [Items -> Statuses]
      BY <1>3 DEF TypeOK, Statuses
    <2> QED
      BY <1>0, <2>1, Zenon DEF TypeOK, Labels, poolVars, ringVars, lockVars, condVars
  <1>4. ControlInv'
    <2>1. /\ \A u \in Workers : pc'[u] = pc[u]
          /\ \A u \in Clients : u # t => /\ pc'[u] = pc[u] /\ todo'[u] = todo[u]
                                         /\ goal'[u] = goal[u]
      BY <1>3, PoolAssumption
    <2> QED
      BY <1>0, <1>1, <1>3, <2>1
      DEF ControlInv, AwaitsStore, AwaitsSpace, InRange, InWait, InBody, InItem, InGet
  <1>5. WorkInv' /\ RingHoldsQueued' /\ SignalMeansComplete' /\ SinceInv'
    BY <1>2, <1>3, MarkStep DEF InItem, poolVars
  <1>6. TodoInv'
    <2>1. ASSUME NEW u \in Clients \ {t}, NEW k \in 1..Len(todo[u])
          PROVE  /\ todo[u][k] \in Items
                 /\ status'[todo[u][k]] = status[todo[u][k]]
                 /\ \A l \in 1..Len(slices) : slices[l] # todo[u][k]
      <3>1. /\ todo[u][k] \in Items
            /\ status[todo[u][k]] \in {"counted", "called"}
        BY DEF TypeOK, TodoInv
      <3>2. \A l \in 1..Len(slices) : status[slices[l]] = "new"
        BY <1>0, Zenon
      <3> QED
        BY <1>3, <3>1, <3>2
    <2>2. \A k, l \in 1..Len(slices) : slices[k] = slices[l] => k = l
      BY <1>0, PoolAssumption, Zenon
    <2>3. ASSUME NEW u \in Clients, NEW k \in 1..Len(todo'[u])
          PROVE  status'[todo'[u][k]] =
                    IF k = 1 /\ pc'[u] \in AwaitsStore THEN "counted"
                    ELSE "called"
      <3>1. CASE u = t
        BY <1>3, <3>1 DEF AwaitsStore, AwaitsSpace
      <3>2. CASE u # t
        BY <1>3, <2>1, <3>2 DEF TodoInv
      <3> QED
        BY <3>1, <3>2, Zenon
    <2>4. ASSUME NEW u \in Clients, NEW k \in 1..Len(todo'[u]),
                 NEW v \in Clients, NEW l \in 1..Len(todo'[v]),
                 todo'[u][k] = todo'[v][l]
          PROVE  u = v /\ k = l
      <3>1. CASE u = t /\ v = t
        BY <1>3, <2>2, <2>4, <3>1
      <3>2. CASE u # t /\ v # t
        BY <1>3, <2>4, <3>2 DEF TodoInv
      <3>3. CASE (u = t) # (v = t)
        BY <1>3, <2>1, <2>4, <3>3
      <3> QED
        BY <3>1, <3>2, <3>3, Zenon
    <2> QED
      BY <2>3, <2>4 DEF TodoInv
  <1>7. CountIsOutstanding'
    BY <1>3, CountsUntouched, Zenon DEF Outstanding
  <1>8. SignalInv'
    <2>1. ASSUME NEW i \in Items, NEW j \in Items, SignalOf[i] = SignalOf[j],
                 SignalOf[i] # NoSignal, status'[i] \notin Settled,
                 status'[j] \notin Settled
          PROVE  i = j
      <3>1. CASE status'[i] = status[i] /\ status'[j] = status[j]
        BY <2>1, <3>1, Zenon DEF SignalInv
      <3>2. CASE \E k \in 1..Len(slices) : slices[k] = i
        <4>1. PICK k \in 1..Len(slices) : slices[k] = i
          BY <3>2, Zenon
        <4>2. status[j] \in Settled
          BY <1>0, <2>1, <4>1, Zenon DEF SignalFree
        <4>3. PICK l \in 1..Len(slices) : slices[l] = j
          BY <1>3, <2>1, <4>2, Zenon
        <4>4. k # l => SignalOf[slices[k]] # SignalOf[slices[l]] \/ SignalOf[i] = NoSignal
          BY <1>0, <4>1, PoolAssumption
        <4> QED
          BY <2>1, <4>1, <4>3, <4>4, Zenon
      <3>3. CASE \E k \in 1..Len(slices) : slices[k] = j
        <4>1. PICK k \in 1..Len(slices) : slices[k] = j
          BY <3>3, Zenon
        <4>2. status[i] \in Settled
          BY <1>0, <2>1, <4>1, Zenon DEF SignalFree
        <4>3. \E l \in 1..Len(slices) : slices[l] = i
          BY <1>3, <2>1, <4>2, Zenon
        <4> QED
          BY <3>2, <4>3, Zenon
      <3> QED
        BY <1>3, <3>1, <3>2, <3>3, Zenon
    <2>2. ASSUME NEW u \in Clients, pc'[u] \in AwaitsSpace \cup {"enq_lock"},
                 SignalOf[Head(todo'[u])] # NoSignal
          PROVE  ~signal'[SignalOf[Head(todo'[u])]]
      <3>1. u # t
        BY <1>3, <2>2, Zenon DEF AwaitsSpace
      <3>2. pc'[u] = pc[u] /\ todo'[u] = todo[u] /\ signal' = signal
        BY <1>3, <3>1, PoolAssumption, Zenon
      <3> QED
        BY <2>2, <3>2, Zenon DEF SignalInv
    <2> QED
      BY <2>1, <2>2, Zenon DEF SignalInv
  <1> QED
    BY <1>2, <1>4, <1>5, <1>6, <1>7, <1>8, Zenon

-------------------------------------------------------------------------------
\* Counting, running and completing an item

\* The increment of the count for the next slice of enqueue_range.
LEMMA RangeCountStepInv ==
    ASSUME CardinalityFacts, NEW t \in Clients, IInv, RangeCount(t)
    PROVE  IInv'
  <1> USE DEF IInv, Goto, AddToCount, RangeCount, callVars
  <1> DEFINE i == Head(todo[t])
  <1>1. /\ todo[t] \in Seq(Items) /\ todo[t] # << >>
        /\ i \in Items /\ 1 \in 1..Len(todo[t]) /\ todo[t][1] = i
        /\ CountOf[i] \in Counts
    <2>1. todo[t] \in Seq(Items) /\ todo[t] # << >>
      BY Zenon DEF TypeOK, ControlInv, InRange
    <2>2. i \in Items /\ 1 \in 1..Len(todo[t]) /\ todo[t][1] = i
      BY <2>1
    <2> QED
      BY <2>1, <2>2, PoolAssumption, Zenon
  <1>2. status[i] = "called"
    BY <1>1 DEF TodoInv, AwaitsStore, AwaitsSpace
  <1>a. /\ count' = [count EXCEPT ![CountOf[i]] = @ + 1]
        /\ status' = [status EXCEPT ![i] = "counted"]
    BY Zenon
  <1> HIDE DEF i
  <1>3. TypeOK'
    BY <1>1, <1>a DEF TypeOK, Labels, Statuses, poolVars, ringVars, lockVars, condVars
  <1>4. /\ status'[i] = "counted"
        /\ \A j \in Items \ {i} : status'[j] = status[j]
        /\ pc'[t] = "range_store"
        /\ \A u \in Threads \ {t} : pc'[u] = pc[u]
    BY <1>1, <1>a, Zenon DEF TypeOK
  <1>5. ControlInv'
    BY <1>4, PoolAssumption
    DEF ControlInv, AwaitsStore, AwaitsSpace, InRange, InWait, InBody, InItem, InGet
  <1>6. WorkInv' /\ RingHoldsQueued' /\ SignalMeansComplete' /\ SinceInv'
    BY <1>2, <1>3, <1>4, MarkStep, Zenon DEF InItem, poolVars
  <1>7. TodoInv'
    <2>1. ASSUME NEW u \in Clients, NEW k \in 1..Len(todo[u])
          PROVE  /\ todo[u][k] \in Items
                 /\ todo[u][k] = i <=> u = t /\ k = 1
      BY <1>1 DEF TypeOK, TodoInv
    <2> QED
      BY <1>4, <2>1 DEF TodoInv, AwaitsStore, AwaitsSpace
  <1>8. CountIsOutstanding'
    BY <1>1, <1>2, <1>4, <1>a, CountOneMore, Zenon DEF TypeOK, Outstanding
  <1>9. SignalInv'
    BY <1>2, <1>4 DEF SignalInv, AwaitsSpace
  <1> QED
    BY <1>3, <1>5, <1>6, <1>7, <1>8, <1>9, Zenon

\* Running the function of the item a thread has taken.
LEMMA RunItemStepInv ==
    ASSUME NEW t \in Threads, IInv, RunItem(t)
    PROVE  IInv'
  <1> USE DEF IInv, Goto, RunItem
  <1> DEFINE i == work[t]
  <1>1. i \in Items /\ i # NoItem /\ status[i] = "running"
    BY DEF TypeOK, WorkInv, InItem
  <1>2. /\ status'[i] = "ran"
        /\ \A j \in Items \ {i} : status'[j] = status[j]
        /\ pc'[t] = "body_lock"
        /\ \A u \in Threads \ {t} : pc'[u] = pc[u]
    BY <1>1, Zenon DEF TypeOK
  <1>3. TypeOK'
    BY <1>1, Zenon DEF TypeOK, Labels, Statuses, poolVars, ringVars, lockVars,
                condVars, callVars
  <1>4. ControlInv'
    BY <1>2 DEF ControlInv, callVars, AwaitsStore, AwaitsSpace, InRange, InWait,
                InBody, InItem, InGet
  <1>5. WorkInv'
    BY <1>1, <1>2 DEF TypeOK, WorkInv, InItem
  <1>6. TodoInv'
    <2>1. ASSUME NEW u \in Clients, NEW k \in 1..Len(todo[u])
          PROVE  todo[u][k] \in Items \ {i}
      BY <1>1, TodoItem, Zenon
    <2> QED
      BY <1>2, <2>1 DEF TodoInv, callVars, AwaitsStore, AwaitsSpace
  <1>7. RingHoldsQueued'
    BY <1>1, <1>2, RingUntouched, Zenon DEF poolVars
  <1>8. CountIsOutstanding'
    BY <1>1, <1>2, CountsUntouched, Zenon DEF Outstanding
  <1>9. SignalMeansComplete' /\ SignalInv'
    BY <1>1, <1>2 DEF SignalMeansComplete, SignalInv, callVars, AwaitsSpace
  <1>10. SinceInv'
    BY <1>1, <1>2, Zenon DEF TypeOK, SinceInv, callVars
  <1> QED
    BY <1>3, <1>4, <1>5, <1>6, <1>7, <1>8, <1>9, <1>10, Zenon

\* Setting the signal of an item that has run.
LEMMA SetSignalStepInv ==
    ASSUME NEW t \in Threads, IInv, SetSignal(t)
    PROVE  IInv'
  <1> USE DEF IInv, Goto, SetSignal
  <1> DEFINE i == work[t]
  <1>1. i \in Items /\ i # NoItem /\ status[i] = "ran"
    BY DEF TypeOK, WorkInv, InItem
  <1>2. /\ status'[i] = "signalled"
        /\ \A j \in Items \ {i} : status'[j] = status[j]
        /\ pc'[t] = "body_count"
        /\ \A u \in Threads \ {t} : pc'[u] = pc[u]
    BY <1>1, Zenon DEF TypeOK
  <1>3. CountIsOutstanding'
    BY <1>1, <1>2, CountsUntouched, Zenon DEF Outstanding
  <1>4. /\ signal' \in [Signals -> BOOLEAN]
        /\ \A s \in Signals : s # SignalOf[i] => signal'[s] = signal[s]
    BY Zenon DEF TypeOK
  <1>5. TypeOK'
    BY <1>1, <1>4, Zenon DEF TypeOK, Labels, Statuses, ringVars, condVars, callVars
  <1>6. ControlInv'
    BY <1>2 DEF ControlInv, callVars, AwaitsStore, AwaitsSpace, InRange, InWait,
                InBody, InItem, InGet
  <1>7. WorkInv'
    BY <1>1, <1>2 DEF TypeOK, WorkInv, InItem
  <1>8. TodoInv'
    <2>1. ASSUME NEW u \in Clients, NEW k \in 1..Len(todo[u])
          PROVE  todo[u][k] \in Items \ {i}
      BY <1>1, TodoItem, Zenon
    <2> QED
      BY <1>2, <2>1 DEF TodoInv, callVars, AwaitsStore, AwaitsSpace
  <1>9. RingHoldsQueued'
    BY <1>1, <1>2, RingUntouched, Zenon
  <1>10. \A j \in Items : SignalOf[j] # NoSignal => SignalOf[j] \in Signals
    BY PoolAssumption, Zenon
  <1>11. SignalMeansComplete'
    BY <1>1, <1>2, <1>4, <1>10, Zenon DEF SignalMeansComplete, SignalInv
  <1>12. SignalInv'
    <2>1. ASSUME NEW u \in Clients, pc'[u] \in AwaitsSpace \cup {"enq_lock"},
                 SignalOf[Head(todo[u])] # NoSignal
          PROVE  ~signal'[SignalOf[Head(todo[u])]]
      <3>1. pc[u] \in AwaitsSpace \cup {"enq_lock"}
        BY <1>2, <2>1, Zenon DEF AwaitsSpace
      <3>3. Head(todo[u]) \in Items /\ status[Head(todo[u])] = "counted"
        BY <3>1, FirstItem, Zenon DEF AwaitsStore
      <3>5. SignalOf[Head(todo[u])] # SignalOf[i]
        BY <1>1, <2>1, <3>3, Zenon DEF SignalInv
      <3> QED
        BY <1>4, <1>10, <2>1, <3>1, <3>3, <3>5, Zenon DEF SignalInv
    <2> QED
      BY <1>2, <2>1, Zenon DEF SignalInv, callVars
  <1>13. SinceInv'
    BY <1>1, <1>2, Zenon DEF TypeOK, SinceInv, callVars
  <1> QED
    BY <1>3, <1>5, <1>6, <1>7, <1>8, <1>9, <1>11, <1>12, <1>13, Zenon

\* Decrementing the count of an item whose signal is set.
LEMMA DecrementCountStepInv ==
    ASSUME CardinalityFacts, NEW t \in Threads, IInv, DecrementCount(t)
    PROVE  IInv'
  <1> USE DEF IInv, Goto, DecrementCount
  <1> DEFINE i == work[t]
  <1>1. i \in Items /\ i # NoItem /\ status[i] = "signalled"
    BY DEF TypeOK, WorkInv, InItem
  <1>2. /\ status'[i] = "done"
        /\ \A j \in Items \ {i} : status'[j] = status[j]
        /\ pc'[t] = "body_zero"
        /\ \A u \in Threads \ {t} : pc'[u] = pc[u]
    BY <1>1, Zenon DEF TypeOK
  <1>3. CountIsOutstanding' /\ count' \in [Counts -> Nat]
    BY <1>1, <1>2, CountOneLess, Zenon DEF TypeOK, Outstanding
  <1>4. TypeOK'
    BY <1>1, <1>3, Zenon DEF TypeOK, Labels, Statuses, poolVars, ringVars, lockVars,
                      condVars, callVars
  <1>5. ControlInv'
    <2>1. ControlInv /\ pc[t] = "body_count"
      BY Zenon
    <2>2. todo' = todo /\ goal' = goal
      BY Zenon DEF callVars
    <2> QED
      BY ONLY <1>2, <2>1, <2>2 DEF ControlInv, Threads, AwaitsStore, AwaitsSpace,
                InRange, InWait, InBody, InItem, InGet
  <1>6. WorkInv'
    BY <1>1, <1>2 DEF TypeOK, WorkInv, InItem
  <1>7. TodoInv'
    <2>1. ASSUME NEW u \in Clients, NEW k \in 1..Len(todo[u])
          PROVE  todo[u][k] \in Items \ {i}
      BY <1>1, TodoItem, Zenon
    <2> QED
      BY <1>2, <2>1 DEF TodoInv, callVars, AwaitsStore, AwaitsSpace
  <1>8. RingHoldsQueued'
    BY <1>1, <1>2, RingUntouched, Zenon DEF poolVars
  <1>9. SignalMeansComplete' /\ SignalInv'
    BY <1>1, <1>2, Zenon DEF SignalMeansComplete, SignalInv, callVars, AwaitsSpace
  <1>10. SinceInv'
    BY <1>1, <1>2, Zenon DEF TypeOK, SinceInv, callVars
  <1> QED
    BY <1>3, <1>4, <1>5, <1>6, <1>7, <1>8, <1>9, <1>10, Zenon

\* Leaving the critical section of threadFuncBody, done with the item.
LEMMA TestZeroStepInv ==
    ASSUME NEW t \in Threads, IInv, TestZero(t)
    PROVE  IInv'
  <1> USE DEF IInv, Goto, TestZero
  <1>1. /\ pc'[t] \in {"body_finished", "body_done"} /\ work'[t] = NoItem
        /\ \A u \in Threads \ {t} : pc'[u] = pc[u] /\ work'[u] = work[u]
    BY Zenon DEF TypeOK
  <1>2. TypeOK'
    BY Zenon DEF TypeOK, Labels, ringVars, condVars, itemVars, callVars
  <1>3. ControlInv'
    BY <1>1 DEF ControlInv, callVars, AwaitsStore, AwaitsSpace, InRange, InWait,
                InBody, InItem, InGet
  <1>4. WorkInv'
    BY <1>1 DEF WorkInv, InItem, itemVars
  <1>5. TodoInv'
    BY <1>1 DEF TodoInv, callVars, itemVars, AwaitsStore, AwaitsSpace
  <1>6. RingHoldsQueued'
    BY Zenon DEF RingHoldsQueued, Window, ringVars, itemVars
  <1>7. CountIsOutstanding'
    BY CountsUntouched, Zenon DEF Outstanding, itemVars
  <1>8. SignalMeansComplete' /\ SignalInv' /\ SinceInv'
    BY <1>1, Zenon DEF SignalMeansComplete, SignalInv, SinceInv, callVars, itemVars,
                AwaitsSpace
  <1> QED
    BY <1>2, <1>3, <1>4, <1>5, <1>6, <1>7, <1>8, Zenon

-------------------------------------------------------------------------------
\* Every action preserves the inductive invariant

\* The calls a client may begin.
LEMMA CallInv ==
    ASSUME CardinalityFacts, NEW t \in Clients, IInv, Call(t)
    PROVE  IInv'
  <1> USE DEF IInv, Goto
  <1>1. ASSUME NEW g \in Signals \cup Counts, NEW label \in {"wait_enter", "wait_lock"},
               BeginWait(t, g, label)
        PROVE  IInv'
    <2> USE <1>1 DEF BeginWait, MayCall
    <2>1. TypeOK'
      BY Zenon DEF TypeOK, Labels, poolVars, ringVars, lockVars, condVars, itemVars,
             callVars, Covered
    <2>2. ControlInv'
      BY PoolAssumption
      DEF TypeOK, ControlInv, AwaitsStore, AwaitsSpace, InRange, InWait, InBody, InItem,
          InGet, callVars
    <2>3. since'[t] = Covered(goal'[t]) /\ Waitable(goal'[t])
      BY Zenon DEF TypeOK
    <2> QED
      BY <2>1, <2>2, <2>3, QuietStep
      DEF TypeOK, InItem, AwaitsStore, AwaitsSpace, poolVars, itemVars, callVars
  <1>2. CASE DtorStop(t)
    <2> USE <1>2 DEF DtorStop, MayCall
    <2>1. TypeOK'
      BY Zenon DEF TypeOK, Labels, poolVars, ringVars, lockVars, condVars, itemVars,
             callVars
    <2> QED
      BY <2>1, QuietMove, Zenon
      DEF ControlInv, SameRole, InItem, InBody, InWait, InRange, InGet,
          AwaitsStore, AwaitsSpace, poolVars, callVars
  <1> QED
    BY <1>1, <1>2, EnqueueStepInv, EnqueueRangeStepInv, Zenon DEF Call, Wait, WaitAll

\* The steps of enqueue and enqueue_range.
LEMMA EnqueueInv ==
    ASSUME CardinalityFacts, NEW t \in Clients, IInv, EnqueueStep(t)
    PROVE  IInv'
  <1> USE DEF IInv, Goto
  <1>1. CASE EnqueueSignal(t)
    <2> USE <1>1 DEF EnqueueSignal
    <2>1. /\ signal' \in [Signals -> BOOLEAN]
          /\ \A s \in Signals : signal'[s] => signal[s]
      BY Zenon DEF ClearSignal, TypeOK
    <2>2. \/ SignalOf[Head(todo[t])] = NoSignal
          \/ ~signal'[SignalOf[Head(todo[t])]]
      <3>1. Head(todo[t]) \in Items
        BY DEF TypeOK, ControlInv, AwaitsStore
      <3> QED
        BY <3>1, PoolAssumption, Zenon DEF ClearSignal
    <2>3. TypeOK'
      BY <2>1, Zenon DEF TypeOK, Labels, poolVars, ringVars, lockVars, condVars, itemVars,
             callVars
    <2>4. ControlInv'
      BY Zenon DEF TypeOK, ControlInv, AwaitsStore, AwaitsSpace, InRange, InWait, InBody, InItem,
             InGet, callVars
    <2> QED
      BY <2>1, <2>2, <2>3, <2>4, QuietStep, Zenon
      DEF TypeOK, InItem, AwaitsStore, AwaitsSpace, poolVars, itemVars, callVars
  <1>2. ASSUME pc[t] \in {"enq_lock", "full_relock"}, signal' = signal
        PROVE  ClearSignal(Head(todo[t]))
    <2>1. Head(todo[t]) \in Items
      BY <1>2 DEF TypeOK, ControlInv, AwaitsStore, AwaitsSpace
    <2>2. \A s \in Signals : s = SignalOf[Head(todo[t])] => signal[s] = FALSE
      BY <1>2, <2>1, PoolAssumption DEF TypeOK, SignalInv, AwaitsSpace
    <2> QED
      BY <1>2, <2>2, Zenon DEF ClearSignal, TypeOK
  <1>3. CASE EnqueueStore(t)
    BY <1>2, <1>3, StoreStep, Zenon DEF EnqueueStore, TypeOK
  <1>4. CASE EnqueueNotify(t)
    <2> USE <1>4 DEF EnqueueNotify, NotifyOne
    <2>1. TypeOK'
      BY DEF TypeOK, Labels, poolVars, ringVars, lockVars, condVars, itemVars,
             callVars
    <2> QED
      BY <2>1, QuietMove, Zenon
      DEF ControlInv, SameRole, InItem, InBody, InWait, InRange, InGet,
          AwaitsStore, AwaitsSpace, poolVars, callVars
  <1>5. CASE RangeLock(t)
    <2> USE <1>5 DEF RangeLock
    <2>1. TypeOK'
      BY Zenon DEF TypeOK, Labels, poolVars, ringVars, lockVars, condVars, itemVars,
             callVars
    <2> QED
      BY <2>1, QuietMove, Zenon
      DEF ControlInv, SameRole, InItem, InBody, InWait, InRange, InGet,
          AwaitsStore, AwaitsSpace, poolVars, callVars
  <1>6. CASE RangeCount(t)
    BY <1>6, RangeCountStepInv, Zenon
  <1>7. CASE RangeStore(t)
    BY <1>7, StoreStep, Zenon DEF RangeStore, TypeOK
  <1>8. CASE FullWait(t)
    <2> USE <1>8 DEF FullWait, NotifyOne
    <2>1. TypeOK'
      BY DEF TypeOK, Labels, poolVars, ringVars, lockVars, condVars, itemVars,
             callVars
    <2> QED
      BY <2>1, QuietMove, Zenon
      DEF ControlInv, SameRole, InItem, InBody, InWait, InRange, InGet,
          AwaitsStore, AwaitsSpace, poolVars, callVars
  <1>9. CASE FullWake(t)
    <2> USE <1>9 DEF FullWake
    <2>1. TypeOK'
      BY Zenon DEF TypeOK, Labels, poolVars, ringVars, lockVars, condVars, itemVars,
             callVars
    <2> QED
      BY <2>1, QuietMove, Zenon
      DEF ControlInv, SameRole, InItem, InBody, InWait, InRange, InGet,
          AwaitsStore, AwaitsSpace, poolVars, callVars
  <1>10. CASE FullRelock(t)
    BY <1>2, <1>10, StoreStep, Zenon DEF FullRelock, TypeOK
  <1> QED
    BY <1>1, <1>3, <1>4, <1>5, <1>6, <1>7, <1>8, <1>9, <1>10, Zenon DEF EnqueueStep

\* A wait goes on, or returns and has nothing left to outlast.
LEMMA WaitMoves ==
    ASSUME NEW t \in Clients, IInv, TypeOK', pc[t] \in InWait,
           UNCHANGED <<ringVars, count, signal, status, work, todo>>,
           \A u \in Threads \ {t} : pc'[u] = pc[u],
           \A u \in Clients \ {t} : goal'[u] = goal[u] /\ since'[u] = since[u],
           \/ pc'[t] = "idle" /\ goal'[t] = NoGoal /\ since'[t] = {}
           \/ /\ pc'[t] \in {"wait_loop", "wait_lock"}
              /\ goal'[t] = goal[t] /\ since'[t] = since[t]
    PROVE  IInv'
  <1>1. ControlInv'
    BY PoolAssumption DEF IInv, ControlInv, AwaitsStore, AwaitsSpace, InRange,
                          InWait, InBody, InItem, InGet
  <1>2. \A u \in Threads : pc'[u] = pc[u] \/ {pc[u], pc'[u]} \cap InItem = {}
    <2>1. {pc[t], pc'[t]} \cap InItem = {}
      BY Zenon DEF InWait, InItem
    <2> QED
      BY <2>1, Zenon
  <1>3. \A u \in Clients :
           /\ pc'[u] \in AwaitsStore <=> pc[u] \in AwaitsStore
           /\ pc'[u] \in AwaitsSpace \cup {"enq_lock"} =>
                 pc[u] \in AwaitsSpace \cup {"enq_lock"}
    <2>1. {pc[t], pc'[t]} \cap (AwaitsStore \cup AwaitsSpace \cup {"enq_lock"}) = {}
      BY Zenon DEF InWait, AwaitsStore, AwaitsSpace
    <2>2. \A u \in Clients \ {t} : pc'[u] = pc[u]
      BY PoolAssumption, Zenon DEF Threads
    <2> QED
      BY <2>1, <2>2, Zenon
  <1>4. \A u \in Clients : \/ since'[u] = {}
                           \/ since'[u] = since[u] /\ goal'[u] = goal[u]
    BY Zenon
  <1> QED
    BY <1>1, <1>2, <1>3, <1>4, QuietStep, Zenon

\* The steps of wait and hostWaitAll.
LEMMA WaitInv ==
    ASSUME CardinalityFacts, NEW t \in Clients, IInv, WaitStep(t)
    PROVE  IInv'
  <1> USE DEF IInv, Goto
  <1>1. CASE WaitTest(t)
    <2> USE <1>1 DEF WaitTest, Return
    <2>1. TypeOK'
      BY Zenon DEF TypeOK, Labels, poolVars, ringVars, lockVars, condVars, itemVars,
             callVars
    <2>2. /\ pc[t] \in InWait
          /\ UNCHANGED <<ringVars, count, signal, status, work, todo>>
      BY Zenon DEF InWait, poolVars, ringVars, itemVars
    <2>3. /\ \A u \in Threads \ {t} : pc'[u] = pc[u]
          /\ \A u \in Clients \ {t} : goal'[u] = goal[u] /\ since'[u] = since[u]
      BY Zenon DEF TypeOK
    <2>4. \/ pc'[t] = "idle" /\ goal'[t] = NoGoal /\ since'[t] = {}
          \/ /\ pc'[t] \in {"wait_loop", "wait_lock"}
             /\ goal'[t] = goal[t] /\ since'[t] = since[t]
      BY PoolAssumption DEF TypeOK, Threads
    <2> HIDE <1>1 DEF WaitTest, Return, IInv
    <2> QED
      BY <2>1, <2>2, <2>3, <2>4, WaitMoves, Zenon
  <1>2. CASE WaitLoop(t)
    <2> USE <1>2 DEF WaitLoop
    <2>1. TypeOK'
      BY Zenon DEF TypeOK, Labels, poolVars, ringVars, lockVars, condVars, itemVars,
             callVars
    <2> QED
      BY <2>1, QuietMove, Zenon
      DEF ControlInv, SameRole, InItem, InBody, InWait, InRange, InGet,
          AwaitsStore, AwaitsSpace, poolVars, callVars
  <1>3. CASE TryGetWork(t) /\ RingEmpty
    <2> USE <1>3 DEF TryGetWork
    <2>1. TypeOK'
      BY Zenon DEF TypeOK, Labels, poolVars, ringVars, lockVars, condVars, itemVars,
             callVars
    <2>2. /\ pc[t] = "wait_try" /\ Goto(t, "wait_test")
          /\ UNCHANGED <<ringVars, itemVars, work, todo, goal, since>>
      BY Zenon DEF itemVars, callVars
    <2>3. SameRole("wait_try", "wait_test")
      BY Zenon DEF SameRole, InItem, InBody, InWait, InRange, InGet, AwaitsStore, AwaitsSpace
    <2> QED
      BY <2>1, <2>2, <2>3, QuietMove, PoolAssumption, Zenon DEF InItem
  <1>4. CASE TryGetWork(t) /\ ~RingEmpty
    BY <1>4, TakeStep, PoolAssumption, SMTT(30) DEF TryGetWork
  <1>5. CASE WaitBlocked(t)
    <2> USE <1>5 DEF WaitBlocked, Return
    <2>1. TypeOK'
      BY Zenon DEF TypeOK, Labels, poolVars, ringVars, lockVars, condVars, itemVars,
             callVars
    <2>2. /\ pc[t] \in InWait
          /\ UNCHANGED <<ringVars, count, signal, status, work, todo>>
      BY Zenon DEF InWait, poolVars, ringVars, itemVars
    <2>3. /\ \A u \in Threads \ {t} : pc'[u] = pc[u]
          /\ \A u \in Clients \ {t} : goal'[u] = goal[u] /\ since'[u] = since[u]
      BY Zenon DEF TypeOK
    <2>4. \/ pc'[t] = "idle" /\ goal'[t] = NoGoal /\ since'[t] = {}
          \/ /\ pc'[t] \in {"wait_loop", "wait_lock"}
             /\ goal'[t] = goal[t] /\ since'[t] = since[t]
      BY PoolAssumption DEF TypeOK, Threads
    <2> HIDE <1>5 DEF WaitBlocked, Return, IInv
    <2> QED
      BY <2>1, <2>2, <2>3, <2>4, WaitMoves, Zenon
  <1> QED
    BY <1>1, <1>2, <1>3, <1>4, <1>5, Zenon DEF WaitStep

\* The steps of threadFuncBody.
LEMMA BodyInv ==
    ASSUME CardinalityFacts, NEW t \in Threads, IInv, BodyStep(t)
    PROVE  IInv'
  <1> USE DEF IInv, Goto
  <1>1. CASE NotifyFinished(t)
    <2> USE <1>1 DEF NotifyFinished
    <2>1. TypeOK'
      BY Zenon DEF TypeOK, Labels, poolVars, ringVars, lockVars, condVars, itemVars,
             callVars
    <2> QED
      BY <2>1, QuietMove, Zenon
      DEF ControlInv, SameRole, InItem, InBody, InWait, InRange, InGet,
          AwaitsStore, AwaitsSpace, poolVars, callVars
  <1>2. CASE NotifyDone(t)
    <2> USE <1>2 DEF NotifyDone
    <2>1. TypeOK'
      BY Zenon DEF TypeOK, Labels, poolVars, ringVars, lockVars, condVars, itemVars,
             callVars
    <2> DEFINE l == IF t \in Workers THEN "get_check" ELSE "wait_loop"
    <2>2. /\ pc[t] = "body_done" /\ Goto(t, l)
          /\ UNCHANGED <<ringVars, itemVars, work, todo, goal, since>>
      BY Zenon DEF poolVars, callVars
    <2>3. /\ t \in Clients => SameRole("body_done", l)
          /\ t \in Workers => l \in InGet
          /\ l \notin InItem
      BY PoolAssumption, Zenon
      DEF SameRole, InItem, InBody, InWait, InRange, InGet, AwaitsStore, AwaitsSpace
    <2> QED
      BY <2>1, <2>2, <2>3, QuietMove, Zenon DEF InItem
  <1> QED
    BY <1>1, <1>2, RunItemStepInv, SetSignalStepInv,
       DecrementCountStepInv, TestZeroStepInv, Zenon
    DEF BodyStep

\* The steps of getWork.
LEMMA WorkerInv ==
    ASSUME CardinalityFacts, NEW t \in Workers, IInv, WorkerStep(t)
    PROVE  IInv'
  <1> USE DEF IInv, Goto
  <1>1. CASE GetWorkCheck(t)
    <2> USE <1>1 DEF GetWorkCheck
    <2>1. TypeOK'
      BY Zenon DEF TypeOK, Labels, poolVars, ringVars, lockVars, condVars, itemVars,
             callVars
    <2> QED
      BY <2>1, QuietMove, Zenon
      DEF ControlInv, SameRole, InItem, InBody, InWait, InRange, InGet,
          AwaitsStore, AwaitsSpace, poolVars, callVars
  <1>2. CASE GetWork(t) /\ (RingEmpty \/ ~stayAlive)
    <2> USE <1>2 DEF GetWork
    <2>1. TypeOK'
      BY Zenon DEF TypeOK, Labels, poolVars, ringVars, lockVars, condVars, itemVars,
             callVars
    <2>2. UNCHANGED <<ringVars, itemVars, work, todo, goal, since>>
      BY Zenon DEF itemVars, callVars
    <2>3. CASE stayAlive
      BY <2>1, <2>2, <2>3, QuietSleep, Zenon
    <2>4. CASE ~stayAlive
      <3>1. pc[t] = "get_lock" /\ Goto(t, "exit") /\ t \notin Clients
        BY <2>4, PoolAssumption, Zenon
      <3> QED
        BY <2>1, <2>2, <3>1, QuietMove, Zenon DEF InItem, InGet
    <2> QED
      BY <2>3, <2>4, Zenon
  <1>3. CASE GetWork(t) /\ ~RingEmpty /\ stayAlive
    BY <1>3, TakeStep, Zenon DEF GetWork, condVars
  <1> QED
    BY <1>1, <1>2, <1>3, Zenon DEF WorkerStep, TypeOK

\* The steps of ~thread_pool_s after stayAlive is cleared.
LEMMA DtorInv ==
    ASSUME NEW t \in Clients, IInv, DtorStep(t)
    PROVE  IInv'
  <1> USE DEF IInv, Goto
  <1>1. CASE DtorNotify(t)
    <2> USE <1>1 DEF DtorNotify
    <2>1. TypeOK'
      BY Zenon DEF TypeOK, Labels, poolVars, ringVars, lockVars, condVars, itemVars,
             callVars
    <2> QED
      BY <2>1, QuietMove, Zenon
      DEF ControlInv, SameRole, InItem, InBody, InWait, InRange, InGet,
          AwaitsStore, AwaitsSpace, poolVars, callVars
  <1>2. CASE DtorJoin(t)
    <2> USE <1>2 DEF DtorJoin
    <2>1. TypeOK'
      BY Zenon DEF TypeOK, Labels, poolVars, ringVars, lockVars, condVars, itemVars,
             callVars
    <2> QED
      BY <2>1, QuietMove, Zenon
      DEF ControlInv, SameRole, InItem, InBody, InWait, InRange, InGet,
          AwaitsStore, AwaitsSpace, poolVars, callVars
  <1> QED
    BY <1>1, <1>2, Zenon DEF DtorStep

\* Wake-ups without a notification.
LEMMA SpuriousInv ==
    ASSUME NEW t \in Threads, IInv, SpuriousWake(t)
    PROVE  IInv'
  <1> USE DEF IInv
  <1>1. CASE SpuriousWake(t)
    <2> USE <1>1 DEF SpuriousWake
    <2>1. TypeOK'
      BY Zenon DEF TypeOK, Labels, poolVars, ringVars, lockVars, condVars, itemVars,
             callVars
    <2> QED
      BY <2>1, QuietSleep, Zenon DEF poolVars, callVars
  <1> QED
    BY <1>1, Zenon

\* The pool as its constructor leaves it satisfies the inductive invariant.
LEMMA InitInv == CardinalityFacts /\ Init => IInv
  <1> SUFFICES ASSUME CardinalityFacts, Init PROVE IInv
    BY Zenon
  <1> USE PoolAssumption DEF Init
  <1>1. TypeOK
    BY DEF TypeOK, Indices, Labels, Statuses
  <1>2. ControlInv
    BY Zenon DEF ControlInv, AwaitsStore, AwaitsSpace, InRange, InWait, InBody, InItem, InGet
  <1>3. WorkInv /\ TodoInv
    BY DEF WorkInv, TodoInv, InItem
  <1>4. RingHoldsQueued
    BY DEF RingHoldsQueued, Window, Indices
  <1>5. CountIsOutstanding
    <2>1. \A c \in Counts : {i \in Items : CountOf[i] = c /\ Outstanding(i)} = {}
      BY Zenon DEF Outstanding
    <2> QED
      BY <2>1, Zenon DEF CardinalityFacts, CountIsOutstanding
  <1>6. SignalMeansComplete /\ SignalInv /\ SinceInv
    BY Zenon DEF SignalMeansComplete, SignalInv, SinceInv, AwaitsSpace
  <1> QED
    BY <1>1, <1>2, <1>3, <1>4, <1>5, <1>6, Zenon DEF IInv

\* Every step of every thread preserves the inductive invariant.
LEMMA NextInv == CardinalityFacts /\ IInv /\ [Next]_vars => IInv'
  <1> SUFFICES ASSUME CardinalityFacts, IInv, [Next]_vars PROVE IInv'
    BY Zenon
  <1>1. CASE UNCHANGED vars
    <2> USE <1>1 DEF vars, poolVars, ringVars, lockVars, condVars, itemVars, callVars
    <2>1. TypeOK' /\ ControlInv'
      BY Zenon DEF IInv, TypeOK, ControlInv
    <2> QED
      BY <2>1, QuietStep, Zenon
  <1>2. CASE Next
    BY <1>1, <1>2, CallInv, EnqueueInv, WaitInv, BodyInv, WorkerInv, DtorInv,
       SpuriousInv, Zenon
    DEF Next, ClientStep, Terminated
  <1> QED
    BY <1>1, <1>2, Zenon

\* Only the two tests of wait end a wait, and only when its goal is reached.
LEMMA WaitEnds ==
    ASSUME IInv, Next, NEW t \in Clients, goal[t] # NoGoal, goal'[t] = NoGoal
    PROVE  Satisfied(goal[t])
  <1> USE DEF callVars
  <1>0. goal \in [Clients -> Signals \cup Counts \cup {NoGoal}] /\ goal' # goal
    BY Zenon DEF IInv, TypeOK
  <1>1. ASSUME NEW u \in Clients, Call(u) PROVE FALSE
    <2>1. ASSUME NEW g \in Signals \cup Counts, NEW label, BeginWait(u, g, label)
          PROVE  FALSE
      BY <1>0, <2>1, PoolAssumption, SMTT(30) DEF BeginWait
    <2> QED
      BY <1>0, <1>1, <2>1, Zenon DEF Call, Enqueue, EnqueueRange, DtorStop, Wait, WaitAll
  <1>2. ASSUME NEW u \in Clients, EnqueueStep(u) PROVE FALSE
    BY <1>0, <1>2, Zenon DEF EnqueueStep, EnqueueSignal, EnqueueStore, EnqueueNotify,
       RangeLock, RangeCount, RangeStore, FullWait, FullWake, FullRelock
  <1>3. ASSUME NEW u \in Clients, WaitStep(u) PROVE Satisfied(goal[t])
    <2>1. CASE WaitTest(u) \/ WaitBlocked(u)
      BY <1>0, <2>1, SMTT(30) DEF WaitTest, WaitBlocked, Return
    <2>2. CASE WaitLoop(u) \/ TryGetWork(u)
      BY <1>0, <2>2, Zenon DEF WaitLoop, TryGetWork
    <2> QED
      BY <1>3, <2>1, <2>2, SMTT(30) DEF WaitStep
  <1>4. ASSUME NEW u \in Threads, BodyStep(u) PROVE FALSE
    BY <1>0, <1>4, Zenon DEF BodyStep, RunItem, SetSignal, DecrementCount,
       TestZero, NotifyFinished, NotifyDone
  <1>5. ASSUME NEW u \in Workers, WorkerStep(u) PROVE FALSE
    BY <1>0, <1>5, Zenon DEF WorkerStep, GetWorkCheck, GetWork
  <1>6. ASSUME NEW u \in Clients, DtorStep(u) PROVE FALSE
    BY <1>0, <1>6, Zenon DEF DtorStep, DtorNotify, DtorJoin
  <1>7. ASSUME NEW u \in Threads, SpuriousWake(u) PROVE FALSE
    BY <1>0, <1>7, Zenon DEF SpuriousWake
  <1> QED
    BY <1>0, <1>1, <1>2, <1>3, <1>4, <1>5, <1>6, <1>7, Zenon
    DEF Next, ClientStep, Terminated, vars
===============================================================================
