---------------------------- MODULE RiscvQueueProofs ----------------------------
(***************************************************************************)
(* The queue of the RISC-V target for any number of clients, command       *)
(* buffers, semaphores and fences.                                         *)
(***************************************************************************)
EXTENDS RiscvQueue, TLAPS

USE RiscvAssumption

\* A new queue.
LEMMA InitIInv == Init => IInv
  <1> SUFFICES ASSUME Init PROVE IInv
    BY Zenon
  <1>1. pending \in Seq(Groups)
    BY DEF Init
  <1>2. TypeOK
    BY <1>1, Zenon DEF Init, TypeOK
  <1> QED
    BY <1>2 DEF Init, IInv, WorkerInv, Busy, PendingInv, FenceInv, FailInv, SinceInv, Idle

\* run: a dispatch executes when nothing it waits for was terminated.
LEMMA BeginInv ==
    ASSUME IInv, Begin
    PROVE  IInv'
  <1> USE DEF Begin, IInv, semVars, fenceVars, clientVars
  <1>1. TypeOK'
    BY DEF TypeOK, WorkerInv, Busy
  <1> QED
    BY <1>1 DEF TypeOK, WorkerInv, Busy, PendingInv, FenceInv, FailInv, SinceInv, Idle

\* execute: an error makes the dispatch a failed one.
LEMMA ExecuteInv ==
    ASSUME IInv, Execute
    PROVE  IInv'
  <1> USE DEF Execute, IInv, semVars, fenceVars, clientVars
  <1>1. TypeOK'
    BY Zenon DEF TypeOK, WorkerInv, Busy
  <1> QED
    BY <1>1 DEF TypeOK, WorkerInv, Busy, PendingInv, FenceInv, FailInv, SinceInv, Idle

\* run: the user_function has returned.
LEMMA NotifyUserInv ==
    ASSUME IInv, NotifyUser
    PROVE  IInv'
  <1> USE DEF NotifyUser, IInv, semVars, fenceVars, clientVars
  <1>1. TypeOK'
    BY Zenon DEF TypeOK, WorkerInv, Busy
  <1> QED
    BY <1>1 DEF TypeOK, WorkerInv, Busy, PendingInv, FenceInv, FailInv, SinceInv, Idle

\* run: the queue's mutex is released, the command buffer's is not.
LEMMA UnlockQueueInv ==
    ASSUME IInv, UnlockQueue
    PROVE  IInv'
  <1> USE DEF UnlockQueue, IInv, semVars, fenceVars, clientVars
  <1>1. TypeOK'
    BY Zenon DEF TypeOK, WorkerInv, Busy
  <1> QED
    BY <1>1 DEF TypeOK, WorkerInv, Busy, PendingInv, FenceInv, FailInv, SinceInv, Idle

\* run: the dispatch no longer uses its command buffer.
LEMMA UnlockBufferInv ==
    ASSUME IInv, UnlockBuffer
    PROVE  IInv'
  <1> USE DEF UnlockBuffer, IInv, semVars, fenceVars, clientVars
  <1>1. TypeOK'
    BY Zenon DEF TypeOK, WorkerInv, Busy
  <1> QED
    BY <1>1 DEF TypeOK, WorkerInv, Busy, PendingInv, FenceInv, FailInv, SinceInv, Idle

\* run: nothing runs any more, the waiters are notified.
LEMMA FinishInv ==
    ASSUME IInv, Finish
    PROVE  IInv'
  <1> USE DEF Finish, IInv, semVars, fenceVars, clientVars, WakeClients
  <1>1. TypeOK'
    BY Zenon DEF TypeOK, WorkerInv, Busy
  <1> QED
    BY <1>1 DEF TypeOK, WorkerInv, Busy, PendingInv, FenceInv, FailInv, SinceInv, Idle

\* tryWait returns.
LEMMA TryWaitReturnInv ==
    ASSUME IInv, NEW c \in Clients, TryWaitReturn(c)
    PROVE  IInv'
  <1> USE DEF TryWaitReturn, IInv, semVars, fenceVars, clientVars
  <1>1. TypeOK'
    <2>1. pc[c] = "poll" => result[goal[c]] \in {"not_ready", "success", "failure"}
      BY Zenon DEF TypeOK, FenceInv
    <2>2. got' \in [Clients -> {"none", "not_ready", "success", "failure"}]
      BY <2>1, Zenon DEF TypeOK
    <2>3. /\ goal' \in [Clients -> Fences \cup {NoFence}]
          /\ pc' \in [Clients -> {"idle", "block", "poll", "wait_all", "wait_all_asleep",
                                  "all_done", "join", "destroyed"}]
      BY Zenon DEF TypeOK
    <2> QED
      BY <2>2, <2>3, Zenon DEF TypeOK
  <1> QED
    BY <1>1 DEF TypeOK, WorkerInv, Busy, PendingInv, FenceInv, FailInv, SinceInv, Idle

\* riscvWaitAll tests its predicate: all dispatches are complete when it holds.
LEMMA WaitAllInv ==
    ASSUME IInv, NEW c \in Clients, WaitAll(c)
    PROVE  IInv'
  <1> USE DEF WaitAll, IInv, semVars, fenceVars, clientVars
  <1>1. TypeOK'
    BY DEF TypeOK, WorkerInv, Busy
  <1> QED
    BY <1>1 DEF TypeOK, WorkerInv, Busy, PendingInv, FenceInv, FailInv, SinceInv, Idle

\* riscvWaitAll returns.
LEMMA WaitAllReturnInv ==
    ASSUME IInv, NEW c \in Clients, WaitAllReturn(c)
    PROVE  IInv'
  <1> USE DEF WaitAllReturn, IInv, semVars, fenceVars, clientVars
  <1>1. TypeOK'
    BY Zenon DEF TypeOK, WorkerInv, Busy
  <1> QED
    BY <1>1 DEF TypeOK, WorkerInv, Busy, PendingInv, FenceInv, FailInv, SinceInv, Idle

\* ~queue_s tells the queue thread to end.
LEMMA DestroyInv ==
    ASSUME IInv, NEW c \in Clients, Destroy(c)
    PROVE  IInv'
  <1> USE DEF Destroy, IInv, semVars, fenceVars, clientVars, WakeWorker
  <1>1. TypeOK'
    BY Zenon DEF TypeOK, WorkerInv, Busy
  <1> QED
    BY <1>1 DEF TypeOK, WorkerInv, Busy, PendingInv, FenceInv, FailInv, SinceInv, Idle

\* ~queue_s joins the queue thread.
LEMMA JoinInv ==
    ASSUME IInv, NEW c \in Clients, Join(c)
    PROVE  IInv'
  <1> USE DEF Join, IInv, semVars, fenceVars, clientVars
  <1>1. TypeOK'
    BY Zenon DEF TypeOK, WorkerInv, Busy
  <1> QED
    BY <1>1 DEF TypeOK, WorkerInv, Busy, PendingInv, FenceInv, FailInv, SinceInv, Idle

\* riscvTryWait begins.
LEMMA TryWaitInv ==
    ASSUME IInv, NEW c \in Clients, NEW f \in Fences, TryWait(c, f)
    PROVE  IInv'
  <1> USE DEF TryWait, IInv, semVars, fenceVars, clientVars
  <1>1. TypeOK'
    BY DEF TypeOK, WorkerInv, Busy
  <1> QED
    BY <1>1 DEF TypeOK, WorkerInv, Busy, PendingInv, FenceInv, FailInv, SinceInv, Idle

\* riscvResetFence, of a fence no dispatch uses.
LEMMA ResetFenceInv ==
    ASSUME IInv, NEW c \in Clients, NEW f \in Fences, ResetFence(c, f)
    PROVE  IInv'
  <1> USE DEF ResetFence, IInv, semVars, fenceVars, clientVars, ResetOf
  <1>1. TypeOK'
    BY Zenon DEF TypeOK, WorkerInv, Busy
  <1> QED
    BY <1>1 DEF TypeOK, WorkerInv, Busy, PendingInv, FenceInv, FailInv, SinceInv, Idle

\* riscvResetSemaphore, of a semaphore no dispatch uses.
LEMMA ResetSemaphoreInv ==
    ASSUME IInv, NEW c \in Clients, NEW s \in Semaphores, ResetSemaphore(c, s)
    PROVE  IInv'
  <1> USE DEF ResetSemaphore, IInv, semVars, fenceVars, clientVars
  <1>1. TypeOK'
    BY Zenon DEF TypeOK, WorkerInv, Busy
  <1> QED
    BY <1>1 DEF TypeOK, WorkerInv, Busy, PendingInv, FenceInv, FailInv, SinceInv, Idle

\* A wait ends for nothing.
LEMMA SpuriousWakeInv ==
    ASSUME IInv, SpuriousWake
    PROVE  IInv'
  <1> USE DEF SpuriousWake, IInv, semVars, fenceVars, clientVars, WakeClients, WakeWorker
  <1>1. TypeOK'
    BY DEF TypeOK, WorkerInv, Busy
  <1> QED
    BY <1>1 DEF TypeOK, WorkerInv, Busy, PendingInv, FenceInv, FailInv, SinceInv, Idle

\* The semaphores and the fence of the dispatch are its own.
LEMMA SignalInv ==
    ASSUME IInv, Signal
    PROVE  IInv'
  <1> USE DEF Signal, IInv, semVars, fenceVars, clientVars, Terminated
  <1> job \in Groups /\ stage[job] = "called" /\ ~Idle(job)
    BY Zenon DEF WorkerInv, Busy, Idle
  <1>1. TypeOK'
    <2>1. SignalsOf[job] \subseteq Semaphores
      BY Zenon
    <2>2. signalled' \in SUBSET Semaphores /\ terminated' \in SUBSET Semaphores
      BY <2>1, Zenon DEF TypeOK
    <2>3. completed' \in [Fences -> BOOLEAN]
      BY Zenon DEF TypeOK
    <2>4. result' \in [Fences -> {"not_ready", "success", "failure"}]
      BY Zenon DEF TypeOK
    <2> QED
      BY <2>2, <2>3, <2>4, Zenon DEF TypeOK
  <1>2. WorkerInv'
    BY Zenon DEF WorkerInv, Busy
  <1>3. PendingInv'
    BY Zenon DEF PendingInv
  <1>4. FenceInv'
    <2>1. \A f \in Fences : result'[f] # "not_ready" => completed'[f]
      BY Zenon DEF FenceInv, TypeOK
    <2>2. ASSUME NEW f \in Fences, completed'[f], NEW g \in Groups, FenceOf[g] = f
          PROVE  Idle(g) \/ stage[g] = "called"
      <3>1. CASE f = FenceOf[job]
        BY <2>2, <3>1, Zenon DEF FenceInv
      <3>2. CASE f # FenceOf[job]
        BY <2>2, <3>2, Zenon DEF FenceInv
      <3> QED
        BY <3>1, <3>2, Zenon
    <2> QED
      BY <2>1, <2>2, Zenon DEF FenceInv, Idle
  <1>5. FailInv'
    <2>1. job \in failed => outcome = "failure"
      BY Zenon DEF FailInv
    <2>2. ASSUME OneSignaller, NEW g \in failed,
                 Idle(g) \/ job = g, NEW s \in SignalsOf[g], s \in signalled'
          PROVE  s \in terminated'
      <3>1. CASE job = g
        BY <2>1, <2>2, <3>1, Zenon
      <3>2. CASE job # g
        <4>1. Idle(g)
          BY <2>2, <3>2, Zenon
        <4>2. s \notin SignalsOf[job]
          BY <2>2, <3>2, Zenon DEF OneSignaller, TypeOK
        <4>3. s \in terminated
          BY <2>2, <4>1, <4>2, Zenon DEF FailInv
        <4> QED
          BY <4>3, Zenon
      <3> QED
        BY <3>1, <3>2, Zenon
    <2>3. (\A g \in failed : stage[g] # "pending")'
      BY Zenon DEF FailInv
    <2>4. ASSUME OneSignaller
          PROVE  \A g \in failed :
                    Idle(g) \/ (job = g /\ worker' \in {"unlock", "unlock_buffer"}) =>
                    SignalsOf[g] \cap signalled' \subseteq terminated'
      BY <2>2, <2>4, Zenon
    <2> QED
      BY <2>3, <2>4, Zenon DEF FailInv, Idle
  <1>6. SinceInv'
    BY Zenon DEF SinceInv
  <1> QED
    BY <1>1, <1>2, <1>3, <1>4, <1>5, <1>6, Zenon

\* Only the fence is touched when an allocation fails.
LEMMA RefusedInv ==
    ASSUME IInv, NEW g \in Groups, MayDispatch(g), ResetOf({FenceOf[g]}),
           UNCHANGED <<pending, running, terminate, semVars, worker, job, outcome, pc,
                       clientVars, stage, times, failed>>
    PROVE  IInv'
  <1> USE DEF ResetOf, IInv, semVars, clientVars
  <1>1. TypeOK'
    BY Zenon DEF TypeOK
  <1>2. FenceInv'
    BY Zenon DEF FenceInv, Idle
  <1>3. WorkerInv' /\ PendingInv'
    BY Zenon DEF WorkerInv, Busy, PendingInv
  <1>4. FailInv' /\ SinceInv'
    BY DEF FailInv, SinceInv, Idle
  <1> QED
    BY <1>1, <1>2, <1>3, <1>4, Zenon

\* queue_s::dispatch: the dispatch joins the list, with a fence of its own.
LEMMA AcceptedInv ==
    ASSUME IInv, NEW g \in Groups, MayDispatch(g), ~Uses(g), ResetOf({FenceOf[g]}),
           pending' = Append(pending, g), stage' = [stage EXCEPT ![g] = "pending"],
           times' = [times EXCEPT ![g] = @ + 1], failed' = failed \ {g}, WakeWorker,
           UNCHANGED <<running, terminate, semVars, job, outcome, pc, clientVars>>
    PROVE  IInv'
  <1> USE DEF IInv, semVars, clientVars
  <1> Idle(g) /\ (job = g => worker = "finish")
    BY Zenon DEF MayDispatch, WorkerInv, Busy, Idle, TypeOK
  <1> /\ stage'[g] = "pending" /\ times'[g] = times[g] + 1
      /\ \A h \in Groups : h # g => stage'[h] = stage[h] /\ times'[h] = times[h]
    BY Zenon DEF TypeOK
  <1> /\ worker' = worker \/ (worker = "asleep" /\ worker' = "wait")
      /\ running' = running /\ job' = job
    BY Zenon DEF WakeWorker
  <1>1. TypeOK'
    <2>1. pending' \in Seq(Groups)
      BY DEF TypeOK
    <2>2. /\ stage' \in [Groups -> {"idle", "pending", "running", "called", "complete"}]
          /\ times' \in [Groups -> Nat]
      BY DEF TypeOK
    <2>3. /\ completed' \in [Fences -> BOOLEAN]
          /\ result' \in [Fences -> {"not_ready", "success", "failure"}]
      BY Zenon DEF ResetOf, TypeOK
    <2> QED
      BY <2>1, <2>2, <2>3, Zenon DEF TypeOK
  <1>2. WorkerInv'
    BY DEF WorkerInv, Busy, Idle
  <1>3. PendingInv'
    <2>1. /\ DOMAIN pending = 1..Len(pending) /\ Len(pending) \in Nat
          /\ DOMAIN pending' = 1..(Len(pending) + 1)
          /\ pending'[Len(pending) + 1] = g
          /\ \A k \in DOMAIN pending : pending'[k] = pending[k] /\ pending[k] \in Groups
      BY DEF TypeOK
    <2>2. \A k \in DOMAIN pending : pending[k] # g
      BY Zenon DEF PendingInv, Idle
    <2>3. \A k \in DOMAIN pending' :
            k = Len(pending) + 1 \/ (k \in DOMAIN pending /\ pending'[k] = pending[k])
      <3>1. \A k \in 1..(Len(pending) + 1) : k = Len(pending) + 1 \/ k \in 1..Len(pending)
        BY <2>1
      <3> QED
        BY <2>1, <3>1, Zenon
    <2>4. \A k \in DOMAIN pending' : stage'[pending'[k]] = "pending"
      BY <2>1, <2>3 DEF PendingInv
    <2>5. \A h \in Groups : stage'[h] = "pending" =>
            \E k \in DOMAIN pending' : pending'[k] = h
      <3>1. Len(pending) + 1 \in DOMAIN pending' /\ DOMAIN pending \subseteq DOMAIN pending'
        BY <2>1
      <3> SUFFICES ASSUME NEW h \in Groups, stage'[h] = "pending"
                   PROVE  \E k \in DOMAIN pending' : pending'[k] = h
        BY Zenon
      <3>2. CASE h = g
        BY <2>1, <3>1, <3>2, Zenon
      <3>3. CASE h # g
        <4>1. PICK k \in DOMAIN pending : pending[k] = h
          BY <3>3, Zenon DEF PendingInv
        <4> QED
          BY <2>1, <3>1, <4>1, Zenon
      <3> QED
        BY <3>2, <3>3, Zenon
    <2>6. \A k, l \in DOMAIN pending' : pending'[k] = pending'[l] => k = l
      BY <2>1, <2>2, <2>3 DEF PendingInv
    <2> QED
      BY <2>4, <2>5, <2>6, Zenon DEF PendingInv
  <1>4. FenceInv'
    <2>1. \A f \in Fences :
            /\ completed'[f] <=> f # FenceOf[g] /\ completed[f]
            /\ result'[f] # "not_ready" => f # FenceOf[g] /\ result[f] # "not_ready"
      BY Zenon DEF ResetOf
    <2>2. \A h \in Groups : h # g => (Idle(h)' <=> Idle(h))
      BY Zenon DEF Idle
    <2>3. \A h \in Groups : FenceOf[h] = FenceOf[g] /\ FenceOf[g] # NoFence => Idle(h)
      BY Zenon DEF MayDispatch
    <2> QED
      BY <2>1, <2>2, <2>3 DEF FenceInv, Idle
  <1>5. FailInv'
    <2>1. \A h \in failed' : h \in failed /\ stage'[h] = stage[h]
      OBVIOUS
    <2> QED
      BY <2>1, Zenon DEF FailInv, Idle
  <1>6. SinceInv'
    <2>1. \A h \in Groups : stage'[h] = "idle" <=> times'[h] = 0
      BY DEF SinceInv, TypeOK
    <2>2. ASSUME NEW c \in Clients, NEW d \in since[c]
          PROVE  /\ 0 < d[2] /\ d[2] <= times'[d[1]]
                 /\ pc[c] = "all_done" /\ times'[d[1]] = d[2] => stage'[d[1]] = "complete"
      <3>1. d[1] \in Groups /\ d[2] \in Nat
        BY DEF TypeOK
      <3>2. 0 < d[2] /\ d[2] <= times[d[1]] /\ times[d[1]] \in Nat
        BY <3>1, Zenon DEF SinceInv, TypeOK
      <3>3. CASE d[1] = g
        BY <3>1, <3>2, <3>3
      <3>4. CASE d[1] # g
        BY <3>1, <3>2, <3>4 DEF SinceInv
      <3> QED
        BY <3>3, <3>4, Zenon
    <2> QED
      BY <2>1, <2>2 DEF SinceInv
  <1> QED
    BY <1>1, <1>2, <1>3, <1>4, <1>5, <1>6, Zenon

\* Both outcomes of a dispatch.
LEMMA DispatchInv ==
    ASSUME IInv, NEW t \in Clients \cup {Worker}, NEW g \in Groups, Dispatch(t, g)
    PROVE  IInv'
  BY RefusedInv, AcceptedInv, Zenon DEF Dispatch

\* The dispatch that is taken leaves the list, the others keep their order.
LEMMA TakenInv ==
    ASSUME IInv, worker = "wait", NEW k \in Find,
           job' = pending[k], stage' = [stage EXCEPT ![pending[k]] = "running"],
           pending' = [i \in 1..(Len(pending) - 1) |-> pending[IF i < k THEN i ELSE i + 1]],
           running' = TRUE, worker' = "lock",
           UNCHANGED <<terminate, semVars, fenceVars, outcome, pc, clientVars, times, failed>>
    PROVE  IInv'
  <1> USE DEF IInv, semVars, fenceVars, clientVars
  <1> /\ DOMAIN pending = 1..Len(pending) /\ Len(pending) \in Nat
      /\ k \in DOMAIN pending /\ pending[k] \in Groups
    BY DEF Find, TypeOK
  <1> stage[pending[k]] = "pending" /\ ~Busy
    BY Zenon DEF PendingInv, Busy
  <1> /\ stage'[pending[k]] = "running"
      /\ \A h \in Groups : h # pending[k] => stage'[h] = stage[h]
    BY Zenon DEF TypeOK
  <1>1. TypeOK'
    <2>1. \A i \in 1..(Len(pending) - 1) : pending[IF i < k THEN i ELSE i + 1] \in Groups
      BY DEF TypeOK
    <2>2. pending' \in Seq(Groups)
      BY <2>1
    <2>3. stage' \in [Groups -> {"idle", "pending", "running", "called", "complete"}]
      BY Zenon DEF TypeOK
    <2> QED
      BY <2>2, <2>3, Zenon DEF TypeOK
  <1>2. WorkerInv'
    BY Zenon DEF WorkerInv, Busy
  <1>3. PendingInv'
    <2>1. DOMAIN pending' = 1..(Len(pending) - 1)
      BY Zenon
    <2> DEFINE Old(i) == IF i < k THEN i ELSE i + 1
    <2>2. \A i \in DOMAIN pending' :
            pending'[i] = pending[Old(i)] /\ Old(i) \in DOMAIN pending /\ Old(i) # k
      BY <2>1
    <2>3. \A i, j \in DOMAIN pending' : Old(i) = Old(j) => i = j
      BY <2>1
    <2>4. \A l \in DOMAIN pending : l # k => \E i \in DOMAIN pending' : Old(i) = l
      <3> SUFFICES ASSUME NEW l \in DOMAIN pending, l # k
                   PROVE  \E i \in DOMAIN pending' : Old(i) = l
        BY Zenon
      <3>1. CASE l < k
        <4>1. l \in DOMAIN pending' /\ Old(l) = l
          BY <2>1, <3>1
        <4> QED
          BY <4>1, Zenon
      <3>2. CASE l > k
        <4>1. l - 1 \in DOMAIN pending' /\ Old(l - 1) = l
          BY <2>1, <3>2
        <4> QED
          BY <4>1, Zenon
      <3> QED
        BY <3>1, <3>2
    <2> HIDE DEF Old
    <2>5. \A l \in DOMAIN pending : l # k =>
            /\ pending[l] \in Groups /\ pending[l] # pending[k]
            /\ stage'[pending[l]] = stage[pending[l]]
      BY DEF PendingInv, TypeOK
    <2>6. \A i \in DOMAIN pending' : stage'[pending'[i]] = "pending"
      BY <2>2, <2>5 DEF PendingInv
    <2>7. ASSUME NEW h \in Groups, stage'[h] = "pending"
          PROVE  \E i \in DOMAIN pending' : pending'[i] = h
      <3>1. h # pending[k] /\ stage[h] = "pending"
        BY <2>7, Zenon
      <3>2. PICK l \in DOMAIN pending : pending[l] = h
        BY <3>1, Zenon DEF PendingInv
      <3>3. PICK i \in DOMAIN pending' : Old(i) = l
        BY <2>4, <3>1, <3>2, Zenon
      <3> QED
        BY <2>2, <3>2, <3>3, Zenon
    <2>8. \A i, j \in DOMAIN pending' : pending'[i] = pending'[j] => i = j
      BY <2>2, <2>3 DEF PendingInv
    <2> QED
      BY <2>6, <2>7, <2>8, Zenon DEF PendingInv
  <1>4. FenceInv'
    <2>1. \A h \in Groups : /\ Idle(h)' <=> Idle(h)
                           /\ (stage'[h] = "called" <=> stage[h] = "called")
      BY Zenon DEF Idle
    <2> QED
      BY <2>1, Zenon DEF FenceInv
  <1>5. FailInv'
    <2>1. pending[k] \notin failed
      BY Zenon DEF FailInv
    <2>2. \A g \in failed : stage'[g] = stage[g]
      BY <2>1, Zenon DEF TypeOK
    <2> QED
      BY <2>1, <2>2, Zenon DEF FailInv, Idle
  <1>6. SinceInv'
    <2>1. \A g \in Groups : (stage'[g] = "idle" <=> stage[g] = "idle")
                            /\ (stage'[g] = "complete" <=> stage[g] = "complete")
      BY Zenon
    <2> QED
      BY <2>1 DEF SinceInv, TypeOK
  <1> QED
    BY <1>1, <1>2, <1>3, <1>4, <1>5, <1>6, Zenon

\* The queue thread sleeps or leaves when it takes nothing.
LEMMA FetchInv ==
    ASSUME IInv, Fetch
    PROVE  IInv'
  <1>1. CASE UNCHANGED <<pending, running, job, stage>> /\ worker' \in {"exited", "asleep"}
    <2> USE <1>1 DEF Fetch, IInv, semVars, fenceVars, clientVars
    <2>1. TypeOK'
      BY Zenon DEF TypeOK
    <2>2. WorkerInv' /\ PendingInv'
      BY Zenon DEF WorkerInv, Busy, PendingInv
    <2>3. FenceInv' /\ FailInv' /\ SinceInv'
      BY DEF FenceInv, FailInv, SinceInv, Idle
    <2> QED
      BY <2>1, <2>2, <2>3, Zenon
  <1> QED
    BY <1>1, TakenInv, Zenon DEF Fetch

\* Every step keeps the invariant.
LEMMA NextIInv == IInv /\ [Next]_vars => IInv'
  <1> SUFFICES ASSUME IInv, [Next]_vars PROVE IInv'
    BY Zenon
  <1>1. CASE UNCHANGED vars
    <2> USE <1>1 DEF IInv, vars, semVars, fenceVars, clientVars
    <2>1. TypeOK' /\ WorkerInv' /\ PendingInv'
      BY Zenon DEF TypeOK, WorkerInv, Busy, PendingInv
    <2>2. FenceInv' /\ SinceInv'
      BY DEF FenceInv, SinceInv, Idle
    <2> QED
      BY <2>1, <2>2, Zenon DEF FailInv, Idle
  <1>2. CASE Run
    BY <1>2, FetchInv, BeginInv, ExecuteInv, NotifyUserInv, SignalInv, UnlockQueueInv,
       UnlockBufferInv, FinishInv, Zenon DEF Run
  <1>3. CASE \E t \in Clients \cup {Worker}, g \in Groups : Dispatch(t, g)
    BY <1>3, DispatchInv, Zenon
  <1>4. ASSUME NEW c \in Clients, Call(c) PROVE IInv'
    BY <1>4, TryWaitInv, ResetFenceInv, ResetSemaphoreInv, WaitAllInv, DestroyInv, Zenon DEF Call
  <1>5. ASSUME NEW c \in Clients, InCall(c) PROVE IInv'
    BY <1>5, TryWaitReturnInv, WaitAllInv, WaitAllReturnInv, JoinInv, Zenon DEF InCall
  <1> QED
    BY <1>1, <1>2, <1>3, <1>4, <1>5, SpuriousWakeInv, Zenon DEF Next

\* The members of the queue, its thread and its fences keep the inductive
\* invariant, whatever is dispatched when.
THEOREM RiscvInvariance == Spec => []IInv
  BY InitIInv, NextIInv, PTL DEF Spec

\* riscvWaitAll: once it returns, the queue thread does not touch the command
\* buffers it waited for.
THEOREM WaitAllIsSound == Spec => []WaitAllMeansUnused
  <1>1. IInv => WaitAllMeansUnused
    BY DEF IInv, TypeOK, WorkerInv, SinceInv, WaitAllMeansUnused, Uses
  <1> QED
    BY <1>1, RiscvInvariance, PTL

\* queue_s::run: where each semaphore has one command buffer that signals it, a
\* failure reaches all that waits for it.
THEOREM FailureIsSound == Spec => [](OneSignaller => FailurePropagates)
  <1>1. IInv => (OneSignaller => FailurePropagates)
    <2> SUFFICES ASSUME IInv, OneSignaller, NEW g \in Groups, NEW h \in Groups,
                        h \in failed, Idle(h), SignalsOf[h] \cap WaitsOf[g] # {},
                        SignalsOf[h] \subseteq signalled, job = g,
                        worker \in {"execute", "callback", "signal"}
                 PROVE  worker # "execute" /\ outcome = "failure"
      BY Zenon DEF FailurePropagates
    <2>1. SignalsOf[h] \cap signalled \subseteq terminated
      BY Zenon DEF IInv, FailInv
    <2>2. WaitsOf[job] \cap terminated # {}
      BY <2>1, Zenon
    <2> QED
      BY <2>2, Zenon DEF IInv, FailInv
  <1> QED
    BY <1>1, RiscvInvariance, PTL

\* fence::tryWait: what a wait on a fence says is final.
THEOREM TryWaitIsSound == Spec => TryWaitIsFinal
  <1> DEFINE Final ==
        \A c \in Clients :
          pc[c] \in {"block", "poll"} /\ pc'[c] = "idle" /\ got'[c] # "not_ready" =>
          \A g \in Groups : FenceOf[g] = goal[c] =>
             Idle(g) \/ (job = g /\ stage[g] = "called")
  <1>1. ASSUME IInv, [Next]_vars, NEW c \in Clients,
               pc[c] \in {"block", "poll"}, pc'[c] = "idle"
        PROVE  TryWaitReturn(c)
    <2> USE <1>1
    <2> pc \in [Clients -> {"idle", "block", "poll", "wait_all", "wait_all_asleep",
                            "all_done", "join", "destroyed"}]
      BY Zenon DEF IInv, TypeOK
    <2>1. CASE UNCHANGED vars
      BY <2>1, Zenon DEF vars
    <2>2. ASSUME Run PROVE FALSE
      <3>1. CASE Finish
        BY <3>1, Zenon DEF Finish, WakeClients
      <3>2. CASE Run /\ pc' = pc
        BY <3>2, Zenon
      <3> QED
        BY <2>2, <3>1, <3>2, Zenon DEF Run, Fetch, Begin, Execute, NotifyUser, Signal,
           UnlockQueue, UnlockBuffer
    <2>3. CASE SpuriousWake
      BY <2>3, Zenon DEF SpuriousWake, WakeClients
    <2>4. CASE \E t \in Clients \cup {Worker}, g \in Groups : Dispatch(t, g)
      BY <2>4, Zenon DEF Dispatch
    <2>5. ASSUME NEW d \in Clients, Call(d) PROVE FALSE
      BY <2>5, Zenon DEF Call, TryWait, ResetFence, ResetSemaphore, WaitAll, Destroy
    <2>6. ASSUME NEW d \in Clients, InCall(d) PROVE TryWaitReturn(c)
      BY <2>6, Zenon DEF InCall, TryWaitReturn, WaitAll, WaitAllReturn, Join
    <2> QED
      BY <2>1, <2>2, <2>3, <2>4, <2>5, <2>6, Zenon DEF Next
  <1>2. ASSUME IInv, NEW c \in Clients, TryWaitReturn(c), got'[c] # "not_ready"
        PROVE  completed[goal[c]] /\ goal[c] \in Fences
    <2>1. got'[c] = IF pc[c] = "block" THEN "success" ELSE result[goal[c]]
      BY <1>2, Zenon DEF IInv, TypeOK, TryWaitReturn
    <2> QED
      BY <1>2, <2>1, Zenon DEF IInv, FenceInv, TryWaitReturn
  <1>3. IInv /\ [Next]_vars => [Final]_vars
    BY <1>1, <1>2, Zenon DEF IInv, FenceInv, WorkerInv
  <1> QED
    BY <1>3, RiscvInvariance, PTL DEF Spec, TryWaitIsFinal

\* A step that moves one dispatch changes the phase, and what there is to wait
\* for, of that dispatch only.
LEMMA OneMoves ==
    ASSUME TypeOK, NEW g \in Groups, NEW v, stage' = [stage EXCEPT ![g] = v],
           signalled' = signalled
    PROVE  /\ v = "pending" => PhaseOf' = [PhaseOf EXCEPT ![g] = "waiting"]
           /\ v \in {"running", "called"} => PhaseOf' = [PhaseOf EXCEPT ![g] = v]
           /\ v = "complete" => PhaseOf' = [PhaseOf EXCEPT ![g] = "idle"]
           /\ Idle(g) => PhaseOf[g] = "idle"
           /\ stage[g] = "pending" => PhaseOf[g] = "waiting"
           /\ stage[g] \in {"running", "called"} => PhaseOf[g] = stage[g]
           /\ AfterOf' = [AfterOf EXCEPT ![g] = AfterOf'[g]]
           /\ v # "pending" /\ AfterOf[g] = {} => AfterOf' = AfterOf
  <1> stage'[g] = v /\ \A h \in Groups : h # g => stage'[h] = stage[h]
    BY Zenon DEF TypeOK
  <1>1. /\ v = "pending" => PhaseOf' = [PhaseOf EXCEPT ![g] = "waiting"]
        /\ v \in {"running", "called"} => PhaseOf' = [PhaseOf EXCEPT ![g] = v]
        /\ v = "complete" => PhaseOf' = [PhaseOf EXCEPT ![g] = "idle"]
    BY Zenon DEF PhaseOf, Idle
  <1>2. AfterOf' = [AfterOf EXCEPT ![g] = AfterOf'[g]]
    BY Zenon DEF AfterOf
  <1>3. v # "pending" /\ AfterOf[g] = {} => AfterOf' = AfterOf
    BY DEF AfterOf
  <1> QED
    BY <1>1, <1>2, <1>3, Zenon DEF PhaseOf, Idle

\* The semaphores of one dispatch, which no other signals, release what waits
\* for it.
LEMMA SignalReleases ==
    ASSUME OneSignaller, TypeOK, job \in Groups, stage[job] = "called", stage' = stage,
           signalled' = signalled \cup SignalsOf[job]
    PROVE  Order!Release(job)
  <1> DEFINE S == {h \in Groups : job \notin AfterOf'[h]}
  <1>1. ASSUME NEW h \in Groups
        PROVE  AfterOf'[h] = AfterOf[h] \ (IF h \in S THEN {job} ELSE {})
    <2>1. \A x \in AfterOf'[h] : x \in AfterOf[h]
      BY Zenon DEF AfterOf
    <2>2. ASSUME NEW x \in AfterOf[h], x # job PROVE x \in AfterOf'[h]
      <3>1. SignalsOf[x] \cap SignalsOf[job] = {}
        BY <2>2, Zenon DEF OneSignaller, AfterOf
      <3> QED
        BY <3>1, Zenon DEF AfterOf
    <2> QED
      BY <2>1, <2>2, Zenon
  <1>2. AfterOf' = [h \in Groups |-> AfterOf[h] \ (IF h \in S THEN {job} ELSE {})]
    <2>1. AfterOf' = [h \in Groups |-> AfterOf'[h]]
      BY Zenon DEF AfterOf
    <2> QED
      BY <1>1, <2>1, Zenon
  <1>3. PhaseOf[job] = "called" /\ PhaseOf' = PhaseOf /\ S \in SUBSET Groups
    BY Zenon DEF PhaseOf, Idle
  <1> HIDE DEF S
  <1> QED
    BY <1>2, <1>3, Zenon DEF Order!Release

\* A step of the queue is a step of DispatchOrder, or none.
LEMMA StepMaps ==
    ASSUME OneSignaller, IInv, IInv', [Next]_vars
    PROVE  [Order!Next]_Order!vars
  <1> USE DEF IInv
  <1>0. ASSUME UNCHANGED stage,
               \A g \in Groups : stage[g] = "pending" =>
                  WaitsOf[g] \ signalled' = WaitsOf[g] \ signalled
        PROVE  UNCHANGED Order!vars
    BY <1>0, Zenon DEF PhaseOf, Idle, AfterOf, Order!vars
  <1>1. ASSUME UNCHANGED stage, UNCHANGED signalled
        PROVE  UNCHANGED Order!vars
    BY <1>0, <1>1, Zenon
  <1>2. CASE Fetch
    <2> USE <1>2
    <2>1. ASSUME NEW k \in Find, stage' = [stage EXCEPT ![pending[k]] = "running"]
          PROVE  Order!Start(pending[k]) /\ pending[k] \in Groups
      <3> DEFINE g == pending[k]
      <3>1. g \in Groups /\ stage[g] = "pending" /\ WaitsOf[g] \subseteq signalled
        <4>1. k \in DOMAIN pending /\ WaitsOf[g] \subseteq signalled
          BY Zenon DEF Find, IsWaiting
        <4> QED
          BY <4>1 DEF TypeOK, PendingInv
      <3>2. stage' = [stage EXCEPT ![g] = "running"] /\ signalled' = signalled
        BY <2>1, Zenon DEF Fetch, semVars
      <3> HIDE DEF g
      <3>3. AfterOf[g] = {}
        BY <3>1, Zenon DEF AfterOf
      <3>4. /\ PhaseOf[g] = "waiting" /\ PhaseOf' = [PhaseOf EXCEPT ![g] = "running"]
            /\ AfterOf' = AfterOf
        BY <3>1, <3>2, <3>3, OneMoves, Zenon
      <3> QED
        BY <3>1, <3>3, <3>4, Zenon DEF Order!Start, Order!Move, g
    <2> QED
      BY <1>1, <2>1, Zenon DEF Fetch, semVars, Order!Next
  <1>3. CASE NotifyUser
    <2>1. /\ job \in Groups /\ stage[job] = "running" /\ AfterOf[job] = {}
          /\ stage' = [stage EXCEPT ![job] = "called"] /\ signalled' = signalled
      BY <1>3, Zenon DEF NotifyUser, WorkerInv, Busy, AfterOf, semVars
    <2> QED
      BY <2>1, OneMoves, Zenon DEF Order!Next, Order!Call, Order!Move
  <1>4. CASE Signal
    BY <1>4, SignalReleases, Zenon DEF Signal, WorkerInv, Busy, Order!Next
  <1>5. CASE UnlockBuffer
    <2>1. /\ job \in Groups /\ stage[job] = "called" /\ SignalsOf[job] \subseteq signalled
          /\ stage' = [stage EXCEPT ![job] = "complete"] /\ signalled' = signalled
      BY <1>5, Zenon DEF UnlockBuffer, WorkerInv, Busy, FailInv, semVars
    <2>2. AfterOf[job] = {} /\ \A h \in Groups : job \notin AfterOf[h]
      BY <2>1, Zenon DEF AfterOf
    <2> QED
      BY <2>1, <2>2, OneMoves, Zenon DEF Order!Next, Order!Complete, Order!Move
  <1>6. ASSUME NEW t \in Clients \cup {Worker}, NEW g \in Groups, Dispatch(t, g)
        PROVE  [Order!Next]_Order!vars
    <2>1. Idle(g) /\ signalled' = signalled
      BY <1>6, Zenon DEF Dispatch, MayDispatch, semVars
    <2>2. CASE stage' = [stage EXCEPT ![g] = "pending"]
      <3>1. AfterOf'[g] \in SUBSET Groups
        BY Zenon DEF AfterOf
      <3> QED
        BY <2>1, <2>2, <3>1, OneMoves, Zenon DEF Order!Next, Order!Dispatch, Order!Move
    <2> QED
      BY <1>1, <1>6, <2>1, <2>2, Zenon DEF Dispatch
  <1>7. ASSUME NEW c \in Clients, NEW s \in Semaphores, ResetSemaphore(c, s)
        PROVE  UNCHANGED Order!vars
    BY <1>0, <1>7, Zenon DEF ResetSemaphore, Idle
  <1>8. ASSUME NEW c \in Clients, Call(c) \/ InCall(c)
        PROVE  UNCHANGED Order!vars
    BY <1>1, <1>7, <1>8, Zenon DEF Call, InCall, TryWait, ResetFence, WaitAll, Destroy,
       TryWaitReturn, WaitAllReturn, Join, semVars
  <1>9. CASE \/ UNCHANGED vars \/ Begin \/ Execute \/ UnlockQueue \/ Finish
             \/ SpuriousWake
    BY <1>1, <1>9, Zenon DEF Begin, Execute, UnlockQueue, Finish, SpuriousWake, vars, semVars
  <1> QED
    BY <1>2, <1>3, <1>4, <1>5, <1>6, <1>8, <1>9, Zenon DEF Next, Run

\* queue_s: where each semaphore has one command buffer that signals it, the
\* dispatches run in the order muxDispatch promises.
THEOREM RiscvImplementsOrder ==
    ASSUME OneSignaller
    PROVE  Spec => ImplementsDispatchOrder
  <1>1. Init => Order!Init
    BY Zenon DEF Init, Order!Init, PhaseOf, AfterOf, Idle
  <1>2. IInv /\ IInv' /\ [Next]_vars => [Order!Next]_Order!vars
    BY StepMaps, Zenon
  <1> QED
    BY <1>1, <1>2, RiscvInvariance, PTL DEF Spec, ImplementsDispatchOrder, Order!Spec
================================================================================
