--------------------------- MODULE ClCommandQueue ---------------------------
(***************************************************************************)
(* The OpenCL command queue, source/cl/source/command_queue.cpp, with the  *)
(* events of event.cpp, the shared semaphores of semaphore.cpp and a mux   *)
(* queue below it.                                                         *)
(*                                                                         *)
(* All queues of a context share one mutex.  What a call does while it     *)
(* holds it is one step here, a state transformer on the record "cl",      *)
(* except where another thread's unlocked write can be seen half way: an   *)
(* enqueue reads the status of each user event of its wait list twice.     *)
(* The mux queue and clSetUserEventStatus change event statuses without    *)
(* the mutex.                                                              *)
(*                                                                         *)
(* A command is its own event, and the semaphore of a dispatch is named by *)
(* the command that created it: a semaphore is never recreated.            *)
(***************************************************************************)
EXTENDS Integers, FiniteSets, SequencesExt

CONSTANTS
  Queues,      \* cl_command_queue handles of one context
  Program,     \* Program[q]: the commands the application enqueues on q
  WaitsOf,     \* WaitsOf[c]: the event_wait_list of command c
  KhrOf,       \* KhrOf[c]: the cl_command_buffer_khr c runs, or NoKhr
  UserEvents,  \* events of clCreateUserEvent
  UserStatus,  \* what clSetUserEventStatus may be called with
  Buffers,     \* mux command buffers the device can create
  Khrs,        \* cl_command_buffer_khr objects, each with its mux buffer
  CacheMax,    \* capacity of cached_command_buffers
  Clients,     \* application threads
  Callers,     \* the ones that use the queues
  Setters,     \* the ones that call clSetUserEventStatus
  NoKhr, NoThread

VARIABLES
  cl,          \* what the context's command queue mutex guards, and statuses
  callbacks,   \* callbacks[u]: queues registered on user event u, in order
  mutex,       \* the thread holding the mutex
  pc,          \* pc[t]: where thread t is
  ran          \* commands in the order the device ran them

vars == <<cl, callbacks, mutex, pc, ran>>

Commands == UNION {ToSet(Program[q]) : q \in Queues}
Events == Commands \cup UserEvents
Handles == Buffers \cup Khrs
QueueOf(c) == CHOOSE q \in Queues : c \in ToSet(Program[q])
EndStatus == {"complete", "failed"}
HasEnded(s, e) == s.status[e] \in EndStatus

NoDispatch == [signal |-> <<>>, waits |-> <<>>, sems |-> <<>>, sem |-> NoKhr,
               user |-> NoKhr, destroy |-> FALSE]
NotInMux == [at |-> "none", waits |-> {}, sem |-> NoKhr, cmds |-> <<>>]
Idle == [at |-> "idle"]

ASSUME ClAssumption ==
  /\ \A q, r \in Queues : q # r => ToSet(Program[q]) \cap ToSet(Program[r]) = {}
  /\ \A c \in Commands : ToSet(WaitsOf[c]) \subseteq Events /\ KhrOf[c] \in Khrs \cup {NoKhr}
  /\ CacheMax \in Nat /\ UserStatus \subseteq EndStatus /\ Callers \cup Setters \subseteq Clients

Init ==
  /\ cl = [pending |-> [q \in Queues |-> <<>>], running |-> [q \in Queues |-> <<>>],
           cached |-> [q \in Queues |-> <<>>],
           dispatch |-> [b \in Handles |-> NoDispatch],
           fence |-> [b \in Handles |-> "none"], mux |-> [b \in Handles |-> NotInMux],
           finish |-> [b \in Handles |-> <<>>], finishing |-> {}, execs |-> [k \in Khrs |-> 0],
           refs |-> [s \in Commands |-> 0], signalled |-> {},
           status |-> [e \in Events |-> IF e \in UserEvents THEN "submitted" ELSE "none"]]
  /\ callbacks = [u \in UserEvents |-> <<>>]
  /\ mutex = NoThread
  /\ pc = [t \in Clients |-> Idle]
  /\ ran = <<>>

-----------------------------------------------------------------------------
(* Semaphores and command buffers.                                         *)

Retain(s, x) == [s EXCEPT !.refs[x] = @ + 1]

Release(s, x) == [s EXCEPT !.refs[x] = @ - 1]

SetEvents(s, es, st) ==
  [s EXCEPT !.status = [e \in Events |-> IF e \in ToSet(es) THEN st ELSE s.status[e]]]

\* A mux command buffer nobody knows of any more can be created again.
InUse(s, b) ==
  \/ s.mux[b] # NotInMux \/ s.dispatch[b] # NoDispatch
  \/ \E q \in Queues : \/ b \in ToSet(s.cached[q])
                       \/ \E r \in ToSet(s.running[q]) : r.buf = b

Fresh(s) == {b \in Buffers : ~InUse(s, b)}

\* destroyCommandBuffer: reset, then cached if there is room.
DestroyCommandBuffer(s, q, b) ==
  IF Len(s.cached[q]) < CacheMax THEN [s EXCEPT !.cached[q] = Append(@, b)] ELSE s

CanCreate(s, q) == s.cached[q] # <<>> \/ Fresh(s) # {}

\* createCommandBuffer for command c, which names the new semaphore.
Created(s, q) == IF s.cached[q] # <<>> THEN Head(s.cached[q]) ELSE CHOOSE b \in Fresh(s) : TRUE

CreateCommandBuffer(s, q, c) ==
  LET b == Created(s, q)
  IN [s EXCEPT !.cached[q] = IF @ = <<>> THEN @ ELSE Tail(@),
               !.pending[q] = Append(@, b), !.refs[c] = 1,
               !.dispatch[b] = [NoDispatch EXCEPT !.sem = c, !.destroy = TRUE]]

-----------------------------------------------------------------------------
(* cleanupCompletedCommandBuffers, dispatch and flush.                     *)

\* Forget one semaphore in the wait list of a pending dispatch.
Forget(s, b, x) ==
  IF Contains(s.dispatch[b].sems, x)
  THEN [Release(s, x) EXCEPT !.dispatch[b].sems = RemoveFirst(@, x)] ELSE s

\* The front of the running list is complete.
CleanupFront(s, q) ==
  LET done == Head(s.running[q])
      freed == [FoldLeft(Release, s, done.sems) EXCEPT
                  !.fence[done.buf] = "none", !.running[q] = Tail(@),
                  !.execs = [k \in Khrs |-> IF k = done.user THEN @[k] - 1 ELSE @[k]]]
      kept == IF done.destroy THEN DestroyCommandBuffer(freed, q, done.buf) ELSE freed
      forgot == FoldLeft(LAMBDA a, b : Forget(a, b, done.sem), kept, kept.pending[q])
  IN Release(forgot, done.sem)

\* Mutant: the answer "not ready" of muxTryWait is overlooked.
IsCompleteAlways(s, r) == TRUE

IsComplete(s, r) == s.fence[r.buf] = "ready"

RECURSIVE Cleanup(_, _)
Cleanup(s, q) ==
  IF s.running[q] = <<>> THEN s
  ELSE IF ~IsComplete(s, Head(s.running[q])) THEN s
  ELSE Cleanup(CleanupFront(s, q), q)

Dispatch(s, q, b) ==
  LET d == s.dispatch[b]
  IN [SetEvents(s, d.signal, "running") EXCEPT
        !.fence[b] = "reset", !.finish[b] = d.signal, !.finishing = @ \cup {b},
        !.mux[b] = [at |-> "queued", waits |-> ToSet(d.sems), sem |-> d.sem, cmds |-> d.signal],
        !.running[q] = Append(@, [buf |-> b, sems |-> d.sems, sem |-> d.sem,
                                  user |-> d.user, destroy |-> d.destroy]),
        !.dispatch[b] = NoDispatch, !.pending[q] = Remove(@, b)]

\* No wait event of b is a user event.
Dispatchable(s, b) == ToSet(s.dispatch[b].waits) \cap UserEvents = {}

\* The other queues flush() flushes first, in the order it meets them.
OtherQueues(s, q, bs) ==
  LET waits == SelectSeq(FlattenSeq([i \in 1 .. Len(bs) |-> s.dispatch[bs[i]].waits]),
                         LAMBDA e : QueueOf(e) # q /\ s.status[e] # "complete")
  IN [i \in 1 .. Len(waits) |-> QueueOf(waits[i])]

RECURSIVE FlushIn(_, _, _)
FlushIn(s, q, inFlush) ==
  IF q \in inFlush THEN s
  ELSE LET clean == Cleanup(s, q)
           bs == SelectSeq(clean.pending[q], LAMBDA b : Dispatchable(clean, b))
           others == FoldLeft(LAMBDA a, r : FlushIn(a, r, inFlush \cup {q}),
                              clean, OtherQueues(clean, q, bs))
       IN FoldLeft(LAMBDA a, b : Dispatch(a, q, b), others, bs)

Flush(s, q) == FlushIn(s, q, {})

-----------------------------------------------------------------------------
(* What the callback of a user event does.                                 *)

\* dispatchPending: user event u holds no dispatch of q back any more.
DispatchPending(s, q, u) ==
  Flush([s EXCEPT !.dispatch = [b \in Handles |->
           IF Contains(s.pending[q], b) THEN [s.dispatch[b] EXCEPT !.waits = RemoveFirst(@, u)]
           ELSE s.dispatch[b]]], q)

\* Mutant: the semaphores a dropped dispatch waited for are not released.
DropOneKeepsWaits(s, q, b) ==
  LET d == s.dispatch[b]
  IN [DestroyCommandBuffer(Release(SetEvents(s, d.signal, "failed"), d.sem), q, b) EXCEPT
        !.dispatch[b] = NoDispatch, !.pending[q] = Remove(@, b)]

DropOne(s, q, b) ==
  LET d == s.dispatch[b]
      freed == FoldLeft(Release, Release(SetEvents(s, d.signal, "failed"), d.sem), d.sems)
  IN [DestroyCommandBuffer(freed, q, b) EXCEPT
        !.dispatch[b] = NoDispatch, !.pending[q] = Remove(@, b)]

\* dropDispatchesPending: user event u failed.
DropDispatchesPending(s, q, u) ==
  FoldLeft(LAMBDA a, b : DropOne(a, q, b), s,
           SelectSeq(s.pending[q], LAMBDA b : Contains(s.dispatch[b].waits, u)))

\* Mutant: a user event that completes dispatches nothing.
UserEventDispatchDropsOnly(u, st, q) ==
  IF st = "failed" THEN <<[op |-> "drop", queue |-> q, event |-> u]>> ELSE <<>>

\* userEventDispatch, as the sections it runs under the mutex.
UserEventDispatch(u, st, q) ==
  (IF st = "failed" THEN <<[op |-> "drop", queue |-> q, event |-> u]>> ELSE <<>>)
    \o <<[op |-> "pending", queue |-> q, event |-> u]>>

-----------------------------------------------------------------------------
(* getCommandBuffer: where an ordinary command goes.                       *)

Unique(xs) ==
  FoldLeft(LAMBDA a, x : IF a # <<>> /\ Last(a) = x THEN a ELSE Append(a, x), <<>>, xs)

Holder(s, e) == SetToSeq({b \in Handles : Contains(s.dispatch[b].signal, e)})

\* The pending dispatches c depends on: the last of its queue, and the ones
\* that signal an event of its wait list.
DependentDispatches(s, q, c) ==
  Unique((IF s.pending[q] = <<>> THEN <<>> ELSE <<Last(s.pending[q])>>)
           \o FlattenSeq([i \in 1 .. Len(WaitsOf[c]) |-> Holder(s, WaitsOf[c][i])]))

\* Mutant: wait events of other queues are overlooked.
CrossQueuesNone(q, c) == <<>>

CrossQueues(q, c) ==
  FoldLeft(LAMBDA a, e : IF e \in UserEvents THEN a
                         ELSE IF QueueOf(e) \in {q} \cup ToSet(a) THEN a
                         ELSE Append(a, QueueOf(e)), <<>>, WaitsOf[c])

\* Mutant: what is already running is not waited for.
SemaphoresOfPending(s, r, deps) ==
  LET own == SelectSeq(deps, LAMBDA b : Contains(s.pending[r], b))
  IN [i \in 1 .. Len(own) |-> s.dispatch[own[i]].sem]

\* The semaphores c waits for on behalf of queue r.
SemaphoresOf(s, r, deps) ==
  LET own == SelectSeq(deps, LAMBDA b : Contains(s.pending[r], b))
  IN IF own # <<>> THEN [i \in 1 .. Len(own) |-> s.dispatch[own[i]].sem]
     ELSE [i \in 1 .. Len(s.running[r]) |-> s.running[r][i].sem]

WaitSemaphores(s, q, c) ==
  LET rs == Append(CrossQueues(q, c), q)
      deps == DependentDispatches(s, q, c)
  IN Unique(FlattenSeq([i \in 1 .. Len(rs) |-> SemaphoresOf(s, rs[i], deps)]))

CanAppend(s, q, c, userWait) ==
  /\ Len(DependentDispatches(s, q, c)) = 1
  /\ ~userWait
  /\ CrossQueues(q, c) = <<>>
  /\ s.pending[q] # <<>> => s.dispatch[Last(s.pending[q])].user = NoKhr

RegisterEvents(s, b, c) ==
  [s EXCEPT !.dispatch[b].waits = @ \o SelectSeq(WaitsOf[c], LAMBDA e : s.status[e] # "complete"),
            !.dispatch[b].signal = Append(@, c)]

GetCommandBuffer(s, q, c, userWait) ==
  IF CanAppend(s, q, c, userWait)
  THEN RegisterEvents(s, Head(DependentDispatches(s, q, c)), c)
  ELSE IF ~CanCreate(s, q) THEN SetEvents(s, <<c>>, "failed")
  ELSE LET b == Created(s, q)
           sems == WaitSemaphores(s, q, c)
           made == [FoldLeft(Retain, CreateCommandBuffer(s, q, c), sems)
                      EXCEPT !.dispatch[b].sems = sems]
       IN RegisterEvents(made, b, c)

-----------------------------------------------------------------------------
(* enqueueCommandBuffer: a cl_command_buffer_khr, in two parts around the  *)
(* registration of its user event callbacks.                               *)

KhrBuffer(s, k) == IF s.execs[k] > 0 THEN CHOOSE b \in Fresh(s) : TRUE ELSE k

\* Mutant: the queue disposes of the khr object's own buffer.
ShouldDestroyAlways(b, k) == TRUE

\* Only a clone is the queue's to destroy.
ShouldDestroy(b, k) == b # k

KhrBegin(s, q, c) ==
  LET k == KhrOf[c]
      b == KhrBuffer(s, k)
      last == IF s.pending[q] = <<>> THEN <<>> ELSE <<s.dispatch[Last(s.pending[q])].sem>>
  IN RegisterEvents([FoldLeft(Retain, s, last) EXCEPT
       !.pending[q] = Append(@, b), !.refs[c] = 1,
       !.dispatch[b] = [NoDispatch EXCEPT !.sems = last, !.sem = c, !.user = k,
                                          !.destroy = ShouldDestroy(b, k)]], b, c)

\* It also waits for everything that is running.
KhrEnd(s, q, c) ==
  LET b == Last(s.pending[q])
      sems == [i \in 1 .. Len(s.running[q]) |-> s.running[q][i].sem]
  IN [FoldLeft(Retain, s, sems) EXCEPT !.dispatch[b].sems = @ \o sems,
                                       !.execs[KhrOf[c]] = @ + 1]

-----------------------------------------------------------------------------
(* The application's threads.                                              *)

Free == mutex = NoThread

\* The call that creates the event has returned.
Returned(e) ==
  cl.status[e] # "none" /\ \A t \in Clients : pc[t].at = "enqueue" => pc[t].cmd # e

Known(e) == Returned(e) /\ cl.status[e] # "rejected"

\* c is the next command of its queue and its wait list's events exist.
MayEnqueue(c) ==
  LET p == Program[QueueOf(c)]
  IN /\ cl.status[c] = "none"
     /\ \A i, j \in DOMAIN p : i < j /\ p[j] = c => Returned(p[i])
     /\ \A e \in ToSet(WaitsOf[c]) : Known(e)

\* EventWaitList refuses a failed event; otherwise the event is created.
Enqueue(t, c) ==
  /\ pc[t] = Idle /\ MayEnqueue(c)
  /\ IF \E e \in ToSet(WaitsOf[c]) : cl.status[e] = "failed"
     THEN cl' = SetEvents(cl, <<c>>, "rejected") /\ UNCHANGED pc
     ELSE /\ cl' = SetEvents(cl, <<c>>, "queued")
          /\ pc' = [pc EXCEPT ![t] = [at |-> "enqueue", cmd |-> c, step |-> "lock",
                      todo |-> SelectSeq(WaitsOf[c], LAMBDA e : e \in UserEvents),
                      userWait |-> FALSE]]
  /\ UNCHANGED <<callbacks, mutex, ran>>

Enqueuing(t, step) == pc[t].at = "enqueue" /\ pc[t].step = step

\* The call takes the mutex; a khr command buffer is cloned if it is in use.
EnqueueLock(t) ==
  /\ Enqueuing(t, "lock") /\ Free
  /\ LET c == pc[t].cmd
     IN IF KhrOf[c] # NoKhr /\ cl.execs[KhrOf[c]] > 0 /\ Fresh(cl) = {}
        THEN /\ cl' = SetEvents(cl, <<c>>, "rejected")
             /\ pc' = [pc EXCEPT ![t] = Idle]
             /\ UNCHANGED mutex
        ELSE /\ cl' = IF KhrOf[c] # NoKhr THEN KhrBegin(cl, QueueOf(c), c) ELSE cl
             /\ pc' = [pc EXCEPT ![t].step = "test"]
             /\ mutex' = t
  /\ UNCHANGED <<callbacks, ran>>

\* Is the next user event of the wait list complete?
EnqueueTest(t) ==
  /\ Enqueuing(t, "test") /\ pc[t].todo # <<>>
  /\ pc' = IF cl.status[Head(pc[t].todo)] # "complete"
           THEN [pc EXCEPT ![t].step = "add", ![t].userWait = TRUE]
           ELSE [pc EXCEPT ![t].todo = Tail(@)]
  /\ UNCHANGED <<cl, callbacks, mutex, ran>>

\* _cl_event::addCallback.  When the event has ended since, the callback is
\* called here and now, and locks the mutex this thread holds.
AddCallback(t) ==
  /\ Enqueuing(t, "add")
  /\ LET u == Head(pc[t].todo)
     IN IF HasEnded(cl, u)
        THEN pc' = [pc EXCEPT ![t] = [at |-> "selflock"]] /\ UNCHANGED callbacks
        ELSE /\ callbacks' = [callbacks EXCEPT ![u] = Append(@, QueueOf(pc[t].cmd))]
             /\ pc' = [pc EXCEPT ![t].step = "test", ![t].todo = Tail(@)]
  /\ UNCHANGED <<cl, mutex, ran>>

EnqueueEnd(t) ==
  /\ Enqueuing(t, "test") /\ pc[t].todo = <<>>
  /\ LET c == pc[t].cmd
         q == QueueOf(c)
     IN cl' = IF KhrOf[c] # NoKhr THEN KhrEnd(cl, q, c)
              ELSE GetCommandBuffer(cl, q, c, pc[t].userWait)
  /\ mutex' = NoThread
  /\ pc' = [pc EXCEPT ![t] = Idle]
  /\ UNCHANGED <<callbacks, ran>>

\* What is left of a call, as the sections it runs under the mutex.
Sections(t, todo, u) ==
  IF todo = <<>> THEN Idle ELSE [at |-> "locked", todo |-> todo, event |-> u]

RunSection(s, sec) ==
  CASE sec.op = "flush" -> Flush(s, sec.queue)
    [] sec.op = "cleanup" -> Cleanup(s, sec.queue)
    [] sec.op = "drop" -> DropDispatchesPending(s, sec.queue, sec.event)
    [] sec.op = "pending" -> DispatchPending(s, sec.queue, sec.event)

LockedSection(t) ==
  /\ pc[t].at = "locked" /\ Free
  /\ cl' = RunSection(cl, Head(pc[t].todo))
  /\ pc' = [pc EXCEPT ![t] = Sections(t, Tail(@.todo), @.event)]
  /\ UNCHANGED <<callbacks, mutex, ran>>

On(op, q) == [op |-> op, queue |-> q]

\* clFlush.
FlushQueue(t, q) ==
  /\ pc[t] = Idle /\ Free
  /\ cl' = Flush(cl, q)
  /\ UNCHANGED <<callbacks, mutex, pc, ran>>

\* clGetEventInfo: getEventStatus.
GetEventStatus(t, c) ==
  /\ pc[t] = Idle /\ Free /\ Known(c)
  /\ cl' = Cleanup(cl, QueueOf(c))
  /\ UNCHANGED <<callbacks, mutex, pc, ran>>

\* The semaphores that are signalled, or will be once what is pending is
\* flushed: their dispatches wait for no user event and for such semaphores.
RECURSIVE Supplied(_, _)
Supplied(s, sems) ==
  LET next == {b \in Handles : Dispatchable(s, b) /\
                 ToSet(s.dispatch[b].sems) \cup s.mux[b].waits \subseteq sems}
      more == sems \cup UNION {{s.dispatch[b].sem, s.mux[b].sem} : b \in next}
  IN IF more = sems THEN sems ELSE Supplied(s, more)

\* Commands of q that are enqueued, and whose dispatch will complete without
\* another user event.
Released(s, q) ==
  {c \in ToSet(Program[q]) : Known(c) /\ ~HasEnded(s, c) /\
     \A b \in Handles : Contains(s.dispatch[b].signal \o s.mux[b].cmds, c) =>
       {s.dispatch[b].sem, s.mux[b].sem} \subseteq Supplied(s, s.signalled)}

\* Mutant: finish() does not flush.
FinishUnflushed(t, q) ==
  /\ pc[t] = Idle /\ Free
  /\ pc' = [pc EXCEPT ![t] = [at |-> "finish", queue |-> q, covers |-> Released(cl, q)]]
  /\ UNCHANGED <<cl, callbacks, mutex, ran>>

\* clFinish: finish() flushes, waits for the mux queue and cleans up.
Finish(t, q) ==
  /\ pc[t] = Idle /\ Free
  /\ cl' = Flush(cl, q)
  /\ pc' = [pc EXCEPT ![t] = [at |-> "finish", queue |-> q, covers |-> Released(cl, q)]]
  /\ UNCHANGED <<callbacks, mutex, ran>>

\* A dispatch that waits for no semaphore any more.
Unblocked(b) == cl.mux[b] # NotInMux /\ cl.mux[b].waits \subseteq cl.signalled

\* muxWaitAll returns when the mux queue is empty, on host as soon as no dispatch
\* left in it can run.
MuxWaitAll == \A b \in Handles : ~Unblocked(b)

FinishWaitAll(t) ==
  /\ pc[t].at = "finish"
  /\ MuxWaitAll
  /\ LET q == pc[t].queue
     IN pc' = [pc EXCEPT ![t] = Sections(t, <<On("cleanup", q), On("flush", q), On("cleanup", q)>>, NoKhr)]
  /\ UNCHANGED <<cl, callbacks, mutex, ran>>

\* Mutant: the queue of the event is not flushed.
WaitForEventsUnflushed(t, e) ==
  /\ pc[t] = Idle /\ Known(e)
  /\ pc' = [pc EXCEPT ![t] = [at |-> "wait", event |-> e]]
  /\ UNCHANGED <<cl, callbacks, mutex, ran>>

\* clWaitForEvents on one event flushes the event's queue, ...
WaitForEvents(t, e) ==
  /\ pc[t] = Idle /\ Known(e)
  /\ IF e \in UserEvents THEN UNCHANGED cl ELSE Free /\ cl' = Flush(cl, QueueOf(e))
  /\ pc' = [pc EXCEPT ![t] = [at |-> "wait", event |-> e]]
  /\ UNCHANGED <<callbacks, mutex, ran>>

\* complete() holds wait_complete_mutex until the callbacks have run.
Completing(e) == \E t \in Clients : pc[t].at = "locked" /\ pc[t].event = e

\* ... waits for the event, and cleans the queue up.
WaitEnd(t) ==
  /\ pc[t].at = "wait"
  /\ LET e == pc[t].event
     IN /\ HasEnded(cl, e) /\ ~Completing(e)
        /\ pc' = [pc EXCEPT ![t] = IF e \in UserEvents THEN Idle
                                   ELSE Sections(t, <<On("cleanup", QueueOf(e))>>, NoKhr)]
  /\ UNCHANGED <<cl, callbacks, mutex, ran>>

\* clSetUserEventStatus: the check, ...
SetUserEventStatus(t, u, st) ==
  /\ pc[t] = Idle /\ ~HasEnded(cl, u)
  /\ pc' = [pc EXCEPT ![t] = [at |-> "set", event |-> u, status |-> st]]
  /\ UNCHANGED <<cl, callbacks, mutex, ran>>

\* ... and complete(), whose clear() takes the callbacks and calls each.
CompleteUserEvent(t) ==
  /\ pc[t].at = "set" /\ ~Completing(pc[t].event)
  /\ LET u == pc[t].event
         st == pc[t].status
         secs == FlattenSeq([i \in 1 .. Len(callbacks[u]) |-> UserEventDispatch(u, st, callbacks[u][i])])
     IN /\ cl' = SetEvents(cl, <<u>>, st)
        /\ callbacks' = [callbacks EXCEPT ![u] = <<>>]
        /\ pc' = [pc EXCEPT ![t] = Sections(t, secs, u)]
  /\ UNCHANGED <<mutex, ran>>

-----------------------------------------------------------------------------
(* The mux queue.                                                          *)

\* Every wait semaphore is signalled: the commands run.
MuxExecute(b) ==
  /\ cl.mux[b].at = "queued"
  /\ Unblocked(b)
  /\ ran' = ran \o cl.mux[b].cmds
  /\ cl' = [cl EXCEPT !.mux[b].at = "callback"]
  /\ UNCHANGED <<callbacks, mutex, pc>>

\* The completion callback, finish_state_t::clear: each event in turn, ...
CompleteEvent(b) ==
  /\ cl.mux[b].at = "callback" /\ cl.finish[b] # <<>>
  /\ cl' = [SetEvents(cl, <<Head(cl.finish[b])>>, "complete") EXCEPT !.finish[b] = Tail(@)]
  /\ UNCHANGED <<callbacks, mutex, pc, ran>>

\* ... and the finish_state entry, under the mutex.
EraseFinishState(b) ==
  /\ cl.mux[b].at = "callback" /\ cl.finish[b] = <<>> /\ Free
  /\ cl' = [cl EXCEPT !.finishing = @ \ {b}, !.mux[b].at = "called"]
  /\ UNCHANGED <<callbacks, mutex, pc, ran>>

\* The mux queue then signals the semaphore, ...
MuxSignal(b) ==
  /\ cl.mux[b].at = "called"
  /\ cl' = [cl EXCEPT !.signalled = @ \cup {cl.mux[b].sem}, !.mux[b].at = "signalled"]
  /\ UNCHANGED <<callbacks, mutex, pc, ran>>

\* ... and later the fence; on host dispatches that waited may run before.
MuxComplete(b) ==
  /\ cl.mux[b].at = "signalled"
  /\ cl' = [cl EXCEPT !.fence[b] = "ready", !.mux[b] = NotInMux]
  /\ UNCHANGED <<callbacks, mutex, pc, ran>>

-----------------------------------------------------------------------------
Continue(t) ==
  \/ EnqueueLock(t) \/ EnqueueTest(t) \/ AddCallback(t) \/ EnqueueEnd(t)
  \/ LockedSection(t) \/ FinishWaitAll(t) \/ WaitEnd(t) \/ CompleteUserEvent(t)

Call(t) ==
  \/ \E c \in Commands : Enqueue(t, c) \/ GetEventStatus(t, c)
  \/ \E q \in Queues : FlushQueue(t, q) \/ Finish(t, q)
  \/ \E e \in Events : WaitForEvents(t, e)

Mux(b) ==
  \/ MuxExecute(b) \/ CompleteEvent(b) \/ EraseFinishState(b)
  \/ MuxSignal(b) \/ MuxComplete(b)

Next ==
  \/ \E t \in Callers : Call(t)
  \/ \E t \in Setters, u \in UserEvents, st \in UserStatus : SetUserEventStatus(t, u, st)
  \/ \E t \in Clients : Continue(t)
  \/ \E b \in Handles : Mux(b)

Spec == Init /\ [][Next]_vars

\* When Continue(t), and when Mux(b), has to happen: when it is enabled, but
\* muxWaitAll need not return before the mux queue is empty, as on RISC-V.
CanContinue(t) ==
  CASE pc[t].at \in {"idle", "selflock"} -> FALSE
    [] pc[t].at = "enqueue" -> pc[t].step = "lock" => Free
    [] pc[t].at = "locked" -> Free
    [] pc[t].at = "finish" -> \A b \in Handles : cl.mux[b] = NotInMux
    [] pc[t].at = "wait" -> HasEnded(cl, pc[t].event) /\ ~Completing(pc[t].event)
    [] pc[t].at = "set" -> ~Completing(pc[t].event)

CanMux(b) ==
  CASE cl.mux[b].at = "none" -> FALSE
    [] cl.mux[b].at = "queued" -> Unblocked(b)
    [] cl.mux[b].at = "callback" -> cl.finish[b] = <<>> => Free
    [] cl.mux[b].at \in {"called", "signalled"} -> TRUE

\* A call that has begun goes on, and so does the device; the application
\* need not call anything.  Only an enqueue keeps the mutex from one step to
\* the next, and each command is enqueued once, so weak fairness is enough.
WeakFairness ==
  /\ \A t \in Clients : WF_vars(CanContinue(t) /\ Continue(t))
  /\ \A b \in Handles : WF_vars(Mux(b))

WeakSpec == Spec /\ WeakFairness

\* The same, spelt out for the larger instance: every step of a thread in a
\* call changes its pc, and every step of a dispatch its mux or finish state.
Fairness ==
  /\ \A t \in Clients : []<>~CanContinue(t) \/ []<><<CanContinue(t) /\ pc'[t] # pc[t]>>_pc
  /\ \A b \in Handles : []<>~CanMux(b) \/
       []<><<CanMux(b) /\ <<cl'.mux[b], cl'.finish[b]>> # <<cl.mux[b], cl.finish[b]>>>>_cl

FairSpec == Spec /\ Fairness

-----------------------------------------------------------------------------
(* Properties.                                                             *)

Count(xs, x) == Cardinality({i \in DOMAIN xs : xs[i] = x})

Holders(x) ==
  LET held(q) == Cardinality({i \in DOMAIN cl.running[q] : cl.running[q][i].sem = x})
                 + FoldLeft(LAMBDA n, r : n + Count(r.sems, x), 0, cl.running[q])
  IN Cardinality({b \in Handles : cl.dispatch[b].sem = x})
     + MapThenSumSet(LAMBDA b : Count(cl.dispatch[b].sems, x), Handles)
     + MapThenSumSet(held, Queues)

\* The reference count of a shared semaphore is the number of pending and
\* running dispatches that signal it or wait for it, each time they list it:
\* no path of cleanup, drop or enqueue releases one twice or forgets one.
SemaphoreCountIsExact == \A x \in Commands : cl.refs[x] = Holders(x)

\* A command buffer that is being recorded or waits in the cache is not in
\* the mux queue, has no finish_state entry for a late callback to erase and
\* no fence (dispatch() asserts the last), and is there once.
ReusedWhenDone ==
  \A q \in Queues, b \in Handles :
    Contains(cl.pending[q], b) \/ Contains(cl.cached[q], b) =>
      /\ cl.mux[b] = NotInMux /\ b \notin cl.finishing /\ cl.fence[b] = "none"
      /\ Count(cl.pending[q] \o cl.cached[q], b) = 1

\* Where no cl_command_buffer_khr waits for a user event, its mux buffer never
\* enters the queue's cache, and its execution_refcount is the number of its
\* dispatches not cleaned up.  (dropDispatchesPending, for a failed user
\* event, looks at neither should_destroy_command_buffer nor the count.)
KhrKeepsItsBuffer ==
  (\A c \in Commands : KhrOf[c] # NoKhr => ToSet(WaitsOf[c]) \cap UserEvents = {}) =>
    \A k \in Khrs :
      /\ \A q \in Queues : ~Contains(cl.cached[q], k)
      /\ (\A t \in Clients : pc[t].at = "enqueue" => KhrOf[pc[t].cmd] # k) =>
           cl.execs[k] = Cardinality({b \in Handles : cl.dispatch[b].user = k})
             + MapThenSumSet(LAMBDA q : Cardinality({i \in DOMAIN cl.running[q] :
                                           cl.running[q][i].user = k}), Queues)

Before(d, c) == \E i, j \in DOMAIN ran : i < j /\ ran[i] = d /\ ran[j] = c

\* The queue is in-order: a command runs after every command enqueued on
\* its queue before it, unless that one failed or was refused.
RunsInOrder ==
  \A q \in Queues : \A i, j \in DOMAIN Program[q] :
    LET d == Program[q][i]
        c == Program[q][j]
    IN i < j /\ Contains(ran, c) => Before(d, c) \/ cl.status[d] \in {"failed", "rejected"}

\* A command runs after the events of its wait list: after the commands they
\* stand for, unless they failed, and only when its user events completed.
RunsAfterWaits ==
  \A c \in ToSet(ran) : \A e \in ToSet(WaitsOf[c]) :
    IF e \in UserEvents THEN cl.status[e] = "complete" ELSE Before(e, c) \/ cl.status[e] = "failed"

\* clFinish outlasts every command that was enqueued before it, except those that
\* a user event holds back when it is called, or that wait behind one it holds
\* back or behind a dropped dispatch: muxWaitAll on host does not wait for them.
FinishOutlastsCommands ==
  [][\A t \in Clients : pc[t].at = "finish" /\ pc'[t].at # "finish" =>
       \A c \in pc[t].covers : HasEnded(cl, c)]_vars

\* A thread called back into the queue while it holds the mutex.
SelfLocked == \E t \in Clients : pc[t].at = "selflock"

\* A dispatch waits for the semaphore of a dispatch that was dropped.
Orphaned ==
  \E b \in Handles : \E x \in cl.mux[b].waits \cup ToSet(cl.dispatch[b].sems) :
    /\ x \notin cl.signalled
    /\ \A h \in Handles : cl.mux[h].sem # x /\ cl.dispatch[h].sem # x

Blocked ==
  SelfLocked \/ Orphaned \/ \E u \in UserEvents : ~HasEnded(cl, u)

\* Unless the application leaves a user event unset, a callback locks the
\* mutex again or a dropped dispatch is waited for, every call returns.
CallsReturn ==
  <>[]~Blocked => \A t \in Clients : pc[t] # Idle ~> pc[t] = Idle

HeldBy(q, u) == \E b \in ToSet(cl.pending[q]) : Contains(cl.dispatch[b].waits, u)

\* A user event that has ended is taken off every pending dispatch it holds
\* back: the registration of the callback never misses the completion.
UserEventReleases ==
  \A q \in Queues, u \in UserEvents :
    [](HasEnded(cl, u) /\ HeldBy(q, u) => <>(SelfLocked \/ ~HeldBy(q, u)))

=============================================================================
