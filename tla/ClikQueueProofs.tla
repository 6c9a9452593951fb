---------------------------- MODULE ClikQueueProofs ----------------------------
(* IInv is inductive and the queue implements InOrderQueue, for any clients. *)
EXTENDS ClikQueue, TLAPS

USE DEF queueVars

\* The list holds consecutive timestamps, so the most recent one is that of the
\* last command created, or 0 when the list is empty.
LEMMA MostRecentIsLast ==
    ASSUME IInv
    PROVE  MostRecent = IF commands = << >> THEN 0 ELSE next_command_timestamp - 1
<1>1. CASE commands = << >>
  BY <1>1, Zenon DEF MostRecent
<1>2. CASE commands # << >>
  <2> DEFINE last == next_command_timestamp - 1
  <2>1. Len(commands) \in Nat /\ Len(commands) # 0 /\ DOMAIN commands = 1..Len(commands)
    BY <1>2 DEF IInv, TypeOK
  <2>2. Len(commands) \in DOMAIN commands /\ commands[Len(commands)] = last
    <3>1. Len(commands) \in DOMAIN commands
      BY <2>1
    <3>2. commands[Len(commands)] = executed_timestamp + Len(commands)
      BY <3>1, Zenon DEF IInv
    <3> QED BY <3>1, <3>2, <2>1 DEF IInv, TypeOK
  <2>3. \A n \in Timestamps : n \in Nat /\ n <= last
    BY <2>1 DEF IInv, TypeOK, Timestamps
  <2>4. last \in Timestamps
    BY <2>2, Zenon DEF Timestamps
  <2>5. \A m \in Timestamps : (\A n \in Timestamps : n <= m) => m = last
    BY <2>3, <2>4 DEF IInv, TypeOK
  <2>6. MostRecent = CHOOSE m \in Timestamps : \A n \in Timestamps : n <= m
    BY <1>2, Zenon DEF MostRecent
  <2>7. MostRecent = last
    BY <2>3, <2>4, <2>5, <2>6, Zenon
  <2> QED BY <2>7, <1>2
<1> QED BY <1>1, <1>2

\* The first command of the list is the one after executed_timestamp, and the
\* rest follow it.
LEMMA HeadIsNext ==
    ASSUME IInv, commands # << >>
    PROVE  /\ Head(commands) = executed_timestamp + 1
           /\ Tail(commands) \in Seq(Nat)
           /\ Len(Tail(commands)) = Len(commands) - 1
           /\ \A k \in DOMAIN Tail(commands) :
                 Tail(commands)[k] = executed_timestamp + 1 + k
<1>1. Len(commands) \in Nat /\ Len(commands) # 0 /\ DOMAIN commands = 1..Len(commands)
  BY DEF IInv, TypeOK
<1>2. Head(commands) = commands[1] /\ 1 \in DOMAIN commands
  BY <1>1 DEF IInv, TypeOK
<1>3. Tail(commands) \in Seq(Nat) /\ Len(Tail(commands)) = Len(commands) - 1
  BY <1>1 DEF IInv, TypeOK
<1>4. ASSUME NEW k \in DOMAIN Tail(commands)
      PROVE  Tail(commands)[k] = commands[k + 1] /\ k + 1 \in DOMAIN commands /\ k \in Nat
  BY <1>1, <1>3, <1>4 DEF IInv, TypeOK
<1>5. \A k \in DOMAIN Tail(commands) :
          Tail(commands)[k] = executed_timestamp + 1 + k
  BY <1>4 DEF IInv, TypeOK
<1> QED BY <1>2, <1>3, <1>5 DEF IInv, TypeOK

LEMMA InitIInv == Init => IInv
<1> SUFFICES ASSUME Init PROVE IInv
  BY Zenon
<1>1. TypeOK
  <2>1. commands \in Seq(Nat) /\ next_command_timestamp \in Nat
        /\ dispatched_timestamp \in Nat /\ executed_timestamp \in Nat
        /\ current \in Nat /\ ran \subseteq Nat /\ goal \in [Clients -> Nat]
    BY DEF Init
  <2>2. shutdown \in BOOLEAN
    BY Zenon DEF Init
  <2> QED BY <2>1, <2>2 DEF Init, TypeOK
<1>2. Len(commands) = 0 /\ DOMAIN commands = {} /\ ran = 1..executed_timestamp
  BY DEF Init
<1> QED BY <1>1, <1>2 DEF Init, IInv

\* The body of clik_dispatch, which clik_release_command_queue shares: either
\* nothing changes, or all commands enqueued so far are dispatched.
LEMMA DispatchFacts ==
    ASSUME IInv, DispatchCommands
    PROVE  /\ dispatched_timestamp' \in Nat
           /\ dispatched_timestamp <= dispatched_timestamp'
           /\ dispatched_timestamp' < next_command_timestamp
           /\ dispatched_timestamp' \in {dispatched_timestamp,
                                         next_command_timestamp - 1}
           /\ worker' \in {"top", "exec", "asleep", "exited"}
           /\ worker' = "exec" <=> worker = "exec"
  BY MostRecentIsLast DEF DispatchCommands, WakeWorker, IInv, TypeOK

LEMMA NextIInv == IInv /\ [Next]_vars => IInv'
<1> SUFFICES ASSUME IInv, [Next]_vars PROVE IInv'
  BY Zenon
<1>1. CASE Top
  <2>1. current' \in Nat /\ current' <= dispatched_timestamp
    BY <1>1 DEF Top, IInv, TypeOK
  <2>2. worker' \in {"top", "exec", "asleep", "exited"}
    BY <1>1, Zenon DEF Top, NextCommand
  <2>3. worker' = "exec" => commands # << >> /\ Head(commands) <= current'
    BY <1>1, Zenon DEF Top, NextCommand
  <2> QED BY <1>1, <2>1, <2>2, <2>3 DEF Top, IInv, TypeOK
<1>2. CASE Executed
  <2>1. commands # << >> /\ Head(commands) = executed_timestamp + 1
        /\ Head(commands) <= current
    BY <1>2, HeadIsNext, Zenon DEF Executed, IInv
  <2>2. executed_timestamp' = executed_timestamp + 1
        /\ executed_timestamp' <= dispatched_timestamp'
    BY <1>2, <2>1 DEF Executed, IInv, TypeOK
  <2>3. /\ commands' \in Seq(Nat)
        /\ Len(commands') = next_command_timestamp' - 1 - executed_timestamp'
        /\ \A k \in DOMAIN commands' : commands'[k] = executed_timestamp' + k
    <3>1. commands' = Tail(commands) /\ commands # << >>
          /\ next_command_timestamp' = next_command_timestamp
      BY <1>2, <2>1, Zenon DEF Executed
    <3>2. /\ Len(commands) = next_command_timestamp - 1 - executed_timestamp
          /\ next_command_timestamp \in Nat /\ executed_timestamp \in Nat
      BY Zenon DEF IInv, TypeOK
    <3>3. /\ Tail(commands) \in Seq(Nat)
          /\ Len(Tail(commands)) = Len(commands) - 1
          /\ \A k \in DOMAIN Tail(commands) :
                Tail(commands)[k] = executed_timestamp + 1 + k
      BY <3>1, HeadIsNext, Zenon
    <3> QED BY ONLY <2>2, <3>1, <3>2, <3>3
  <2>4. ran' = 1..executed_timestamp' /\ ran' \subseteq Nat
    <3>1. ran' = ran \cup {executed_timestamp + 1} /\ ran = 1..executed_timestamp
      BY <1>2, <2>1, Zenon DEF Executed, Execute, IInv
    <3>2. executed_timestamp \in Nat
      BY Zenon DEF IInv, TypeOK
    <3> QED BY <3>1, <3>2, <2>2
  <2>5. worker' \in {"exec", "asleep"}
        /\ (worker' = "exec" => commands' # << >> /\ Head(commands') <= current')
    BY <1>2, Zenon DEF Executed, NextCommand
  <2>6. pc' \in [Clients -> {"idle", "wait", "wait_asleep", "shut", "join",
                             "released"}]
    BY <1>2, Zenon DEF Executed, WakeWaiters, IInv, TypeOK
  <2>7. TypeOK /\ UNCHANGED <<next_command_timestamp, dispatched_timestamp, shutdown,
                             current, goal>>
    BY <1>2, Zenon DEF Executed, IInv
  <2>8. TypeOK'
    <3>1. executed_timestamp' \in Nat
      BY <2>2, <2>7 DEF TypeOK
    <3> QED BY <2>3, <2>4, <2>5, <2>6, <2>7, <3>1, Zenon DEF TypeOK
  <2> QED BY <2>2, <2>3, <2>4, <2>5, <2>7, <2>8, Zenon DEF IInv
<1>3. CASE SpuriousWake
  BY <1>3, Zenon DEF SpuriousWake, IInv, TypeOK
<1>4. ASSUME NEW c \in Clients, Enqueue(c) PROVE IInv'
  <2>1. next_command_timestamp' = next_command_timestamp + 1
    BY <1>4, Zenon DEF Enqueue, CreateCommand
  <2>2. /\ commands' \in Seq(Nat)
        /\ Len(commands') = Len(commands) + 1
        /\ commands'[Len(commands) + 1] = next_command_timestamp
        /\ \A k \in DOMAIN commands : commands'[k] = commands[k]
        /\ DOMAIN commands' = 1..(Len(commands) + 1)
        /\ DOMAIN commands = 1..Len(commands) /\ Len(commands) \in Nat
    BY <1>4 DEF Enqueue, IInv, TypeOK
  <2>3. \A k \in DOMAIN commands' : commands'[k] = executed_timestamp' + k
    <3> SUFFICES ASSUME NEW k \in DOMAIN commands'
                 PROVE  commands'[k] = executed_timestamp + k
      BY <1>4, Zenon DEF Enqueue
    <3>1. CASE k \in DOMAIN commands
      BY <3>1, <2>2, Zenon DEF IInv
    <3>2. CASE k = Len(commands) + 1
      BY <3>2, <2>2 DEF IInv, TypeOK
    <3> QED BY <3>1, <3>2, <2>2
  <2>4. worker = "exec" => commands' # << >> /\ Head(commands') = Head(commands)
    <3>1. worker = "exec" => commands # << >>
      BY Zenon DEF IInv, TypeOK
    <3>2. commands # << >> => 1 \in DOMAIN commands
      BY DEF IInv, TypeOK
    <3> QED BY <2>2, <3>1, <3>2
  <2>5. TypeOK /\ UNCHANGED <<dispatched_timestamp, executed_timestamp, shutdown, worker,
                             current, pc, goal, ran>>
    BY <1>4, Zenon DEF Enqueue, IInv
  <2>6. /\ next_command_timestamp' \in Nat /\ dispatched_timestamp < next_command_timestamp'
        /\ Len(commands') = next_command_timestamp' - 1 - executed_timestamp
    BY <2>1, <2>2, <2>5 DEF IInv, TypeOK
  <2>7. TypeOK'
    BY <2>2, <2>5, <2>6, Zenon DEF TypeOK
  <2> QED BY <2>2, <2>3, <2>4, <2>5, <2>6, <2>7, Zenon DEF IInv
<1>5. ASSUME NEW c \in Clients, Dispatch(c) PROVE IInv'
  BY <1>5, DispatchFacts DEF Dispatch, IInv, TypeOK
<1>6. ASSUME NEW c \in Clients, Wait(c) PROVE IInv'
  BY <1>6 DEF Wait, WaitTest, IInv, TypeOK
<1>7. ASSUME NEW c \in Clients, Release(c) PROVE IInv'
  BY <1>7, DispatchFacts DEF Release, IInv, TypeOK
<1>8. ASSUME NEW c \in Clients, InCall(c) PROVE IInv'
  <2>1. CASE WaitAgain(c)
    BY <1>8, <2>1, Zenon DEF WaitAgain, WaitTest, IInv, TypeOK
  <2>2. CASE ShutDown(c)
    BY <1>8, <2>2, Zenon DEF ShutDown, WakeWorker, IInv, TypeOK
  <2>3. CASE Join(c)
    BY <1>8, <2>3, Zenon DEF Join, IInv, TypeOK
  <2> QED BY <1>8, <2>1, <2>2, <2>3 DEF InCall
<1>9. CASE UNCHANGED vars
  BY <1>9, Zenon DEF vars, IInv, TypeOK
<1> QED BY <1>1, <1>2, <1>3, <1>4, <1>5, <1>6, <1>7, <1>8, <1>9 DEF Next, WorkerStep

\* Every reachable state of the clik queue satisfies the inductive invariant.
THEOREM ClikInvariance == Spec => []IInv
  BY InitIInv, NextIInv, PTL DEF Spec

\* clik_wait never returns before the commands dispatched when it was called.
THEOREM WaitIsSound == Spec => WaitOutlastsCommands
<1> DEFINE Outlasts ==
      \A c \in Clients : pc[c] = "wait" /\ pc'[c] = "idle" => 1..goal[c] \subseteq ran
<1>1. IInv /\ [Next]_vars => [Outlasts]_vars
  <2> SUFFICES ASSUME IInv, Next, NEW c \in Clients, pc[c] = "wait", pc'[c] = "idle"
               PROVE  1..goal[c] \subseteq ran
    BY Zenon DEF vars
  <2>1. goal[c] <= executed_timestamp
    <3>1. CASE WorkerStep \/ SpuriousWake
      BY <3>1, Zenon DEF WorkerStep, Top, Executed, WakeWaiters, SpuriousWake, IInv, TypeOK
    <3>2. ASSUME NEW d \in Clients,
                 Enqueue(d) \/ Dispatch(d) \/ Wait(d) \/ Release(d) \/ ShutDown(d)
                    \/ Join(d)
          PROVE  FALSE
      BY <3>2, Zenon DEF Enqueue, Dispatch, Wait, WaitTest, Release, ShutDown, Join, IInv,
                  TypeOK
    <3>3. ASSUME NEW d \in Clients, WaitAgain(d) PROVE goal[c] <= executed_timestamp
      BY <3>3 DEF WaitAgain, WaitTest, IInv, TypeOK
    <3> QED BY <3>1, <3>2, <3>3 DEF Next, InCall
  <2> QED BY <2>1 DEF IInv, TypeOK
<1> QED BY <1>1, ClikInvariance, PTL DEF Spec, WaitOutlastsCommands

\* Every step of the clik queue is a step of an in-order queue, or leaves it as
\* it is.
THEOREM ClikImplementsInOrder == Spec => ImplementsInOrder
<1>1. Init => InOrder!Init
  BY DEF Init, InOrder!Init
<1>2. IInv /\ [Next]_vars => [InOrder!Next]_(InOrder!vars)
  <2> SUFFICES ASSUME IInv, [Next]_vars PROVE [InOrder!Next]_(InOrder!vars)
    BY Zenon
  <2> USE DEF InOrder!vars, InOrder!Next
  <2>1. CASE Executed
    <3>1. Head(commands) = executed_timestamp + 1 /\ Head(commands) <= current
      BY <2>1, HeadIsNext, Zenon DEF Executed, IInv
    <3> QED BY <2>1, <3>1 DEF Executed, InOrder!Finish, IInv, TypeOK
  <2>2. ASSUME NEW c \in Clients, Enqueue(c) PROVE InOrder!Enqueue
    BY <2>2 DEF Enqueue, CreateCommand, InOrder!Enqueue, IInv, TypeOK
  <2>3. ASSUME NEW c \in Clients, Dispatch(c) \/ Release(c)
        PROVE  InOrder!Dispatch \/ UNCHANGED InOrder!vars
    BY <2>3, DispatchFacts, Zenon DEF Dispatch, Release, InOrder!Dispatch, IInv, TypeOK
  <2>4. CASE Top \/ SpuriousWake \/ UNCHANGED vars
    BY <2>4, Zenon DEF Top, SpuriousWake, vars
  <2>5. ASSUME NEW c \in Clients, Wait(c) \/ InCall(c) PROVE UNCHANGED InOrder!vars
    BY <2>5, Zenon DEF Wait, InCall, WaitAgain, ShutDown, Join
  <2> QED BY <2>1, <2>2, <2>3, <2>4, <2>5 DEF Next, WorkerStep
<1> QED BY <1>1, <1>2, ClikInvariance, PTL DEF Spec, ImplementsInOrder, InOrder!Spec
================================================================================
