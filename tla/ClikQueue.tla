------------------------------- MODULE ClikQueue -------------------------------
(***************************************************************************)
(* The asynchronous command queue of clik: clik_command_queue.cpp, and     *)
(* clik_create_command of clik_async.cpp.                                  *)
(*                                                                         *)
(* Everything happens under device->lock except the execution of a         *)
(* command, so a step is a critical section: what a thread does from one   *)
(* acquisition of the lock to its release, or to its wait on a condition.  *)
(* A command is its timestamp.  A call that returns false or null without  *)
(* a change (no queue, a bad range, clik_create_command after shutdown,    *)
(* nothing new to dispatch) is a stutter.                                  *)
(***************************************************************************)
EXTENDS Integers, Sequences

CONSTANTS
    Clients,       \* the threads that call the API
    MaxCommands,   \* bound: how many commands are enqueued
    Overlap        \* whether they dispatch or release while commands are left

ASSUME ClikAssumption == MaxCommands \in Nat /\ Overlap \in BOOLEAN

VARIABLES
    commands, next_command_timestamp, dispatched_timestamp, executed_timestamp,
    shutdown,      \* the members of clik_command_queue
    worker,        \* where the worker thread is
    current,       \* its local of that name
    pc,            \* where each client is
    goal,          \* the local current_timestamp of clik_wait
    ran            \* history: the commands whose execution has ended

queueVars == <<commands, next_command_timestamp, dispatched_timestamp,
               executed_timestamp, shutdown>>
vars == <<queueVars, worker, current, pc, goal, ran>>

Init ==
    /\ commands = << >>
    /\ next_command_timestamp = 1
    /\ dispatched_timestamp = 0 /\ executed_timestamp = 0
    /\ shutdown = FALSE
    /\ worker = "top" /\ current = 0
    /\ pc = [c \in Clients |-> "idle"]
    /\ goal = [c \in Clients |-> 0]
    /\ ran = {}

-------------------------------------------------------------------------------
\* clik_worker_thread

\* The head of the for loop: run the first command if it was dispatched when the
\* pass began, without the lock, or go to sleep on `dispatched`.  Only a pass that
\* executed a command notifies clik_wait.
NextCommand(left, limit) ==
    worker' = IF left # << >> /\ Head(left) <= limit THEN "exec" ELSE "asleep"

\* The head of the while loop, also after a wake-up: no predicate is tested.
Top ==
    /\ worker = "top"
    /\ IF shutdown
       THEN worker' = "exited" /\ UNCHANGED current
       ELSE /\ current' = dispatched_timestamp
            /\ NextCommand(commands, dispatched_timestamp)
    /\ UNCHANGED <<queueVars, pc, goal, ran>>

\* Mutant: a pass ends without waking clik_wait.
WakeWaitersMissing == pc' = pc

\* executed.notify_all
WakeWaiters ==
    pc' = [c \in Clients |-> IF pc[c] = "wait_asleep" THEN "wait" ELSE pc[c]]

\* clik_execute_command ends; whether it succeeded is only printed.
Execute(command) == ran' = ran \cup {command}

\* Mutant: the timestamp of the last command enqueued is taken for executed.
ExecutedAhead ==
    /\ worker = "exec"
    /\ executed_timestamp' = current
    /\ Execute(Head(commands))
    /\ commands' = Tail(commands)
    /\ NextCommand(Tail(commands), current)
    /\ IF worker' = "asleep" THEN WakeWaiters ELSE UNCHANGED pc
    /\ UNCHANGED <<next_command_timestamp, dispatched_timestamp, shutdown,
                   current, goal>>

\* The command has been executed, successfully or not; the lock is taken again.
Executed ==
    /\ worker = "exec"
    /\ executed_timestamp' = Head(commands)
    /\ Execute(Head(commands))
    /\ commands' = Tail(commands)
    /\ NextCommand(Tail(commands), current)
    /\ IF worker' = "asleep" THEN WakeWaiters ELSE UNCHANGED pc
    /\ UNCHANGED <<next_command_timestamp, dispatched_timestamp, shutdown,
                   current, goal>>

-------------------------------------------------------------------------------
\* The API.  No call but the release starts once the release has.

Open == \A c \in Clients : pc[c] \in {"idle", "wait", "wait_asleep"}

\* clik_create_command: the new command gets the next timestamp.
CreateCommand ==
    /\ ~shutdown
    /\ next_command_timestamp <= MaxCommands
    /\ next_command_timestamp' = next_command_timestamp + 1

\* clik_create_command and push_back, in each of the clik_enqueue functions.
Enqueue(c) ==
    /\ pc[c] = "idle" /\ Open
    /\ CreateCommand
    /\ commands' = Append(commands, next_command_timestamp)
    /\ UNCHANGED <<dispatched_timestamp, executed_timestamp, shutdown, worker,
                   current, pc, goal, ran>>

Timestamps == {commands[k] : k \in DOMAIN commands}

MostRecent ==
    IF commands = << >> THEN 0
    ELSE CHOOSE m \in Timestamps : \A n \in Timestamps : n <= m

\* dispatched.notify_all: lost unless the worker is asleep.
WakeWorker == worker' = IF worker = "asleep" THEN "top" ELSE worker

\* Mutant: all timestamps handed out so far, and the next one.
DispatchCommandsPast ==
    IF MostRecent <= dispatched_timestamp
    THEN UNCHANGED <<dispatched_timestamp, worker>>
    ELSE dispatched_timestamp' = MostRecent + 1 /\ WakeWorker

\* The body of clik_dispatch.
DispatchCommands ==
    IF MostRecent <= dispatched_timestamp
    THEN UNCHANGED <<dispatched_timestamp, worker>>
    ELSE dispatched_timestamp' = MostRecent /\ WakeWorker

Dispatch(c) ==
    /\ pc[c] = "idle" /\ Open
    /\ Overlap \/ executed_timestamp = dispatched_timestamp
    /\ DispatchCommands
    /\ UNCHANGED <<commands, next_command_timestamp, executed_timestamp, shutdown,
                   current, pc, goal, ran>>

\* Mutant: the test is off by one.
WaitTestEarly(c, limit) ==
    pc' = [pc EXCEPT ![c] =
              IF executed_timestamp + 1 < limit THEN "wait_asleep" ELSE "idle"]

\* The loop of clik_wait.
WaitTest(c, limit) ==
    pc' = [pc EXCEPT ![c] =
              IF executed_timestamp < limit THEN "wait_asleep" ELSE "idle"]

\* clik_wait, up to executed.wait, and from there on.
Wait(c) ==
    /\ pc[c] = "idle" /\ Open
    /\ goal' = [goal EXCEPT ![c] = dispatched_timestamp]
    /\ WaitTest(c, dispatched_timestamp)
    /\ UNCHANGED <<queueVars, worker, current, ran>>

WaitAgain(c) ==
    /\ pc[c] = "wait"
    /\ WaitTest(c, goal[c])
    /\ UNCHANGED <<queueVars, worker, current, goal, ran>>

\* clik_release_command_queue: dispatch what is left, ...
Release(c) ==
    /\ \A d \in Clients : pc[d] = "idle"
    /\ Overlap \/ commands = << >>
    /\ DispatchCommands
    /\ pc' = [pc EXCEPT ![c] = "shut"]
    /\ UNCHANGED <<commands, next_command_timestamp, executed_timestamp, shutdown,
                   current, goal, ran>>

\* ... shut down, ...
ShutDown(c) ==
    /\ pc[c] = "shut"
    /\ shutdown' = TRUE
    /\ WakeWorker
    /\ pc' = [pc EXCEPT ![c] = "join"]
    /\ UNCHANGED <<commands, next_command_timestamp, dispatched_timestamp,
                   executed_timestamp, current, goal, ran>>

\* ... and delete the queue when the worker has exited.
Join(c) ==
    /\ pc[c] = "join"
    /\ worker = "exited"
    /\ pc' = [pc EXCEPT ![c] = "released"]
    /\ UNCHANGED <<queueVars, worker, current, goal, ran>>

\* Both waits may wake for nothing.
SpuriousWake ==
    \/ /\ worker = "asleep"
       /\ worker' = "top"
       /\ UNCHANGED <<queueVars, current, pc, goal, ran>>
    \/ /\ \E c \in Clients :
             pc[c] = "wait_asleep" /\ pc' = [pc EXCEPT ![c] = "wait"]
       /\ UNCHANGED <<queueVars, worker, current, goal, ran>>

-------------------------------------------------------------------------------
WorkerStep == Top \/ Executed

InCall(c) == WaitAgain(c) \/ ShutDown(c) \/ Join(c)

Next ==
    \/ WorkerStep \/ SpuriousWake
    \/ \E c \in Clients :
          Enqueue(c) \/ Dispatch(c) \/ Wait(c) \/ Release(c) \/ InCall(c)

Spec == Init /\ [][Next]_vars

\* The worker and the threads inside a call keep being scheduled, commands end,
\* and nobody relies on wake-ups for nothing.
Fairness ==
    /\ <>[][~SpuriousWake]_vars
    /\ WF_vars(WorkerStep)
    /\ \A c \in Clients : WF_vars(InCall(c))

FairSpec == Spec /\ Fairness

-------------------------------------------------------------------------------
\* Properties

\* Types of the members of clik_command_queue and of the locals.
TypeOK ==
    /\ commands \in Seq(Nat)
    /\ next_command_timestamp \in Nat /\ dispatched_timestamp \in Nat
    /\ executed_timestamp \in Nat /\ current \in Nat
    /\ shutdown \in BOOLEAN
    /\ worker \in {"top", "exec", "asleep", "exited"}
    /\ pc \in [Clients -> {"idle", "wait", "wait_asleep", "shut", "join",
                           "released"}]
    /\ goal \in [Clients -> Nat]
    /\ ran \subseteq Nat

\* The list holds the commands not yet executed, in order and without a gap, no
\* timestamp is ahead of the one it follows, and those up to executed_timestamp
\* are exactly the commands that have run.
IInv ==
    /\ TypeOK
    /\ executed_timestamp <= dispatched_timestamp
    /\ dispatched_timestamp < next_command_timestamp
    /\ current <= dispatched_timestamp
    /\ Len(commands) = next_command_timestamp - 1 - executed_timestamp
    /\ \A k \in DOMAIN commands : commands[k] = executed_timestamp + k
    /\ ran = 1..executed_timestamp
    /\ worker = "exec" => commands # << >> /\ Head(commands) <= current
    /\ \A c \in Clients : goal[c] <= dispatched_timestamp

\* clik_wait returns only when every command that had been dispatched when it was
\* called has run: "Wait until the worker thread has executed all commands
\* enqueued before the most recent call to clik_dispatch."
WaitOutlastsCommands ==
    [][\A c \in Clients : pc[c] = "wait" /\ pc'[c] = "idle" =>
         1..goal[c] \subseteq ran]_vars

InOrder == INSTANCE InOrderQueue WITH
    enqueued <- next_command_timestamp - 1,
    dispatched <- dispatched_timestamp,
    finished <- executed_timestamp

\* The list, the timestamps and the unlocked execution implement an in-order
\* queue: "Commands are executed in-order", and none before it is dispatched.
ImplementsInOrder == InOrder!Spec

\* Every clik_wait returns, however calls of clik_dispatch fall on the worker.
WaitReturns ==
    \A c \in Clients : pc[c] \in {"wait", "wait_asleep"} ~> pc[c] = "idle"

\* So does every clik_release_command_queue: the worker sees the shutdown.
CallsReturn ==
    WaitReturns /\ \A c \in Clients : pc[c] = "shut" ~> pc[c] = "released"
================================================================================
