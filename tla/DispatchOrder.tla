----------------------------- MODULE DispatchOrder -----------------------------
(***************************************************************************)
(* What muxDispatch promises of the order in which command buffers run,    *)
(* without semaphores, counts or threads: a dispatch names the dispatches  *)
(* it comes after, made already or not, it starts when each of them has    *)
(* executed and has called its user_function, and one that completes holds *)
(* nobody back.                                                            *)
(***************************************************************************)
CONSTANT Groups

VARIABLES
    phase,   \* of the current dispatch of each group
    after    \* the dispatches it still has to wait for

vars == <<phase, after>>

Phases == {"idle", "waiting", "running", "called"}

Init ==
    /\ phase = [g \in Groups |-> "idle"]
    /\ after = [g \in Groups |-> {}]

Move(g, from, to) == phase[g] = from /\ phase' = [phase EXCEPT ![g] = to]

Dispatch(g) ==
    /\ Move(g, "idle", "waiting")
    /\ \E S \in SUBSET Groups :
          after' = [after EXCEPT ![g] = S]

Start(g) ==
    /\ Move(g, "waiting", "running")
    /\ after[g] = {}
    /\ UNCHANGED after

Call(g) == Move(g, "running", "called") /\ UNCHANGED after

\* The semaphores of g are signalled one by one, each releases some groups.
Release(g) ==
    /\ phase[g] = "called"
    /\ \E S \in SUBSET Groups :
          after' = [h \in Groups |-> after[h] \ (IF h \in S THEN {g} ELSE {})]
    /\ UNCHANGED phase

Complete(g) ==
    /\ Move(g, "called", "idle")
    /\ \A h \in Groups : g \notin after[h]
    /\ UNCHANGED after

Next == \E g \in Groups :
    Dispatch(g) \/ Start(g) \/ Call(g) \/ Release(g) \/ Complete(g)

Spec == Init /\ [][Next]_vars
================================================================================
