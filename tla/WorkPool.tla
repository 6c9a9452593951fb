------------------------------- MODULE WorkPool -------------------------------
(***************************************************************************)
(* What host::thread_pool_s promises its callers, without threads, locks   *)
(* or a ring: a bounded first-in first-out queue of work whose items each  *)
(* start once, in the order they were stored, run side by side, and end.   *)
(* Closing the pool leaves what is still queued undone.                    *)
(***************************************************************************)
EXTENDS Naturals, Sequences

CONSTANTS Items, Capacity

VARIABLES pending, stage, open

vars == <<pending, stage, open>>

Init ==
    /\ pending = << >>
    /\ stage = [i \in Items |-> "new"]
    /\ open = TRUE

\* A caller hands in one item (enqueue) or several (enqueue_range).
Submit(batch) ==
    /\ \A i \in batch : stage[i] = "new"
    /\ stage' = [i \in Items |-> IF i \in batch THEN "submitted" ELSE stage[i]]
    /\ UNCHANGED <<pending, open>>

Push(i) ==
    /\ stage[i] = "submitted"
    /\ Len(pending) < Capacity
    /\ pending' = Append(pending, i)
    /\ stage' = [stage EXCEPT ![i] = "queued"]
    /\ UNCHANGED open

Start ==
    /\ open
    /\ pending # << >>
    /\ stage' = [stage EXCEPT ![Head(pending)] = "running"]
    /\ pending' = Tail(pending)
    /\ UNCHANGED open

Finish(i) ==
    /\ stage[i] = "running"
    /\ stage' = [stage EXCEPT ![i] = "done"]
    /\ UNCHANGED <<pending, open>>

Close ==
    /\ open' = FALSE
    /\ UNCHANGED <<pending, stage>>

Next ==
    \/ \E batch \in SUBSET Items : Submit(batch)
    \/ \E i \in Items : Push(i) \/ Finish(i)
    \/ Start
    \/ Close

Spec == Init /\ [][Next]_vars
===============================================================================
