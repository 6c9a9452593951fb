------------------------------ MODULE InOrderQueue ------------------------------
(***************************************************************************)
(* What an in-order command queue promises, without lists, locks or        *)
(* threads: commands are numbered as they are enqueued, a dispatch lets    *)
(* all of those run, and they finish one after the other in that order.    *)
(***************************************************************************)
EXTENDS Naturals

VARIABLES enqueued, dispatched, finished

vars == <<enqueued, dispatched, finished>>

Init == enqueued = 0 /\ dispatched = 0 /\ finished = 0

Enqueue == enqueued' = enqueued + 1 /\ UNCHANGED <<dispatched, finished>>

Dispatch == dispatched' = enqueued /\ UNCHANGED <<enqueued, finished>>

Finish ==
    /\ finished < dispatched
    /\ finished' = finished + 1
    /\ UNCHANGED <<enqueued, dispatched>>

Next == Enqueue \/ Dispatch \/ Finish

Spec == Init /\ [][Next]_vars
================================================================================
