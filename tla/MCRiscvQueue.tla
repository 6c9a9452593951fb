------------------------------ MODULE MCRiscvQueue ------------------------------
(* A small instance of RiscvQueue for TLC. *)
EXTENDS RiscvQueue

CONSTANTS c1, c2, w, g1, g2, g3, s1, s2, f1

\* A chain: g2 waits for g1, g3 for g2.
MCWaits == [g \in Groups |-> IF g = g2 THEN {s1} ELSE IF g = g3 THEN {s2} ELSE {}]
MCSignals == [g \in Groups |-> IF g = g1 THEN {s1} ELSE IF g = g2 THEN {s2} ELSE {}]
MCFence == [g \in Groups |-> IF g = g2 THEN f1 ELSE NoFence]
================================================================================
