------------------------------ MODULE MCHostQueue ------------------------------
(* Small instances of HostQueue for TLC. *)
EXTENDS HostQueueOrder, TLC

CONSTANTS w1, w2, c1, g1, g2, g3, s1, s2, f1

\* A join: g3 waits for g1 and g2, and lists the semaphore of g1 twice.
MCJoinWaits == [g \in Groups |-> IF g = g3 THEN <<s1, s2, s1>> ELSE << >>]
MCJoinSignals == [g \in Groups |-> IF g = g1 THEN <<s1>>
                                   ELSE IF g = g2 THEN <<s2>> ELSE << >>]
MCJoinFence == [g \in Groups |-> IF g = g3 THEN f1 ELSE NoFence]

\* A chain: g1 before g2 before g3.
MCChainWaits == [g \in Groups |-> IF g = g2 THEN <<s1>>
                                  ELSE IF g = g3 THEN <<s2>> ELSE << >>]
MCChainSignals == [g \in Groups |-> IF g = g1 THEN <<s1>>
                                    ELSE IF g = g2 THEN <<s2>> ELSE << >>]
MCChainFence == [g \in Groups |-> IF g = g3 THEN f1 ELSE NoFence]

MCSymmetry == Permutations(Workers)
================================================================================
