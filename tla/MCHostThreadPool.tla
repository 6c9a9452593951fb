--------------------------- MODULE MCHostThreadPool ---------------------------
(* Small instances of HostThreadPool for TLC. *)
EXTENDS HostThreadPool

CONSTANTS w1, w2, c1, c2, i1, i2, i3, s1, n1

\* i1 and i3 are dispatches with the same fence, i2 carries no signal; all count
\* on one counter, the runningGroups of a queue.
MCSignalOf == [i \in Items |-> IF i \in {i1, i3} THEN s1 ELSE NoSignal]
MCNoSignalOf == [i \in Items |-> NoSignal]
MCCountOf == [i \in Items |-> n1]
MCRanges == {<<i2, i3>>}
====
