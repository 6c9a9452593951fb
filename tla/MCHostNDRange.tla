----------------------------- MODULE MCHostNDRange -----------------------------
(* Small instances of HostNDRange for TLC. *)
EXTENDS HostNDRange

CONSTANTS t1, t2, g1, g2, g3
================================================================================
