----------------------------- MODULE MCClRefCount -----------------------------
(* Small instances of ClRefCount for TLC. *)
EXTENDS ClRefCount

CONSTANTS t1, t2, t3, r1, r2, r3, r4
===============================================================================
