------------------------------ MODULE MCClikQueue ------------------------------
(* Small instances of ClikQueue for TLC. *)
EXTENDS ClikQueue

CONSTANTS c1, c2
================================================================================
