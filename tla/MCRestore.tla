-------------------------------- MODULE MCRestore --------------------------------
(* Restore on a small instance: two writes, a backup made in between, and one of     *)
(* another configuration.                                                          *)
EXTENDS Restore

CONSTANTS d1, d2, mine, foreign, c1, c2
================================================================================
