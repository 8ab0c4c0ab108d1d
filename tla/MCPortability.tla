------------------------------ MODULE MCPortability ------------------------------
(* Portability on a small instance: two stores, two users and one session id. *)
EXTENDS Portability

CONSTANTS storeA, storeB, u1, u2, s1, e1
================================================================================
