---------------------------- MODULE MCSessionErasure ----------------------------
(* SessionErasure on a small instance: two users of one session id. *)
EXTENDS SessionErasure

CONSTANTS w1, w2, s1, u1, u2, e1, e2, e3, b1

\* Either user may take the session; an event id of the second user's may be taken.
MCRequests ==
    { [session |-> s1, user |-> u1, msgs |-> <<[id |-> e2, body |-> b1]>>],
      [session |-> s1, user |-> u1, msgs |-> <<[id |-> e1, body |-> b1]>>],
      [session |-> s1, user |-> u2, msgs |-> <<[id |-> e2, body |-> b1]>>] }

\* An adapter ingests an event of the first user into the session.
MCIngests == { [session |-> s1, user |-> u1, id |-> e3, body |-> b1] }
NoIngests == {}
================================================================================
