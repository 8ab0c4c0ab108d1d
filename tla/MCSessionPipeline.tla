--------------------------- MODULE MCSessionPipeline ---------------------------
(* SessionPipeline on a small instance: one session, two users that race for it. *)
EXTENDS SessionPipeline, TLC

CONSTANTS w1, w2, s1, u1, u2, e1, e2, b1, b2

Msg(e, b) == [id |-> e, body |-> b]

\* A two-event batch, a batch that overlaps it, the reuse of an id with another
\* payload, and another user who claims the session.
MCRequests ==
    { [session |-> s1, user |-> u1, msgs |-> <<Msg(e1, b1), Msg(e2, b1)>>],
      [session |-> s1, user |-> u1, msgs |-> <<Msg(e2, b1)>>],
      [session |-> s1, user |-> u1, msgs |-> <<Msg(e1, b2)>>],
      [session |-> s1, user |-> u2, msgs |-> <<Msg(e2, b1)>>] }

\* The two threads are alike, and no property of the run is one of liveness.
AlikeThreads == Permutations({w1, w2})
================================================================================
