------------------------------- MODULE EventLog -------------------------------
(***************************************************************************)
(* What the ingestion pipeline promises, without its threads, statements   *)
(* and vectors: an event log into which an event id is accepted once, and  *)
(* from which events are retired only after a digest (an episode) of their *)
(* session has recorded them.                                              *)
(***************************************************************************)
CONSTANTS EventIds, Sessions, Users, Bodies, NoRow

VARIABLES
    log,       \* what was accepted under each event id, or NoRow
    digests,   \* the digests, each of some events of one session of one owner
    retired    \* the events that need no further digestion

Payloads == [session : Sessions, user : Users, body : Bodies]

Init ==
    /\ log = [e \in EventIds |-> NoRow]
    /\ digests = {}
    /\ retired = {}

\* A message takes an id that nothing was accepted under.
Accept(e, p) ==
    /\ log[e] = NoRow
    /\ log' = [log EXCEPT ![e] = p]
    /\ UNCHANGED <<digests, retired>>

\* A digest of accepted events, all of one session and one owner.
Digest(s, u, E) ==
    /\ E # {}
    /\ \A e \in E : log[e] # NoRow /\ log[e].session = s /\ log[e].user = u
    /\ digests' = digests \cup {[session |-> s, user |-> u, events |-> E]}
    /\ UNCHANGED <<log, retired>>

\* Only what a digest covers is retired.
Retire(d) ==
    /\ d \in digests
    /\ retired' = retired \cup d.events
    /\ UNCHANGED <<log, digests>>

Next ==
    \/ \E e \in EventIds, p \in Payloads : Accept(e, p)
    \/ \E s \in Sessions, u \in Users, E \in SUBSET EventIds : Digest(s, u, E)
    \/ \E d \in digests : Retire(d)

Spec == Init /\ [][Next]_<<log, digests, retired>>
================================================================================
