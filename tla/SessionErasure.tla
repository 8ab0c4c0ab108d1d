----------------------------- MODULE SessionErasure -----------------------------
(***************************************************************************)
(* The session pipeline together with the operations that remove data and  *)
(* the one that stores an event without looking at sessions:               *)
(* delete_session, delete_user_data and ingest_event.  Each of them is one *)
(* statement or one transaction, and none of them waits for the appends    *)
(* and compactions that other threads have in progress.                    *)
(***************************************************************************)
EXTENDS SessionPipeline

CONSTANTS
    Ingests,      \* what the robot adapters may ingest: [session, user, id, body]
    MaxRemovals   \* how many removals a behaviour contains

ASSUME ErasureAssumption ==
    /\ Ingests \subseteq [session : Sessions, user : Users, id : EventIds, body : Bodies]
    /\ MaxRemovals \in Nat

VARIABLES
    removals,  \* history: how many removals so far
    erased,    \* history: per user, whether delete_user_data has returned after the user's
               \* last request: "no", "quiet" (nothing of the user's was in progress when the
               \* data was deleted), or "racing"
    ingested,  \* history: the ids that ingest_event has drawn
    raced      \* history: the users whose data was ever deleted while an operation of theirs
               \* was in progress

allVars == <<vars, removals, erased, ingested, raced>>

ErasureInit ==
    /\ Init
    /\ removals = 0
    /\ erased = [u \in Users |-> "no"]
    /\ ingested = {}
    /\ raced = {}

--------------------------------------------------------------------------------
WorksFor(w, u) == job[w].pc # "idle" /\ job[w].user = u

\* delete_user_data waits for no other thread.
Erases(u) ==
    LET race == \E w \in Workers : WorksFor(w, u)
    IN  /\ erased' = [erased EXCEPT ![u] = IF race THEN "racing" ELSE "quiet"]
        /\ raced' = IF race THEN raced \cup {u} ELSE raced

\* A request of a user, after the user's data was deleted, starts the user afresh.
Forgets(u) == erased' = [erased EXCEPT ![u] = "no"]

PipelineStep ==
    /\ Next
    /\ \/ /\ \A w \in Workers : job[w].pc = "idle" => job'[w].pc = "idle"
          /\ UNCHANGED erased
       \/ \E w \in Workers : job[w].pc = "idle" /\ job'[w].pc # "idle" /\ Forgets(job'[w].user)
    /\ UNCHANGED <<removals, ingested, raced>>

\* ingest_event: one insert under a fresh UUID; the session is a column like any other.
IngestEvent ==
    /\ \E i \in Ingests :
          /\ i.id \notin ingested /\ ~Stored(i.id)
          /\ ingested' = ingested \cup {i.id}
          /\ events' = [events EXCEPT ![i.id] =
                [session |-> i.session, user |-> i.user, body |-> i.body,
                 vec |-> "null", purified |-> FALSE, processed |-> FALSE]]
          /\ Forgets(i.user)
    /\ UNCHANGED <<sessions, notes, episodes, narratives, job, acked, overlap, used, removals,
                   raced>>

\* delete_session removes the session's row, and with it its notes.
DeleteSession(s) ==
    /\ removals < MaxRemovals
    /\ removals' = removals + 1
    /\ sessions' = [sessions EXCEPT ![s] = NoUser]
    /\ notes' = [notes EXCEPT ![s] = <<>>]
    /\ UNCHANGED <<events, episodes, narratives, job, acked, overlap, used, erased, ingested,
                   raced>>

DeleteBySession(u) ==
    /\ removals < MaxRemovals
    /\ removals' = removals + 1
    /\ LET mine == {s \in Sessions : sessions[s] = u}
       IN  /\ sessions' = [s \in Sessions |-> IF s \in mine THEN NoUser ELSE sessions[s]]
           /\ notes' = [s \in Sessions |-> IF s \in mine THEN <<>> ELSE notes[s]]
           /\ events' = [e \in EventIds |-> IF Stored(e) /\ events[e].session \in mine
                                              THEN NoRow ELSE events[e]]
           /\ episodes' = {ep \in episodes : ep.session \notin mine}
           /\ narratives' = {n \in narratives : n.session \notin mine}
    /\ Erases(u)
    /\ UNCHANGED <<job, acked, overlap, used, ingested>>

EpisodesBySession(u) ==
    /\ removals < MaxRemovals
    /\ removals' = removals + 1
    /\ sessions' = [s \in Sessions |-> IF sessions[s] = u THEN NoUser ELSE sessions[s]]
    /\ notes' = [s \in Sessions |-> IF sessions[s] = u THEN <<>> ELSE notes[s]]
    /\ events' = [e \in EventIds |-> IF Stored(e) /\ events[e].user = u THEN NoRow ELSE events[e]]
    /\ episodes' = {ep \in episodes : sessions[ep.session] # u}
    /\ narratives' = {n \in narratives : n.user # u}
    /\ Erases(u)
    /\ UNCHANGED <<job, acked, overlap, used, ingested>>

\* delete_user_data: every row of the user's, in one transaction.
DeleteUserData(u) ==
    /\ removals < MaxRemovals
    /\ removals' = removals + 1
    /\ sessions' = [s \in Sessions |-> IF sessions[s] = u THEN NoUser ELSE sessions[s]]
    /\ notes' = [s \in Sessions |-> IF sessions[s] = u THEN <<>> ELSE notes[s]]
    /\ events' = [e \in EventIds |-> IF Stored(e) /\ events[e].user = u THEN NoRow ELSE events[e]]
    /\ episodes' = {ep \in episodes : ep.user # u}
    /\ narratives' = {n \in narratives : n.user # u}
    /\ Erases(u)
    /\ UNCHANGED <<job, acked, overlap, used, ingested>>

ErasureNext ==
    \/ PipelineStep
    \/ IngestEvent
    \/ \E s \in Sessions : DeleteSession(s)
    \/ \E u \in Users : DeleteUserData(u)

ErasureSpec == ErasureInit /\ [][ErasureNext]_allVars

--------------------------------------------------------------------------------
(* Properties *)

\* Some table has a row of the user's.
HasRows(u) ==
    \/ \E s \in Sessions : sessions[s] = u
    \/ \E e \in EventIds : Stored(e) /\ events[e].user = u
    \/ \E d \in episodes \cup narratives : d.user = u

\* "GDPR: Delete ALL data for a specific user across every table": what other users do
\* afterwards, and what they had in progress, brings nothing of the user's back.
QuietErasureHolds == \A u \in Users : erased[u] = "quiet" => ~HasRows(u)

\* The same of every deletion, whatever was in progress when it ran.
ErasureHolds == \A u \in Users : erased[u] # "no" => ~HasRows(u)

\* Erasing one user takes nothing from another one: an event of a user whose data was
\* not deleted stays stored as it was accepted, in whatever session and whoever owns
\* the session now.
OthersKeepTheirEvents ==
    [][\A e \in EventIds : Stored(e) =>
          \/ erased'[events[e].user] # "no"
          \/ Stored(e)' /\ ExactReplay(events[e]', events[e], events[e])]_allVars

\* delete_user_data goes by each table's own user column.  Between the two inserts of a
\* compaction, and in sessions that changed hands, it still leaves no narrative without its
\* episode, unless it ran while an operation of the same user was in progress.
NoTornDigests ==
    \A n \in narratives : n.user \notin raced =>
        \E ep \in episodes : ep.id = n.episode /\ ep.events = n.events

\* "A `session_id` is permanently bound to its first `user_id`" (README.md:299): so an
\* episode of a session never tells its owner of another user's events.
TenantsStayApart ==
    \A ep \in episodes : \A e \in ep.events : Stored(e) => events[e].user = ep.user
================================================================================
