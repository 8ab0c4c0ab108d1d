---------------------------- MODULE SessionPipeline ----------------------------
(***************************************************************************)
(* The ingestion and compaction pipeline of memme-core: append_events and  *)
(* compact (memory/compact_ops.rs) over the sessions, events, episodes and *)
(* memories tables (storage/session.rs, stream.rs, episode.rs, crud.rs).   *)
(*                                                                         *)
(* A MemoryStore is shared by the threads of a server (spawn_blocking), so *)
(* several operations are in progress at once.  Every Backend call holds   *)
(* the connection's mutex for one statement or one transaction: that is    *)
(* the grain of an action here.  A worker is a thread; job[w] is what its  *)
(* operation keeps on the stack between two statements.                    *)
(***************************************************************************)
EXTENDS Naturals, Sequences, FiniteSets

CONSTANTS
    Workers,      \* threads that run operations on the store
    Sessions,     \* session ids
    Users,        \* owners
    EventIds,     \* caller-provided event ids
    Bodies,       \* what else distinguishes two messages: role, content, time, metadata
    Requests,     \* the append requests the clients may send
    NoUser,       \* "no such session", "no user"
    NoSession,
    NoRow,        \* "no such event"
    NotesCap,     \* how many note lines fit in the 2000 characters of structured_notes
    ShortBatches, \* the embedder may answer compact with fewer vectors than texts
    MaxAppends, MaxCompacts, MaxFaults   \* bounds on what a behaviour contains

Messages == [id : EventIds, body : Bodies]
RequestType == [session : Sessions, user : Users, msgs : Seq(Messages)]

\* What the columns of an event row tell apart.  vec is content_vec: NULL, the
\* embedding of the raw content, or the embedding of the purified content.
Vectors == {"null", "raw", "purified"}
Rows == [session : Sessions, user : Users, body : Bodies,
         vec : Vectors, purified : BOOLEAN, processed : BOOLEAN]
\* What a row keeps of the message that was accepted.
Payloads == [session : Sessions, user : Users, body : Bodies]

ASSUME ConstantsAssumption ==
    /\ NoUser \notin Users
    /\ NoSession \notin Sessions
    /\ NoRow \notin Rows \cup Payloads
    /\ NotesCap \in Nat
    /\ ShortBatches \in BOOLEAN
    /\ MaxAppends \in Nat /\ MaxCompacts \in Nat /\ MaxFaults \in Nat

\* append_events_idempotent rejects an empty request before it stores anything and
\* a request that names an event twice.
ASSUME RequestsAssumption ==
    \A r \in Requests :
        /\ r \in RequestType
        /\ r.msgs # <<>>
        /\ \A i, j \in 1 .. Len(r.msgs) : r.msgs[i].id = r.msgs[j].id => i = j

VARIABLES
    sessions,    \* sessions.user_id: the owner of each session row, or NoUser
    notes,       \* sessions.structured_notes: the events that have a note line, in order
    events,      \* the events table
    episodes,    \* the episodes table
    narratives,  \* the immutable narrative rows of the memories table
    job,         \* per worker: the operation in progress
    acked,       \* history: the messages that an Ok(AppendEventsResult) accepted
    overlap,     \* history: two compactions of one session have been in progress at once
    used         \* history: how many appends, compactions, faults and episodes so far, and
                 \* the events that an embedder has left out of an answer to compact

table == <<sessions, notes, events, episodes, narratives>>
vars == <<sessions, notes, events, episodes, narratives, job, acked, overlap, used>>

Idle == [pc |-> "idle", session |-> NoSession, user |-> NoUser, msgs |-> <<>>,
         todo |-> {}, fresh |-> {}, bare |-> {}, emb |-> FALSE, written |-> <<>>,
         notes |-> <<>>, taken |-> {}, left |-> {}, about |-> {}, episode |-> 0]

Init ==
    /\ sessions = [s \in Sessions |-> NoUser]
    /\ notes = [s \in Sessions |-> <<>>]
    /\ events = [e \in EventIds |-> NoRow]
    /\ episodes = {}
    /\ narratives = {}
    /\ job = [w \in Workers |-> Idle]
    /\ acked = {}
    /\ overlap = FALSE
    /\ used = [appends |-> 0, compacts |-> 0, faults |-> 0, episodes |-> 0, unanswered |-> {}]

--------------------------------------------------------------------------------
(* Helpers *)

Stored(e) == events[e] # NoRow

\* The position of a batch that the loop reaches next.
IsNext(S, i) == i \in S /\ \A j \in S : i <= j

\* The comparison that makes a repeated event id a replay.
ExactReplay(row, j, m) ==
    /\ row.session = j.session
    /\ row.user = j.user
    /\ row.body = m.body

\* What a step leaves of the operation of thread w.
Becomes(w, j) == job' = [job EXCEPT ![w] = j]
Goto(w, label) == Becomes(w, [job[w] EXCEPT !.pc = label])
Return(w) == Becomes(w, Idle)

UncappedNotes(lines) == lines

\* structured_notes is cut to its first 2000 characters at every append.
Capped(lines) == SubSeq(lines, 1, IF Len(lines) < NotesCap THEN Len(lines) ELSE NotesCap)

SetOf(seq) == {seq[i] : i \in 1 .. Len(seq)}

\* Every statement that does not change the tables.
ReadOnly == UNCHANGED <<sessions, notes, events, episodes, narratives, acked, overlap, used>>

\* validate_session_identity, after the session row has been read.
SessionAdmits(s, u) == sessions[s] = u

Compacting(w) ==
    job[w].pc \in {"read", "update", "narrative", "mark", "clear"}

--------------------------------------------------------------------------------
(* append_events_idempotent *)

AppendStart(w) ==
    /\ job[w].pc = "idle"
    /\ used.appends < MaxAppends
    /\ \E r \in Requests :
          Becomes(w, [Idle EXCEPT !.pc = "session", !.session = r.session, !.user = r.user,
                                  !.msgs = r.msgs, !.todo = 1 .. Len(r.msgs)])
    /\ used' = [used EXCEPT !.appends = @ + 1]
    /\ UNCHANGED <<table, acked, overlap>>

\* get_or_create_session: the first read.
AppendReadSession(w) ==
    /\ job[w].pc = "session"
    /\ LET s == job[w].session
       IN  \/ sessions[s] = NoUser /\ Goto(w, "create")
           \/ sessions[s] # NoUser /\ SessionAdmits(s, job[w].user) /\ Goto(w, "lookup")
           \/ sessions[s] # NoUser /\ ~SessionAdmits(s, job[w].user) /\ Return(w)
    /\ ReadOnly

\* get_or_create_session: INSERT ... ON CONFLICT DO NOTHING.
AppendCreateSession(w) ==
    /\ job[w].pc = "create"
    /\ LET s == job[w].session
       IN  sessions' = [sessions EXCEPT ![s] = IF @ = NoUser THEN job[w].user ELSE @]
    /\ Goto(w, "recheck")
    /\ UNCHANGED <<notes, events, episodes, narratives, acked, overlap, used>>

TrustInsertedSession(w) ==
    /\ job[w].pc = "recheck"
    /\ Goto(w, "lookup")
    /\ ReadOnly

\* get_or_create_session: another request may have won the race for the session.
AppendRecheckSession(w) ==
    /\ job[w].pc = "recheck"
    /\ IF SessionAdmits(job[w].session, job[w].user) THEN Goto(w, "lookup") ELSE Return(w)
    /\ ReadOnly

\* get_event: a new event, a replay, or an id reused with another payload.
AppendLookup(w) ==
    /\ job[w].pc = "lookup"
    /\ \E i \in job[w].todo :
          /\ IsNext(job[w].todo, i)
          /\ LET m == job[w].msgs[i]
                 row == events[m.id]
             IN  \/ /\ row = NoRow
                    /\ Becomes(w, [job[w] EXCEPT !.fresh = @ \cup {i}, !.todo = @ \ {i}])
                 \/ row # NoRow /\ ExactReplay(row, job[w], m) /\ Goto(w, "probe")
                 \/ row # NoRow /\ ~ExactReplay(row, job[w], m) /\ Return(w)
    /\ ReadOnly

\* event_has_embedding: a replay of an event without a vector becomes a backfill.
AppendProbe(w) ==
    /\ job[w].pc = "probe"
    /\ \E i \in job[w].todo :
          /\ IsNext(job[w].todo, i)
          /\ LET row == events[job[w].msgs[i].id]
             IN  \/ row = NoRow /\ Return(w)
                 \/ /\ row # NoRow
                    /\ Becomes(w, [job[w] EXCEPT !.pc = "lookup", !.todo = @ \ {i},
                                   !.bare = IF row.vec = "null" THEN @ \cup {i} ELSE @])
    /\ ReadOnly

\* embed_batch outside the lock.  A failed or malformed batch leaves the events raw;
\* a request with nothing to embed counts as embedded.
AppendEmbed(w) ==
    /\ job[w].pc = "lookup"
    /\ job[w].todo = {}
    /\ \E ok \in BOOLEAN :
          /\ (job[w].fresh \cup job[w].bare = {}) => ok
          /\ Becomes(w, [job[w] EXCEPT !.pc = "store", !.emb = ok,
                                    !.bare = IF ok THEN @ ELSE {}])
    /\ ReadOnly

\* backfill_event_embedding: writes the raw vector, whatever has happened to the
\* event since its vector was found to be NULL.
AppendBackfill(w) ==
    /\ job[w].pc = "store"
    /\ \E i \in job[w].bare :
          /\ IsNext(job[w].bare, i)
          /\ LET e == job[w].msgs[i].id
             IN  \/ ~Stored(e) /\ Return(w) /\ UNCHANGED events
                 \/ /\ Stored(e)
                    /\ events' = [events EXCEPT ![e].vec = "raw"]
                    /\ Becomes(w, [job[w] EXCEPT !.bare = @ \ {i}])
    /\ UNCHANGED <<sessions, notes, episodes, narratives, acked, overlap, used>>

InsertOrIgnore(w) ==
    /\ job[w].pc = "store"
    /\ job[w].bare = {}
    /\ \E i \in job[w].fresh :
          /\ IsNext(job[w].fresh, i)
          /\ LET m == job[w].msgs[i]
             IN  /\ events' = [events EXCEPT ![m.id] = IF @ # NoRow THEN @ ELSE
                          [session |-> job[w].session, user |-> job[w].user, body |-> m.body,
                           vec |-> IF job[w].emb THEN "raw" ELSE "null",
                           purified |-> FALSE, processed |-> FALSE]]
                 /\ Becomes(w, [job[w] EXCEPT !.fresh = @ \ {i}])
    /\ UNCHANGED <<sessions, notes, episodes, narratives, acked, overlap, used>>

InsertOrReplace(w) ==
    /\ job[w].pc = "store"
    /\ job[w].bare = {}
    /\ \E i \in job[w].fresh :
          /\ IsNext(job[w].fresh, i)
          /\ LET m == job[w].msgs[i]
             IN  /\ events' = [events EXCEPT ![m.id] =
                          [session |-> job[w].session, user |-> job[w].user, body |-> m.body,
                           vec |-> IF job[w].emb THEN "raw" ELSE "null",
                           purified |-> FALSE, processed |-> FALSE]]
                 /\ Becomes(w, [job[w] EXCEPT !.fresh = @ \ {i}])
    /\ UNCHANGED <<sessions, notes, episodes, narratives, acked, overlap, used>>

\* insert_event_idempotent: one transaction that looks the id up again.
AppendInsert(w) ==
    /\ job[w].pc = "store"
    /\ job[w].bare = {}
    /\ \E i \in job[w].fresh :
          /\ IsNext(job[w].fresh, i)
          /\ LET m == job[w].msgs[i]
                 row == events[m.id]
             IN  \/ /\ row = NoRow
                    /\ events' = [events EXCEPT ![m.id] =
                          [session |-> job[w].session, user |-> job[w].user, body |-> m.body,
                           vec |-> IF job[w].emb THEN "raw" ELSE "null",
                           purified |-> FALSE, processed |-> FALSE]]
                    /\ Becomes(w, [job[w] EXCEPT !.fresh = @ \ {i},
                                                 !.written = Append(@, m.id)])
                 \/ /\ row # NoRow /\ ExactReplay(row, job[w], m) /\ job[w].emb
                    /\ Goto(w, "reprobe")
                    /\ UNCHANGED events
                 \/ /\ row # NoRow /\ ExactReplay(row, job[w], m) /\ ~job[w].emb
                    /\ Becomes(w, [job[w] EXCEPT !.fresh = @ \ {i}])
                    /\ UNCHANGED events
                 \/ /\ row # NoRow /\ ~ExactReplay(row, job[w], m)
                    /\ Return(w)
                    /\ UNCHANGED events
    /\ UNCHANGED <<sessions, notes, episodes, narratives, acked, overlap, used>>

\* Another request stored the event first: event_has_embedding, then a backfill.
AppendReprobe(w) ==
    /\ job[w].pc = "reprobe"
    /\ \E i \in job[w].fresh :
          /\ IsNext(job[w].fresh, i)
          /\ LET row == events[job[w].msgs[i].id]
             IN  \/ row = NoRow /\ Return(w)
                 \/ /\ row # NoRow
                    /\ Becomes(w, [job[w] EXCEPT !.pc = "store", !.fresh = @ \ {i},
                                   !.bare = IF row.vec = "null" THEN {i} ELSE {}])
    /\ ReadOnly

\* append_structured_note: one UPDATE for the events this request inserted.
AppendNotes(w) ==
    /\ job[w].pc = "store"
    /\ job[w].bare = {} /\ job[w].fresh = {}
    /\ LET s == job[w].session
       IN  notes' = [notes EXCEPT ![s] = IF sessions[s] = NoUser \/ job[w].written = <<>>
                                           THEN @ ELSE Capped(@ \o job[w].written)]
    /\ Goto(w, "reply")
    /\ UNCHANGED <<sessions, events, episodes, narratives, acked, overlap, used>>

\* The count of unprocessed events and Ok(AppendEventsResult).  embedding_pending is
\* zero exactly when the batch was embedded.
AppendReply(w) ==
    /\ job[w].pc = "reply"
    /\ acked' = acked \cup {[session |-> job[w].session, user |-> job[w].user,
                             id |-> m.id, body |-> m.body, embedded |-> job[w].emb]
                             : m \in SetOf(job[w].msgs)}
    /\ Return(w)
    /\ UNCHANGED <<table, overlap, used>>

--------------------------------------------------------------------------------
(* compact *)

\* get_session: the owner and the notes are read once, here.
CompactStart(w, s) ==
    /\ job[w].pc = "idle"
    /\ sessions[s] # NoUser
    /\ used.compacts < MaxCompacts
    /\ Becomes(w, [Idle EXCEPT !.pc = "read", !.session = s, !.user = sessions[s],
                               !.notes = notes[s]])
    /\ overlap' = (overlap \/ \E v \in Workers : Compacting(v) /\ job[v].session = s)
    /\ used' = [used EXCEPT !.compacts = @ + 1]
    /\ UNCHANGED <<table, acked>>

AllEventsOf(s) == {e \in EventIds : Stored(e) /\ events[e].session = s}

Unprocessed(s) == {e \in EventIds : Stored(e) /\ events[e].session = s /\ ~events[e].processed}

\* What the episode's summary may tell of: the notes read at the start when the session
\* is short and has some, otherwise the events (by the LLM, or by truncation).
Summaries(E, lines) == {E} \cup (IF lines = <<>> THEN {} ELSE {SetOf(lines)})

\* get_unprocessed_events_in_session, then purification and embedding outside the lock.
\* The vectors are zipped with the events: an event without one is left out of `left`.
CompactRead(w) ==
    /\ job[w].pc = "read"
    /\ LET E == Unprocessed(job[w].session)
       IN  \/ E = {} /\ Return(w) /\ UNCHANGED used
           \/ /\ E # {}
              /\ \E about \in Summaries(E, job[w].notes), given \in SUBSET E :
                    /\ ShortBatches \/ given = E
                    /\ Becomes(w, [job[w] EXCEPT !.pc = "update", !.taken = E,
                                                 !.left = given, !.about = about])
                    /\ used' = [used EXCEPT !.unanswered = @ \cup (E \ given)]
    /\ UNCHANGED <<table, acked, overlap>>

UpdateUnpurified(w) ==
    /\ job[w].pc = "update"
    /\ \E e \in job[w].left :
          /\ Stored(e) /\ ~events[e].purified
          /\ events' = [events EXCEPT ![e].vec = "purified", ![e].purified = TRUE]
          /\ Becomes(w, [job[w] EXCEPT !.left = @ \ {e}])
    /\ UNCHANGED <<sessions, notes, episodes, narratives, acked, overlap, used>>

UpdateErrorIgnored(w) ==
    /\ job[w].pc = "update"
    /\ \E e \in job[w].left :
          /\ \/ ~Stored(e) /\ UNCHANGED events
             \/ used.faults < MaxFaults /\ UNCHANGED events
             \/ Stored(e) /\ events' = [events EXCEPT ![e].vec = "purified", ![e].purified = TRUE]
          /\ Becomes(w, [job[w] EXCEPT !.left = @ \ {e}])
    /\ UNCHANGED <<sessions, notes, episodes, narratives, acked, overlap, used>>

\* update_event_embedding: one transaction per event.
CompactUpdate(w) ==
    /\ job[w].pc = "update"
    /\ \E e \in job[w].left :
          \/ ~Stored(e) /\ Return(w) /\ UNCHANGED events
          \/ /\ Stored(e)
             /\ events' = [events EXCEPT ![e].vec = "purified", ![e].purified = TRUE]
             /\ Becomes(w, [job[w] EXCEPT !.left = @ \ {e}])
    /\ UNCHANGED <<sessions, notes, episodes, narratives, acked, overlap, used>>

\* insert_episode, under a fresh id.
CompactInsertEpisode(w) ==
    /\ job[w].pc = "update"
    /\ job[w].left = {}
    /\ LET id == used.episodes + 1
       IN  /\ episodes' = episodes \cup {[id |-> id, session |-> job[w].session,
                                         user |-> job[w].user, events |-> job[w].taken,
                                         about |-> job[w].about]}
           /\ Becomes(w, [job[w] EXCEPT !.pc = "narrative", !.episode = id])
           /\ used' = [used EXCEPT !.episodes = id]
    /\ UNCHANGED <<sessions, notes, events, narratives, acked, overlap>>

NarrativeFirst(w) ==
    /\ job[w].pc \in {"update", "narrative"}
    /\ job[w].left = {}
    /\ narratives' = narratives \cup {[episode |-> used.episodes + 1, session |-> job[w].session,
                                       user |-> job[w].user, events |-> job[w].taken]}
    /\ Goto(w, "mark")
    /\ UNCHANGED <<sessions, notes, events, episodes, acked, overlap, used>>

\* insert_memory of the immutable narrative trace.
CompactInsertNarrative(w) ==
    /\ job[w].pc = "narrative"
    /\ narratives' = narratives \cup {[episode |-> job[w].episode, session |-> job[w].session,
                                       user |-> job[w].user, events |-> job[w].taken]}
    /\ Goto(w, "mark")
    /\ UNCHANGED <<sessions, notes, events, episodes, acked, overlap, used>>

MarkWholeSession(w) ==
    /\ job[w].pc = "mark"
    /\ events' = [e \in EventIds |-> IF Stored(e) /\ events[e].session = job[w].session
                                       THEN [events[e] EXCEPT !.processed = TRUE]
                                       ELSE events[e]]
    /\ Goto(w, "clear")
    /\ UNCHANGED <<sessions, notes, episodes, narratives, acked, overlap, used>>

\* mark_events_processed: one UPDATE over the ids read at the start.
CompactMark(w) ==
    /\ job[w].pc = "mark"
    /\ events' = [e \in EventIds |-> IF e \in job[w].taken /\ Stored(e)
                                       THEN [events[e] EXCEPT !.processed = TRUE]
                                       ELSE events[e]]
    /\ Goto(w, "clear")
    /\ UNCHANGED <<sessions, notes, episodes, narratives, acked, overlap, used>>

\* clear_structured_notes and Ok(CompactResult).
CompactClear(w) ==
    /\ job[w].pc = "clear"
    /\ notes' = [notes EXCEPT ![job[w].session] = <<>>]
    /\ Return(w)
    /\ UNCHANGED <<sessions, events, episodes, narratives, acked, overlap, used>>

--------------------------------------------------------------------------------
(* Failures *)

Fault == /\ used.faults < MaxFaults
         /\ used' = [used EXCEPT !.faults = @ + 1]

\* A statement, an LLM call or an embedding whose error is returned with `?`: the
\* operation ends where it is and what it wrote stays.
StepFails(w) ==
    /\ job[w].pc \notin {"idle", "clear"}
    /\ Fault
    /\ Return(w)
    /\ UNCHANGED <<table, acked, overlap>>

\* The two statements about notes whose error is ignored (`let _ =`).
NotesStepFails(w) ==
    /\ \/ /\ job[w].pc = "store" /\ job[w].bare = {} /\ job[w].fresh = {}
          /\ job[w].written # <<>>
          /\ Goto(w, "reply")
       \/ job[w].pc = "clear" /\ Return(w)
    /\ Fault
    /\ UNCHANGED <<table, acked, overlap>>

\* The process dies: the tables stay, every operation in progress is gone.
Crash ==
    /\ \E w \in Workers : job[w].pc # "idle"
    /\ Fault
    /\ job' = [w \in Workers |-> Idle]
    /\ UNCHANGED <<table, acked, overlap>>

--------------------------------------------------------------------------------
AppendStep(w) ==
    \/ AppendReadSession(w) \/ AppendCreateSession(w) \/ AppendRecheckSession(w)
    \/ AppendLookup(w) \/ AppendProbe(w) \/ AppendEmbed(w)
    \/ AppendBackfill(w) \/ AppendInsert(w) \/ AppendReprobe(w)
    \/ AppendNotes(w) \/ AppendReply(w)

CompactStep(w) ==
    \/ CompactRead(w) \/ CompactUpdate(w) \/ CompactInsertEpisode(w)
    \/ CompactInsertNarrative(w) \/ CompactMark(w) \/ CompactClear(w)

Next ==
    \/ \E w \in Workers :
          \/ AppendStart(w) \/ AppendStep(w)
          \/ \E s \in Sessions : CompactStart(w, s)
          \/ CompactStep(w)
          \/ StepFails(w) \/ NotesStepFails(w)
    \/ Crash

Spec == Init /\ [][Next]_vars

\* A started operation runs on its own thread: the thread is scheduled again and
\* again until the operation returns.  Nothing makes a client start one.
FairSpec == Spec /\ \A w \in Workers : WF_vars(AppendStep(w) \/ CompactStep(w))

--------------------------------------------------------------------------------
(* Properties *)

Labels == {"idle", "session", "create", "recheck", "lookup", "probe", "store", "reprobe",
           "reply", "read", "update", "narrative", "mark", "clear"}

EpisodeType == [id : Nat, session : Sessions, user : Users,
                events : SUBSET EventIds, about : SUBSET EventIds]
NarrativeType == [episode : Nat, session : Sessions, user : Users, events : SUBSET EventIds]
AckType == [session : Sessions, user : Users, id : EventIds, body : Bodies, embedded : BOOLEAN]
JobType == [pc : Labels, session : Sessions \cup {NoSession}, user : Users \cup {NoUser},
            msgs : Seq(Messages), todo : SUBSET Nat, fresh : SUBSET Nat, bare : SUBSET Nat,
            emb : BOOLEAN, written : Seq(EventIds), notes : Seq(EventIds),
            taken : SUBSET EventIds, left : SUBSET EventIds, about : SUBSET EventIds,
            episode : Nat]

\* The tables and the operations in progress keep the shape the code gives them, and a
\* session's notes never outgrow their cap.
TypeOK ==
    /\ sessions \in [Sessions -> Users \cup {NoUser}]
    /\ notes \in [Sessions -> Seq(EventIds)]
    /\ \A s \in Sessions : Len(notes[s]) <= NotesCap
    /\ events \in [EventIds -> Rows \cup {NoRow}]
    /\ episodes \subseteq EpisodeType
    /\ narratives \subseteq NarrativeType
    /\ job \in [Workers -> JobType]
    /\ acked \subseteq AckType
    /\ overlap \in BOOLEAN
    /\ used \in [appends : Nat, compacts : Nat, faults : Nat, episodes : Nat,
                 unanswered : SUBSET EventIds]

\* Whoever wins the race to create a session, every event, episode and narrative of
\* it belongs to its one owner (get_or_create_session validates again after INSERT;
\* compact files the whole session under the owner it read at the start).
OneOwnerPerSession ==
    /\ \A e \in EventIds : Stored(e) => sessions[events[e].session] = events[e].user
    /\ \A d \in episodes \cup narratives :
          /\ sessions[d.session] = d.user
          /\ \A e \in d.events :
                Stored(e) /\ events[e].session = d.session /\ events[e].user = d.user

\* An event that compaction will not look at again has not been lost to memory: an
\* episode and its narrative cover it.
ProcessedIsRemembered ==
    \A e \in EventIds : Stored(e) /\ events[e].processed =>
        \E ep \in episodes, n \in narratives :
            n.episode = ep.id /\ e \in ep.events /\ e \in n.events

\* "purify events via LLM, create an Episode summary, and mark events as processed"
\* (compact_ops.rs:325): an event that is marked has been purified and has a vector, also when it
\* was appended while the session was being compacted, when a compaction failed in between and
\* when two overlapped; but for an event that an embedder left out of its answer, which zip passes
\* over (compact_ops.rs:411).  The doc makes no such exception.
ProcessedIsPurified ==
    \A e \in EventIds : Stored(e) /\ events[e].processed =>
        (events[e].purified /\ events[e].vec # "null") \/ e \in used.unanswered

\* compact inserts the episode before the narrative because "reverse order would
\* leave orphan narratives": every narrative has its episode.
NoOrphanNarratives ==
    \A n \in narratives : \E ep \in episodes : ep.id = n.episode /\ ep.events = n.events

\* A message that some Ok reply accepted is stored as that reply's sender sent it,
\* whichever of several concurrent requests stored it; and if the reply said
\* embedding_pending = 0, the event has a vector.
AckedIsStored ==
    \A a \in acked :
        /\ Stored(a.id)
        /\ ExactReplay(events[a.id], a, a)
        /\ a.embedded => events[a.id].vec # "null"

\* Without overlapping compactions of a session and without a failure between
\* insert_episode and mark_events_processed, no event is digested twice.
DigestedOnce ==
    ~overlap /\ used.faults = 0 =>
        \A d1, d2 \in episodes : d1.id # d2.id => d1.events \cap d2.events = {}

\* No interleaving of appends and compactions takes an event back in its life cycle:
\* a stored payload is never replaced, purified and processed are never unset, and a
\* vector is never lost ("an exact event replay remains harmless").
LifeCycle ==
    [][\A e \in EventIds : Stored(e) =>
          /\ Stored(e)'
          /\ ExactReplay(events[e]', events[e], events[e])
          /\ events[e].purified => events[e]'.purified
          /\ events[e].processed => events[e]'.processed
          /\ events[e].vec # "null" => events[e]'.vec # "null"]_vars

\* What compact has read is eventually processed, unless something fails: no other
\* thread can keep it from finishing.
TakenIsProcessed ==
    \A e \in EventIds :
        (\E w \in Workers : e \in job[w].taken)
            ~> (Stored(e) /\ events[e].processed) \/ used.faults > 0

\* "This leaves purification and lifecycle fields unchanged, so an exact event replay
\* remains harmless" (backfill_event_embedding): the vector of a purified event is that
\* of its purified content.
PurifiedVectorStays ==
    \A e \in EventIds : Stored(e) /\ events[e].purified => events[e].vec = "purified"

\* "Clear structured notes after compact to avoid stale content in future compacts":
\* a summary made of notes tells only of the episode's own events.
SummaryTellsOwnEvents ==
    \A ep \in episodes : ep.about \subseteq ep.events

\* What the event log of EventLog sees of the tables.
Payload(row) == [session |-> row.session, user |-> row.user, body |-> row.body]
AcceptedLog == [e \in EventIds |-> IF Stored(e) THEN Payload(events[e]) ELSE NoRow]
Digests == {[session |-> ep.session, user |-> ep.user, events |-> ep.events] : ep \in episodes}
Retired == {e \in EventIds : Stored(e) /\ events[e].processed}

Abstract == INSTANCE EventLog WITH log <- AcceptedLog, digests <- Digests, retired <- Retired

\* The pipeline implements the event log.
ImplementsEventLog == Abstract!Spec
================================================================================
