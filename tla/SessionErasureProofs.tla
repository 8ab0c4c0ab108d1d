-------------------------- MODULE SessionErasureProofs --------------------------
(***************************************************************************)
(* What erasure does to the pipeline, and what is read of it.              *)
(*                                                                         *)
(* Removals break most of what holds of the pipeline alone, so nothing of  *)
(* its safety is used here but the shape of the state and that no step of  *)
(* its own takes back what is stored.  A user whose data was deleted while *)
(* nothing of theirs was in progress stays out of the tables because every *)
(* row an operation writes is its own user's.                              *)
(*                                                                         *)
(* The second half is about SessionReads.  A walk over pages is judged by  *)
(* the rows that it still has before its offset: a page takes its rows     *)
(* from them, and a row that comes or goes moves them by one at most.      *)
(***************************************************************************)
EXTENDS SessionErasure, SessionSafetyProofs, SessionReads, SumProofs, FunctionTheorems, SequenceTheorems

--------------------------------------------------------------------------------
(* The shape of the state *)

ErasureShape ==
    /\ Shape
    /\ erased \in [Users -> {"no", "quiet", "racing"}]
    /\ raced \subseteq Users

\* A removal leaves fewer rows, and no operation loses its place.
LEMMA RemovalShape ==
    ASSUME Shape,
           \A s \in Sessions : sessions'[s] \in {sessions[s], NoUser},
           sessions' \in [Sessions -> Users \cup {NoUser}],
           \A s \in Sessions : notes'[s] \in {notes[s], <<>>},
           notes' \in [Sessions -> Seq(EventIds)],
           events' \in [EventIds -> Rows \cup {NoRow}],
           episodes' \subseteq episodes, narratives' \subseteq narratives,
           UNCHANGED <<job, acked, overlap, used>>
    PROVE  Shape'
<1>1. \A s \in Sessions : Len(notes'[s]) <= NotesCap
  BY ConstantsAssumption, LenProperties, EmptySeq DEF Shape, TablesOK
<1>2. TablesOK'
  BY <1>1 DEF Shape, TablesOK
<1> QED BY <1>2 DEF Shape, JobsOK, HistoryOK

\* Every step keeps the shape of the state.
LEMMA NextErasureShape == ErasureShape /\ [ErasureNext]_allVars => ErasureShape'
<1> SUFFICES ASSUME ErasureShape, [ErasureNext]_allVars PROVE ErasureShape'
  OBVIOUS
<1> USE DEF ErasureShape
<1>1. CASE PipelineStep
  <2>1. Shape'
    BY <1>1, NextShape DEF PipelineStep
  <2>2. erased' \in [Users -> {"no", "quiet", "racing"}]
    BY <1>1 DEF PipelineStep, Forgets
  <2> QED BY <1>1, <2>1, <2>2 DEF PipelineStep
<1>2. CASE IngestEvent
  <2>1. PICK i \in Ingests :
           /\ events' = [events EXCEPT ![i.id] =
                [session |-> i.session, user |-> i.user, body |-> i.body,
                 vec |-> "null", purified |-> FALSE, processed |-> FALSE]]
           /\ Forgets(i.user)
    BY <1>2 DEF IngestEvent
  <2>2. i.session \in Sessions /\ i.user \in Users /\ i.body \in Bodies
    BY ErasureAssumption
  <2>3. events' \in [EventIds -> Rows \cup {NoRow}]
    BY <2>1, <2>2 DEF Shape, TablesOK, Rows, Vectors
  <2>4. Shape'
    BY <1>2, <2>3 DEF IngestEvent, Shape, TablesOK, JobsOK, HistoryOK
  <2>5. erased' \in [Users -> {"no", "quiet", "racing"}]
    BY <2>1 DEF Forgets
  <2> QED BY <1>2, <2>4, <2>5 DEF IngestEvent
<1>3. ASSUME NEW s \in Sessions, DeleteSession(s) PROVE ErasureShape'
  <2>1. /\ \A x \in Sessions : sessions'[x] \in {sessions[x], NoUser}
        /\ \A x \in Sessions : notes'[x] \in {notes[x], <<>>}
        /\ sessions' \in [Sessions -> Users \cup {NoUser}]
        /\ notes' \in [Sessions -> Seq(EventIds)]
    BY <1>3, EmptySeq DEF DeleteSession, Shape, TablesOK
  <2>2. /\ events' \in [EventIds -> Rows \cup {NoRow}]
        /\ episodes' \subseteq episodes /\ narratives' \subseteq narratives
        /\ UNCHANGED <<job, acked, overlap, used>>
    BY <1>3 DEF DeleteSession, Shape, TablesOK
  <2> QED BY <1>3, <2>1, <2>2, RemovalShape DEF DeleteSession
<1>4. ASSUME NEW u \in Users, DeleteUserData(u) PROVE ErasureShape'
  <2>1. /\ \A x \in Sessions : sessions'[x] \in {sessions[x], NoUser}
        /\ \A x \in Sessions : notes'[x] \in {notes[x], <<>>}
        /\ sessions' \in [Sessions -> Users \cup {NoUser}]
        /\ notes' \in [Sessions -> Seq(EventIds)]
    BY <1>4, EmptySeq DEF DeleteUserData, Shape, TablesOK
  <2>2. events' \in [EventIds -> Rows \cup {NoRow}]
    BY <1>4 DEF DeleteUserData, Shape, TablesOK
  <2>3. Shape'
    BY <1>4, <2>1, <2>2, RemovalShape DEF DeleteUserData
  <2>4. erased' \in [Users -> {"no", "quiet", "racing"}] /\ raced' \subseteq Users
    BY <1>4 DEF DeleteUserData, Erases
  <2> QED BY <2>3, <2>4
<1>5. CASE UNCHANGED allVars
  BY <1>5, NextShape DEF allVars
<1> QED BY <1>1, <1>2, <1>3, <1>4, <1>5 DEF ErasureNext

LEMMA InitErasureShape == ErasureInit => ErasureShape
  BY InitShape DEF ErasureInit, ErasureShape

--------------------------------------------------------------------------------
(* Whom an operation works for *)

\* A step is one thread's: it starts an operation, goes on for the same user, or ends.
\* Or the process dies.
LEMMA JobStep ==
    ASSUME Shape, Next
    PROVE  \/ \A w \in Workers : job'[w] = Idle
           \/ \E w \in Workers :
                 /\ \A v \in Workers \ {w} : job'[v] = job[v]
                 /\ job[w].pc # "idle" =>
                       job'[w] = Idle \/ job'[w].user = job[w].user
<1>1. CASE Crash
  BY <1>1 DEF Crash
<1>2. ASSUME NEW w \in Workers, NEW s \in Sessions, CompactStart(w, s)
      PROVE  job[w].pc = "idle" /\ \A v \in Workers \ {w} : job'[v] = job[v]
  BY <1>2 DEF CompactStart, Becomes, Shape, JobsOK
<1>3. ASSUME NEW w \in Workers,
             \/ AppendStart(w) \/ AppendStep(w) \/ CompactStep(w)
             \/ StepFails(w) \/ NotesStepFails(w)
      PROVE  \E labels : MovesTo(w, labels)
  BY <1>3, AppendPlace, CompactPlace, FaultPlace
<1> QED BY <1>1, <1>2, <1>3 DEF Next, MovesTo

\* Every row that a step of the pipeline writes is of the user its operation works for.
LEMMA RowsAreOwn ==
    ASSUME Shape, Next, NEW u \in Users, HasRows(u)'
    PROVE  HasRows(u) \/ \E w \in Workers : WorksFor(w, u)
<1> SUFFICES ASSUME \A w \in Workers : ~WorksFor(w, u) PROVE HasRows(u)
  OBVIOUS
<1> DEFINE Same == UNCHANGED <<sessions, events, episodes, narratives>>
<1>1. Same => HasRows(u)
  BY DEF HasRows, Stored
<1>2. ASSUME NEW w \in Workers, AppendCreateSession(w) PROVE HasRows(u)
  <2>1. job[w].session \in Sessions /\ job[w].user # u
    BY <1>2 DEF AppendCreateSession, WorksFor, Shape, JobsOK, JobOK
  <2>2. \A s \in Sessions : sessions'[s] = u => sessions[s] = u
    BY <1>2, <2>1 DEF AppendCreateSession, Shape, TablesOK
  <2> QED BY <1>2, <2>2 DEF AppendCreateSession, HasRows, Stored
<1>3. ASSUME UNCHANGED <<sessions, episodes, narratives>>,
             \A e \in EventIds : Stored(e)' /\ events'[e].user = u =>
                                     Stored(e) /\ events[e].user = u
      PROVE  HasRows(u)
  BY <1>3 DEF HasRows
<1>4. ASSUME NEW w \in Workers, AppendBackfill(w) PROVE HasRows(u)
  <2>1. PICK i \in job[w].bare :
           \/ UNCHANGED events
           \/ /\ Stored(job[w].msgs[i].id)
              /\ events' = [events EXCEPT ![job[w].msgs[i].id].vec = "raw"]
    BY <1>4 DEF AppendBackfill
  <2>2. ASSUME NEW e \in EventIds, Stored(e)', events'[e].user = u
        PROVE  Stored(e) /\ events[e].user = u
    <3>1. \/ events'[e] = events[e]
          \/ Stored(e) /\ events'[e] = [events[e] EXCEPT !.vec = "raw"]
      BY <2>1 DEF Shape, TablesOK
    <3>2. Stored(e)
      BY <2>2, <3>1 DEF Stored
    <3>3. events[e] \in Rows
      BY <3>2 DEF Stored, Shape, TablesOK
    <3> QED BY <2>2, <3>1, <3>2, <3>3 DEF Rows
  <2> QED BY <1>3, <1>4, <2>2 DEF AppendBackfill
<1>5. ASSUME NEW w \in Workers, AppendInsert(w) PROVE HasRows(u)
  <2>1. job[w].user # u
    BY <1>5 DEF AppendInsert, WorksFor
  <2>2. PICK i \in job[w].fresh :
           \/ UNCHANGED events
           \/ \E r : events' = [events EXCEPT ![job[w].msgs[i].id] = r] /\ r.user = job[w].user
    BY <1>5, SMTT(30) DEF AppendInsert
  <2>3. ASSUME NEW e \in EventIds, Stored(e)', events'[e].user = u
        PROVE  Stored(e) /\ events[e].user = u
    <3>1. events'[e] = events[e] \/ events'[e].user = job[w].user
      BY <2>2 DEF Shape, TablesOK
    <3> QED BY <2>1, <2>3, <3>1 DEF Stored
  <2> QED BY <1>3, <1>5, <2>3 DEF AppendInsert
<1>6. ASSUME NEW w \in Workers, CompactUpdate(w) PROVE HasRows(u)
  <2>1. PICK e0 \in job[w].left :
           \/ UNCHANGED events
           \/ Stored(e0) /\ events' = [events EXCEPT ![e0].vec = "purified", ![e0].purified = TRUE]
    BY <1>6 DEF CompactUpdate
  <2>2. ASSUME NEW e \in EventIds, Stored(e)', events'[e].user = u
        PROVE  Stored(e) /\ events[e].user = u
    <3>1. \/ events'[e] = events[e]
          \/ Stored(e) /\ events'[e] = [events[e] EXCEPT !.vec = "purified", !.purified = TRUE]
      BY <2>1 DEF Shape, TablesOK
    <3>2. Stored(e)
      BY <2>2, <3>1 DEF Stored
    <3>3. events[e] \in Rows
      BY <3>2 DEF Stored, Shape, TablesOK
    <3> QED BY <2>2, <3>1, <3>2, <3>3 DEF Rows
  <2> QED BY <1>3, <1>6, <2>2 DEF CompactUpdate
<1>7. ASSUME NEW w \in Workers, CompactMark(w) PROVE HasRows(u)
  <2>1. ASSUME NEW e \in EventIds, Stored(e)', events'[e].user = u
        PROVE  Stored(e) /\ events[e].user = u
    <3>1. \/ events'[e] = events[e]
          \/ Stored(e) /\ events'[e] = [events[e] EXCEPT !.processed = TRUE]
      BY <1>7 DEF CompactMark
    <3>2. Stored(e)
      BY <2>1, <3>1 DEF Stored
    <3>3. events[e] \in Rows
      BY <3>2 DEF Stored, Shape, TablesOK
    <3> QED BY <2>1, <3>1, <3>2, <3>3 DEF Rows
  <2> QED BY <1>3, <1>7, <2>1 DEF CompactMark
<1>8. ASSUME NEW w \in Workers, CompactInsertEpisode(w) PROVE HasRows(u)
  <2>1. job[w].user # u
    BY <1>8 DEF CompactInsertEpisode, WorksFor
  <2> QED BY <1>8, <2>1 DEF CompactInsertEpisode, HasRows, Stored
<1>9. ASSUME NEW w \in Workers, CompactInsertNarrative(w) PROVE HasRows(u)
  <2>1. job[w].user # u
    BY <1>9 DEF CompactInsertNarrative, WorksFor
  <2> QED BY <1>9, <2>1 DEF CompactInsertNarrative, HasRows, Stored
<1> HIDE DEF Same
<1>10. ASSUME NEW w \in Workers,
              \/ AppendStart(w) \/ AppendReadSession(w) \/ AppendRecheckSession(w)
              \/ AppendLookup(w) \/ AppendProbe(w) \/ AppendEmbed(w) \/ AppendReprobe(w)
              \/ AppendNotes(w) \/ AppendReply(w) \/ (\E s \in Sessions : CompactStart(w, s))
              \/ CompactRead(w) \/ CompactClear(w) \/ StepFails(w) \/ NotesStepFails(w)
       PROVE  Same
  BY <1>10 DEF Same, AppendStart, AppendReadSession, AppendRecheckSession, AppendLookup,
     AppendProbe, AppendEmbed, AppendReprobe, AppendNotes, AppendReply, CompactStart,
     CompactRead, CompactClear, StepFails, NotesStepFails, ReadOnly, table
<1>11. Crash => Same
  BY DEF Same, Crash, table
<1> QED
  BY <1>1, <1>2, <1>4, <1>5, <1>6, <1>7, <1>8, <1>9, <1>10, <1>11
     DEF Next, AppendStep, CompactStep

--------------------------------------------------------------------------------
(* What was erased stays erased *)

NoTrace(u) == ~HasRows(u) /\ \A w \in Workers : ~WorksFor(w, u)
QuietlyGone == \A u \in Users : erased[u] = "quiet" => NoTrace(u)

ErasureInv == ErasureShape /\ QuietlyGone

\* A user without a trace gets one only by a request of their own, which Forgets.
LEMMA PipelineQuiet ==
    ASSUME ErasureInv, PipelineStep
    PROVE  QuietlyGone'
<1> SUFFICES ASSUME NEW u \in Users, erased'[u] = "quiet" PROVE NoTrace(u)'
  BY DEF QuietlyGone
<1>1. erased[u] = "quiet"
  BY DEF PipelineStep, Forgets, ErasureInv, ErasureShape
<1>2. ~HasRows(u) /\ \A w \in Workers : ~WorksFor(w, u)
  BY <1>1 DEF ErasureInv, QuietlyGone, NoTrace
<1>3. ~HasRows(u)'
  BY <1>2, RowsAreOwn DEF PipelineStep, ErasureInv, ErasureShape
<1>4. Shape /\ Next
  BY DEF PipelineStep, ErasureInv, ErasureShape
<1>5. Idle.pc = "idle"
  BY DEF Idle
<1>6. ASSUME NEW w \in Workers, job'[w].pc # "idle", job'[w].user = u PROVE FALSE
  <2>1. job[w].pc = "idle"
    BY <1>2, <1>4, <1>5, <1>6, JobStep DEF WorksFor
  <2>2. PICK v \in Workers : job[v].pc = "idle" /\ job'[v].pc # "idle" /\ Forgets(job'[v].user)
    BY <1>6, <2>1 DEF PipelineStep
  <2>3. v = w
    BY <1>4, <1>5, <1>6, <2>1, <2>2, JobStep
  <2>4. erased'[u] = "no"
    BY <1>6, <2>2, <2>3 DEF Forgets, ErasureInv, ErasureShape
  <2> QED BY <2>4
<1> QED BY <1>3, <1>6 DEF NoTrace, WorksFor

LEMMA NextQuiet == ErasureInv /\ [ErasureNext]_allVars => QuietlyGone'
<1> SUFFICES ASSUME ErasureInv, [ErasureNext]_allVars PROVE QuietlyGone'
  OBVIOUS
<1>1. CASE PipelineStep
  BY <1>1, PipelineQuiet
<1> SUFFICES ASSUME ~PipelineStep, NEW u \in Users, erased'[u] = "quiet" PROVE NoTrace(u)'
  BY <1>1 DEF QuietlyGone
<1>2. CASE IngestEvent
  <2>1. PICK i \in Ingests :
           /\ events' = [events EXCEPT ![i.id] =
                [session |-> i.session, user |-> i.user, body |-> i.body,
                 vec |-> "null", purified |-> FALSE, processed |-> FALSE]]
           /\ Forgets(i.user)
    BY <1>2 DEF IngestEvent
  <2>2. i.user # u /\ erased[u] = "quiet"
    BY <2>1, ErasureAssumption DEF Forgets, ErasureInv, ErasureShape
  <2>3. NoTrace(u)
    BY <2>2 DEF ErasureInv, QuietlyGone
  <2>4. \A e \in EventIds : Stored(e)' /\ events'[e].user = u => Stored(e) /\ events[e].user = u
    BY <2>1, <2>2 DEF Stored, ErasureInv, ErasureShape, Shape, TablesOK
  <2> QED BY <1>2, <2>3, <2>4 DEF IngestEvent, NoTrace, HasRows, WorksFor
<1>3. ASSUME NEW s \in Sessions, DeleteSession(s) PROVE NoTrace(u)'
  <2>1. NoTrace(u)
    BY <1>3 DEF DeleteSession, ErasureInv, QuietlyGone
  <2>2. \A x \in Sessions : sessions'[x] = u => sessions[x] = u
    BY <1>3, ConstantsAssumption DEF DeleteSession, ErasureInv, ErasureShape, Shape, TablesOK
  <2> QED BY <1>3, <2>1, <2>2 DEF DeleteSession, NoTrace, HasRows, WorksFor, Stored
<1>4. ASSUME NEW v \in Users, DeleteUserData(v) PROVE NoTrace(u)'
  <2>1. \A w \in Workers : ~WorksFor(w, v) \/ v # u
    BY <1>4 DEF DeleteUserData, Erases, ErasureInv, ErasureShape
  <2>2. v # u => NoTrace(u)
    BY <1>4 DEF DeleteUserData, Erases, ErasureInv, ErasureShape, QuietlyGone
  <2>3. ~HasRows(u)'
    <3>1. \A x \in Sessions : sessions'[x] = u => sessions[x] = u /\ u # v
      BY <1>4, ConstantsAssumption DEF DeleteUserData
    <3>2. \A e \in EventIds : Stored(e)' /\ events'[e].user = u =>
                                  Stored(e) /\ events[e].user = u /\ u # v
      BY <1>4 DEF DeleteUserData, Stored
    <3>3. \A d \in episodes' \cup narratives' :
             d.user = u => d \in episodes \cup narratives /\ u # v
      BY <1>4 DEF DeleteUserData
    <3> QED BY <2>2, <3>1, <3>2, <3>3 DEF NoTrace, HasRows
  <2>4. \A w \in Workers : ~WorksFor(w, u)
    BY <2>1, <2>2 DEF NoTrace
  <2> QED BY <1>4, <2>3, <2>4 DEF DeleteUserData, NoTrace, WorksFor
<1>5. CASE UNCHANGED allVars
  <2>1. NoTrace(u)
    BY <1>5 DEF allVars, ErasureInv, QuietlyGone
  <2> QED BY <1>5, <2>1 DEF allVars, vars, NoTrace, HasRows, WorksFor, Stored
<1> QED BY <1>2, <1>3, <1>4, <1>5 DEF ErasureNext

\* delete_user_data leaves nothing of a user in any table, and when nothing of theirs was in
\* progress nothing comes back until a request of their own, whatever other users do.
THEOREM QuietErasureStands == ErasureSpec => []QuietErasureHolds
<1>1. ErasureInit => ErasureInv
  BY InitErasureShape DEF ErasureInit, ErasureInv, QuietlyGone
<1>2. ErasureInv /\ [ErasureNext]_allVars => ErasureInv'
  BY NextErasureShape, NextQuiet DEF ErasureInv
<1>3. ErasureInv => QuietErasureHolds
  BY DEF ErasureInv, QuietlyGone, NoTrace, QuietErasureHolds
<1> QED BY <1>1, <1>2, <1>3, PTL DEF ErasureSpec

--------------------------------------------------------------------------------
(* Nothing of anybody else's is taken *)

KeptOrErased(e) ==
    \/ erased'[events[e].user] # "no"
    \/ Stored(e)' /\ ExactReplay(events'[e], events[e], events[e])

LEMMA EventsKept ==
    ASSUME ErasureShape, [ErasureNext]_allVars, NEW e \in EventIds, Stored(e)
    PROVE  KeptOrErased(e)
<1>0. events[e] \in Rows
  BY DEF ErasureShape, Shape, TablesOK, Stored
<1>1. CASE PipelineStep
  BY <1>1, StepGrows DEF PipelineStep, ErasureShape, Grows, Stored, KeptOrErased
<1>2. CASE IngestEvent
  <2>1. events'[e] = events[e]
    BY <1>2 DEF IngestEvent, Stored, ErasureShape, Shape, TablesOK
  <2> QED BY <2>1 DEF KeptOrErased, ExactReplay, Stored
<1>3. ASSUME NEW s \in Sessions, DeleteSession(s) PROVE KeptOrErased(e)
  BY <1>3 DEF DeleteSession, KeptOrErased, ExactReplay, Stored
<1>4. ASSUME NEW u \in Users, DeleteUserData(u) PROVE KeptOrErased(e)
  <2>1. CASE events[e].user = u
    BY <1>4, <2>1 DEF DeleteUserData, Erases, KeptOrErased, ErasureShape
  <2>2. CASE events[e].user # u
    BY <1>4, <2>2 DEF DeleteUserData, KeptOrErased, ExactReplay, Stored
  <2> QED BY <2>1, <2>2
<1>5. CASE UNCHANGED allVars
  BY <1>5 DEF allVars, vars, KeptOrErased, ExactReplay, Stored
<1> QED BY <1>1, <1>2, <1>3, <1>4, <1>5 DEF ErasureNext

\* Erasing one user's data takes no event of another user's, also where the two have written
\* to one session.
THEOREM ErasureTakesNoOthers == ErasureSpec => OthersKeepTheirEvents
<1>1. ErasureShape /\ [ErasureNext]_allVars =>
         [\A e \in EventIds : Stored(e) =>
             \/ erased'[events[e].user] # "no"
             \/ Stored(e)' /\ ExactReplay(events[e]', events[e], events[e])]_allVars
  BY EventsKept DEF KeptOrErased
<1> QED
  BY <1>1, InitErasureShape, NextErasureShape, PTL DEF ErasureSpec, OthersKeepTheirEvents,
     ErasureInit

--------------------------------------------------------------------------------
(* No digest is torn *)

\* The episode that a narrative belongs to.
EpisodeOf(id, E, u) == \E ep \in episodes : ep.id = id /\ ep.events = E /\ ep.user = u

NarrativesAreWhole == \A n \in narratives : n.user \notin raced => EpisodeOf(n.episode, n.events, n.user)
NarrativesToBeAreWhole ==
    \A w \in Workers : job[w].pc = "narrative" /\ job[w].user \notin raced =>
        EpisodeOf(job[w].episode, job[w].taken, job[w].user)

DigestInv ==
    /\ ErasureShape
    /\ NarrativesAreWhole /\ NarrativesToBeAreWhole

\* An operation comes to where its narrative is next by insert_episode alone.
LEMMA OnlyAfterTheEpisode ==
    ASSUME Shape, Next, NEW v \in Workers, job'[v].pc = "narrative"
    PROVE  job'[v] = job[v] \/ CompactInsertEpisode(v)
<1>1. Idle.pc # "narrative"
  BY DEF Idle
<1>2. ASSUME NEW w \in Workers, NEW s \in Sessions, CompactStart(w, s)
      PROVE  job'[v] = job[v]
  <2>1. job'[w].pc = "read" /\ \A x \in Workers \ {w} : job'[x] = job[x]
    BY <1>2 DEF CompactStart, Becomes, Idle, Shape, JobsOK
  <2> QED BY <2>1
<1>3. ASSUME NEW w \in Workers,
             \/ AppendStart(w) \/ AppendStep(w) \/ StepFails(w) \/ NotesStepFails(w)
      PROVE  job'[v] = job[v]
  BY <1>1, <1>3, AppendPlace, FaultPlace DEF MovesTo, Appending
<1>4. ASSUME NEW w \in Workers, CompactStep(w)
      PROVE  job'[v] = job[v] \/ CompactInsertEpisode(v)
  BY <1>1, <1>4, CompactPlace DEF MovesTo
<1>5. ~Crash
  BY <1>1 DEF Crash
<1> QED BY <1>2, <1>3, <1>4, <1>5 DEF Next

\* compact inserts the narrative of the episode that it has inserted before.
LEMMA PipelineDigests ==
    ASSUME DigestInv, PipelineStep
    PROVE  NarrativesAreWhole' /\ NarrativesToBeAreWhole'
<1>0. Shape /\ Next /\ Grows /\ raced' = raced
  BY StepGrows DEF PipelineStep, DigestInv, ErasureShape
<1>00. \A id, E, u : EpisodeOf(id, E, u) => EpisodeOf(id, E, u)'
  BY <1>0 DEF EpisodeOf, Grows
<1>1. ASSUME NEW w \in Workers, CompactInsertNarrative(w) PROVE NarrativesAreWhole'
  <2>1. PICK n : n = [episode |-> job[w].episode, session |-> job[w].session,
                      user |-> job[w].user, events |-> job[w].taken]
    OBVIOUS
  <2>2. narratives' = narratives \cup {n} /\ job[w].pc = "narrative"
    BY <1>1, <2>1 DEF CompactInsertNarrative
  <2>3. n.user \notin raced => EpisodeOf(n.episode, n.events, n.user)
    BY <2>1, <2>2 DEF DigestInv, NarrativesToBeAreWhole
  <2> QED BY <1>0, <1>00, <2>2, <2>3 DEF DigestInv, NarrativesAreWhole
<1>2. UNCHANGED narratives => NarrativesAreWhole'
  BY <1>0, <1>00 DEF DigestInv, NarrativesAreWhole
<1>3. (\A w \in Workers : ~CompactInsertNarrative(w)) => UNCHANGED narratives
  BY <1>0, ZenonT(40) DEF Next, Crash, AppendStart, AppendStep, CompactStart, CompactStep, StepFails,
     NotesStepFails, AppendReadSession, AppendCreateSession, AppendRecheckSession,
     AppendLookup, AppendProbe, AppendEmbed, AppendBackfill, AppendInsert, AppendReprobe,
     AppendNotes, AppendReply, CompactRead, CompactUpdate, CompactInsertEpisode, CompactMark,
     CompactClear, ReadOnly, table
<1>4. ASSUME NEW v \in Workers, job'[v].pc = "narrative", job'[v].user \notin raced
      PROVE  EpisodeOf(job[v].episode, job[v].taken, job[v].user)'
  <2>1. CASE job'[v] = job[v]
    BY <1>00, <1>4, <2>1 DEF DigestInv, NarrativesToBeAreWhole
  <2>2. CASE CompactInsertEpisode(v)
    <3>1. PICK ep : ep = [id |-> used.episodes + 1, session |-> job[v].session,
                          user |-> job[v].user, events |-> job[v].taken,
                          about |-> job[v].about]
      OBVIOUS
    <3>2. /\ episodes' = episodes \cup {ep}
          /\ job'[v] = [job[v] EXCEPT !.pc = "narrative", !.episode = used.episodes + 1]
      BY <1>0, <2>2, <3>1 DEF CompactInsertEpisode, Becomes, Shape, JobsOK
    <3>3. job'[v].episode = ep.id /\ job'[v].taken = ep.events /\ job'[v].user = ep.user
      BY <1>0, <3>1, <3>2 DEF Shape, JobsOK, JobType
    <3> QED BY <3>2, <3>3 DEF EpisodeOf
  <2> QED BY <1>0, <1>4, <2>1, <2>2, OnlyAfterTheEpisode
<1>5. NarrativesToBeAreWhole'
  BY <1>0, <1>4 DEF NarrativesToBeAreWhole
<1> QED BY <1>1, <1>2, <1>3, <1>5

\* delete_user_data takes a narrative's episode only together with the narrative, or from
\* under an operation of the same user.
LEMMA NextDigests == DigestInv /\ [ErasureNext]_allVars => DigestInv'
<1> SUFFICES ASSUME DigestInv, [ErasureNext]_allVars PROVE DigestInv'
  OBVIOUS
<1>0. ErasureShape' /\ ErasureShape
  BY NextErasureShape DEF DigestInv
<1>1. CASE PipelineStep
  BY <1>0, <1>1, PipelineDigests DEF DigestInv
<1>2. ASSUME UNCHANGED <<episodes, narratives, job, raced>> PROVE DigestInv'
  BY <1>0, <1>2 DEF DigestInv, NarrativesAreWhole, NarrativesToBeAreWhole, EpisodeOf
<1>3. ASSUME NEW s \in Sessions, DeleteSession(s) PROVE DigestInv'
  BY <1>2, <1>3 DEF DeleteSession
<1>5. ASSUME NEW u \in Users, DeleteUserData(u) PROVE DigestInv'
  <2>2. \A id, E, v : EpisodeOf(id, E, v) /\ v # u => EpisodeOf(id, E, v)'
    BY <1>5 DEF DeleteUserData, EpisodeOf
  <2>3. raced \subseteq raced' /\ \A w \in Workers : WorksFor(w, u) => u \in raced'
    BY <1>5 DEF DeleteUserData, Erases
  <2>4. NarrativesAreWhole'
    <3>1. narratives' = {n \in narratives : n.user # u}
      BY <1>5 DEF DeleteUserData
    <3> QED BY <2>2, <2>3, <3>1 DEF DigestInv, NarrativesAreWhole
  <2>5. NarrativesToBeAreWhole'
    BY <1>5, <2>2, <2>3 DEF DeleteUserData, DigestInv, NarrativesToBeAreWhole, WorksFor
  <2> QED BY <1>0, <2>4, <2>5 DEF DigestInv
<1>6. IngestEvent \/ UNCHANGED allVars =>
         UNCHANGED <<episodes, narratives, job, raced>>
  BY DEF IngestEvent, allVars, vars
<1> QED BY <1>1, <1>2, <1>3, <1>5, <1>6 DEF ErasureNext

\* However removals, appends and compactions interleave, a narrative whose user's data was never
\* deleted under an operation has its episode.
THEOREM DigestsStayWhole == ErasureSpec => []NoTornDigests
<1>1. ErasureInit => DigestInv
  BY InitErasureShape DEF ErasureInit, Init, DigestInv, NarrativesAreWhole, NarrativesToBeAreWhole, Idle
<1>2. DigestInv => NoTornDigests
  BY DEF DigestInv, NarrativesAreWhole, EpisodeOf, NoTornDigests
<1> QED BY <1>1, <1>2, NextDigests, PTL DEF ErasureSpec

--------------------------------------------------------------------------------
(* Lists, by their places *)

\* A list has natural numbers as places.
LEMMA ListIs ==
    ASSUME NEW S, NEW list \in Seq(S)
    PROVE  /\ Len(list) \in Nat /\ DOMAIN list = 1..Len(list)
           /\ \A k \in 1..Len(list) : list[k] \in S
           /\ Range(list) = {list[k] : k \in 1..Len(list)} /\ Range(list) \subseteq S
  BY LenProperties, ElementOfSeq DEF Range

\* The first n of a list, or all of it.
LEMMA FirstOfIs ==
    ASSUME NEW S, NEW list \in Seq(S), NEW n \in Nat
    PROVE  /\ FirstOf(list, n) \in Seq(S)
           /\ Len(FirstOf(list, n)) = IF n < Len(list) THEN n ELSE Len(list)
           /\ \A k \in 1..Len(FirstOf(list, n)) : FirstOf(list, n)[k] = list[k]
<1>1. PICK m \in Nat : m = Len(list)
  BY ListIs
<1>2. CASE n < m
  <2>1. \A k \in 1..n : list[k] \in S
    BY <1>1, <1>2, ListIs
  <2>2. SubSeq(list, 1, n) \in Seq(S) /\ Len(SubSeq(list, 1, n)) = (IF 1 <= n THEN n - 1 + 1 ELSE 0)
        /\ \A k \in 1..(n - 1 + 1) : SubSeq(list, 1, n)[k] = list[1 + k - 1]
    BY <2>1, SubSeqProperties
  <2>3. FirstOf(list, n) = SubSeq(list, 1, n)
    BY <1>1, <1>2 DEF FirstOf
  <2>4. Len(SubSeq(list, 1, n)) = n
    BY <2>2
  <2>5. \A k \in 1..n : SubSeq(list, 1, n)[k] = list[k]
    BY <2>2
  <2> QED BY <1>1, <1>2, <2>2, <2>3, <2>4, <2>5
<1>3. CASE ~(n < m)
  BY <1>1, <1>3 DEF FirstOf
<1> QED BY <1>2, <1>3

\* What follows the first n.
LEMMA SkipIs ==
    ASSUME NEW S, NEW list \in Seq(S), NEW n \in Nat
    PROVE  /\ Skip(list, n) \in Seq(S)
           /\ Len(Skip(list, n)) = IF n <= Len(list) THEN Len(list) - n ELSE 0
           /\ \A k \in 1..Len(Skip(list, n)) : Skip(list, n)[k] = list[n + k]
<1>1. PICK m \in Nat : m = Len(list)
  BY ListIs
<1>2. \A k \in (n + 1)..m : list[k] \in S
  BY <1>1, ListIs
<1>3. /\ SubSeq(list, n + 1, m) \in Seq(S)
      /\ Len(SubSeq(list, n + 1, m)) = (IF n + 1 <= m THEN m - (n + 1) + 1 ELSE 0)
      /\ \A k \in 1..(m - (n + 1) + 1) : SubSeq(list, n + 1, m)[k] = list[n + 1 + k - 1]
  BY <1>2, SubSeqProperties
<1>4. Skip(list, n) = SubSeq(list, n + 1, m)
  BY <1>1 DEF Skip
<1>5. Len(SubSeq(list, n + 1, m)) = IF n <= m THEN m - n ELSE 0
  BY <1>3
<1>6. ASSUME NEW k \in 1..Len(SubSeq(list, n + 1, m)) PROVE SubSeq(list, n + 1, m)[k] = list[n + k]
  <2>1. k \in 1..(m - (n + 1) + 1) /\ n + 1 + k - 1 = n + k
    BY <1>5
  <2> QED BY <1>3, <2>1
<1> QED BY <1>1, <1>3, <1>4, <1>5, <1>6

\* The same, for lists of known lengths.
Firsts(S, list, p, d) == d \in Seq(S) /\ Len(d) = p /\ \A k \in 1..p : d[k] = list[k]
Rest(S, list, n, p, d) == d \in Seq(S) /\ Len(d) = p /\ \A k \in 1..p : d[k] = list[n + k]

LEMMA FirstsAre ==
    ASSUME NEW S, NEW list \in Seq(S), NEW n \in Nat, NEW m \in Nat, Len(list) = m,
           NEW p \in Nat, p = IF n < m THEN n ELSE m
    PROVE  Firsts(S, list, p, FirstOf(list, n))
<1>1. PICK d : d = FirstOf(list, n)
  OBVIOUS
<1>2. d \in Seq(S) /\ Len(d) = (IF n < Len(list) THEN n ELSE Len(list)) /\ \A k \in 1..Len(d) : d[k] = list[k]
  BY <1>1, FirstOfIs
<1>3. Len(d) = p
  BY <1>2
<1> QED BY <1>1, <1>2, <1>3 DEF Firsts

LEMMA RestIs ==
    ASSUME NEW S, NEW list \in Seq(S), NEW n \in Nat, NEW m \in Nat, Len(list) = m,
           NEW p \in Nat, p = IF n <= m THEN m - n ELSE 0
    PROVE  Rest(S, list, n, p, Skip(list, n))
<1>1. PICK d : d = Skip(list, n)
  OBVIOUS
<1>2. d \in Seq(S) /\ Len(d) = (IF n <= Len(list) THEN Len(list) - n ELSE 0) /\ \A k \in 1..Len(d) : d[k] = list[n + k]
  BY <1>1, SkipIs
<1>3. Len(d) = p
  BY <1>2
<1> QED BY <1>1, <1>2, <1>3 DEF Rest

LEMMA ReverseIs ==
    ASSUME NEW S, NEW list \in Seq(S)
    PROVE  /\ Reverse(list) \in Seq(S) /\ Len(Reverse(list)) = Len(list)
           /\ \A k \in 1..Len(list) : Reverse(list)[k] = list[Len(list) - k + 1]
<1>1. PICK m \in Nat : m = Len(list)
  BY ListIs
<1>2. \A k \in 1..m : list[m - k + 1] \in S
  <2>1. \A k \in 1..m : m - k + 1 \in 1..m
    OBVIOUS
  <2> QED BY <1>1, <2>1, ListIs
<1>3. PICK r : r = [k \in 1..m |-> list[m - k + 1]]
  OBVIOUS
<1>4. r \in [1..m -> S]
  BY <1>2, <1>3
<1>5. r \in Seq(S) /\ Len(r) = m
  BY <1>4, SeqDef, LenProperties
<1>6. Reverse(list) = r
  BY <1>1, <1>3 DEF Reverse
<1> QED BY <1>1, <1>3, <1>5, <1>6

Joins(S, s, r, p, q, d) ==
    /\ d \in Seq(S) /\ Len(d) = p + q
    /\ \A k \in 1..p : d[k] = s[k]
    /\ \A k \in (p + 1)..(p + q) : d[k] = r[k - p]

LEMMA JoinIs ==
    ASSUME NEW S, NEW s \in Seq(S), NEW r \in Seq(S), NEW p \in Nat, NEW q \in Nat, Len(s) = p, Len(r) = q
    PROVE  Joins(S, s, r, p, q, s \o r)
<1>1. PICK d : d = s \o r
  OBVIOUS
<1>2. d \in Seq(S) /\ Len(d) = Len(s) + Len(r)
      /\ \A k \in 1..(Len(s) + Len(r)) : d[k] = IF k <= Len(s) THEN s[k] ELSE r[k - Len(s)]
  BY <1>1, ConcatProperties
<1>3. \A k \in 1..(p + q) : d[k] = IF k <= p THEN s[k] ELSE r[k - p]
  BY <1>2
<1>4. Len(d) = p + q
  BY <1>2
<1>5. ASSUME NEW k \in 1..p PROVE d[k] = s[k]
  <2>1. k \in 1..(p + q) /\ k <= p
    OBVIOUS
  <2> QED BY <1>3, <2>1
<1>6. ASSUME NEW k \in (p + 1)..(p + q) PROVE d[k] = r[k - p]
  <2>1. k \in 1..(p + q) /\ ~(k <= p)
    OBVIOUS
  <2> QED BY <1>3, <2>1
<1> QED BY <1>1, <1>2, <1>4, <1>5, <1>6 DEF Joins

\* x comes at place i.
InsertedAt(list, i, x, longer) ==
    /\ Len(longer) = Len(list) + 1 /\ longer[i] = x
    /\ \A k \in 1..Len(longer) : (k < i => longer[k] = list[k]) /\ (k > i => longer[k] = list[k - 1])

LEMMA InsertIs ==
    ASSUME NEW S, NEW list \in Seq(S), NEW i \in 1..(Len(list) + 1), NEW x \in S
    PROVE  InsertAt(list, i, x) \in Seq(S) /\ InsertedAt(list, i, x, InsertAt(list, i, x))
<1>1. PICK m \in Nat : m = Len(list)
  BY ListIs
<1>2. i \in Nat /\ 1 <= i /\ i <= m + 1 /\ i - 1 \in Int /\ 1 \in Int
  BY <1>1
<1>3. PICK a : a = SubSeq(list, 1, i - 1)
  OBVIOUS
<1>4. PICK b : b = SubSeq(list, i, m)
  OBVIOUS
<1>5. \A k \in 1..m : list[k] \in S
  BY <1>1, ListIs
<1>6. a \in Seq(S) /\ Len(a) = i - 1 /\ \A k \in 1..(i - 1) : a[k] = list[k]
  <2>1. \A k \in 1..(i - 1) : list[k] \in S
    BY <1>2, <1>5
  <2>2. /\ a \in Seq(S) /\ Len(a) = (IF 1 <= i - 1 THEN i - 1 - 1 + 1 ELSE 0)
        /\ \A k \in 1..(i - 1 - 1 + 1) : a[k] = list[1 + k - 1]
    BY <1>2, <1>3, <2>1, SubSeqProperties
  <2> QED BY <1>2, <2>2
<1>7. b \in Seq(S) /\ Len(b) = m - i + 1 /\ \A k \in 1..(m - i + 1) : b[k] = list[i + k - 1]
  <2>1. \A k \in i..m : list[k] \in S
    BY <1>2, <1>5
  <2>2. /\ b \in Seq(S) /\ Len(b) = (IF i <= m THEN m - i + 1 ELSE 0)
        /\ \A k \in 1..(m - i + 1) : b[k] = list[i + k - 1]
    BY <1>2, <1>4, <2>1, SubSeqProperties
  <2>3. (IF i <= m THEN m - i + 1 ELSE 0) = m - i + 1
    BY <1>2
  <2>4. Len(b) = m - i + 1
    BY <2>2, <2>3
  <2> QED BY <2>2, <2>4
<1>8. <<x>> \in Seq(S) /\ Len(<<x>>) = 1 /\ <<x>>[1] = x
  OBVIOUS
<1>16. PICK p \in Nat : p = i - 1
  BY <1>2
<1>17. PICK q \in Nat : q = m - i + 1
  BY <1>2
<1>9. PICK c : c = a \o <<x>>
  OBVIOUS
<1>10. c \in Seq(S) /\ Len(c) = i /\ c[i] = x /\ \A k \in 1..(i - 1) : c[k] = list[k]
  <2>1. Len(a) = p
    BY <1>6, <1>16
  <2>2. /\ c \in Seq(S) /\ Len(c) = p + 1 /\ \A k \in 1..p : c[k] = a[k]
        /\ \A k \in (p + 1)..(p + 1) : c[k] = <<x>>[k - p]
    <3>1. Joins(S, a, <<x>>, p, 1, c)
      BY <1>6, <1>8, <1>9, <2>1, JoinIs
    <3> QED BY <3>1 DEF Joins
  <2>3. p + 1 = i /\ i \in (p + 1)..(p + 1) /\ i - p = 1
    BY <1>2, <1>16
  <2>4. c[i] = x
    BY <1>8, <2>2, <2>3
  <2> QED BY <1>6, <1>16, <2>2, <2>3, <2>4
<1>11. PICK d : d = c \o b
  OBVIOUS
<1>12. /\ d \in Seq(S) /\ Len(d) = m + 1 /\ \A k \in 1..i : d[k] = c[k]
       /\ \A k \in (i + 1)..(m + 1) : d[k] = b[k - i]
  <2>1. Len(b) = q /\ i \in Nat
    BY <1>2, <1>7, <1>17
  <2>2. /\ d \in Seq(S) /\ Len(d) = i + q /\ \A k \in 1..i : d[k] = c[k]
        /\ \A k \in (i + 1)..(i + q) : d[k] = b[k - i]
    <3>1. Joins(S, c, b, i, q, d)
      BY <1>7, <1>10, <1>11, <2>1, JoinIs
    <3> QED BY <3>1 DEF Joins
  <2>3. i + q = m + 1
    BY <1>2, <1>17
  <2> QED BY <2>2, <2>3
<1>13. ASSUME NEW k \in 1..(m + 1) PROVE (k < i => d[k] = list[k]) /\ (k > i => d[k] = list[k - 1])
  <2>1. ASSUME k < i PROVE d[k] = list[k]
    <3>1. k \in 1..i /\ k \in 1..(i - 1)
      BY <1>2, <2>1
    <3> QED BY <1>10, <1>12, <3>1
  <2>2. ASSUME k > i PROVE d[k] = list[k - 1]
    <3>1. k - i \in 1..(m - i + 1) /\ i + (k - i) - 1 = k - 1 /\ k \in (i + 1)..(m + 1)
      BY <1>2, <2>2
    <3> QED BY <1>7, <1>12, <3>1
  <2> QED BY <2>1, <2>2
<1>14. d[i] = x
  BY <1>2, <1>10, <1>12
<1>15. InsertAt(list, i, x) = d
  BY <1>1, <1>3, <1>4, <1>9, <1>11 DEF InsertAt
<1> QED BY <1>1, <1>12, <1>13, <1>14, <1>15 DEF InsertedAt

RemovedAt(list, i, shorter) ==
    /\ Len(shorter) = Len(list) - 1
    /\ \A k \in 1..Len(shorter) : (k < i => shorter[k] = list[k]) /\ (k >= i => shorter[k] = list[k + 1])

LEMMA RemoveIs ==
    ASSUME NEW S, NEW list \in Seq(S), NEW i \in 1..Len(list)
    PROVE  RemoveAt(list, i) \in Seq(S) /\ RemovedAt(list, i, RemoveAt(list, i))
<1>1. PICK m \in Nat : m = Len(list)
  BY ListIs
<1>2. i \in Nat /\ 1 <= i /\ i <= m /\ i - 1 \in Int /\ 1 \in Int /\ i + 1 \in Int
  BY <1>1
<1>3. PICK a : a = SubSeq(list, 1, i - 1)
  OBVIOUS
<1>4. PICK b : b = SubSeq(list, i + 1, m)
  OBVIOUS
<1>5. \A k \in 1..m : list[k] \in S
  BY <1>1, ListIs
<1>6. a \in Seq(S) /\ Len(a) = i - 1 /\ \A k \in 1..(i - 1) : a[k] = list[k]
  <2>1. \A k \in 1..(i - 1) : list[k] \in S
    BY <1>2, <1>5
  <2>2. /\ a \in Seq(S) /\ Len(a) = (IF 1 <= i - 1 THEN i - 1 - 1 + 1 ELSE 0)
        /\ \A k \in 1..(i - 1 - 1 + 1) : a[k] = list[1 + k - 1]
    BY <1>2, <1>3, <2>1, SubSeqProperties
  <2> QED BY <1>2, <2>2
<1>7. b \in Seq(S) /\ Len(b) = m - i /\ \A k \in 1..(m - i) : b[k] = list[i + k]
  <2>1. \A k \in (i + 1)..m : list[k] \in S
    BY <1>2, <1>5
  <2>2. /\ b \in Seq(S) /\ Len(b) = (IF i + 1 <= m THEN m - (i + 1) + 1 ELSE 0)
        /\ \A k \in 1..(m - (i + 1) + 1) : b[k] = list[i + 1 + k - 1]
    BY <1>2, <1>4, <2>1, SubSeqProperties
  <2>3. Len(b) = m - i
    BY <1>2, <2>2
  <2>4. ASSUME NEW k \in 1..(m - i) PROVE b[k] = list[i + k]
    <3>1. k \in 1..(m - (i + 1) + 1) /\ i + 1 + k - 1 = i + k
      BY <1>2
    <3> QED BY <2>2, <3>1
  <2> QED BY <2>2, <2>3, <2>4
<1>8. PICK d : d = a \o b
  OBVIOUS
<1>12. PICK p \in Nat : p = i - 1
  BY <1>2
<1>13. PICK q \in Nat : q = m - i
  BY <1>2
<1>9. /\ d \in Seq(S) /\ Len(d) = m - 1 /\ \A k \in 1..p : d[k] = a[k]
      /\ \A k \in (p + 1)..(m - 1) : d[k] = b[k - p]
  <2>1. Len(a) = p /\ Len(b) = q
    BY <1>6, <1>7, <1>12, <1>13
  <2>2. /\ d \in Seq(S) /\ Len(d) = p + q /\ \A k \in 1..p : d[k] = a[k]
        /\ \A k \in (p + 1)..(p + q) : d[k] = b[k - p]
    <3>1. Joins(S, a, b, p, q, d)
      BY <1>6, <1>7, <1>8, <2>1, JoinIs
    <3> QED BY <3>1 DEF Joins
  <2>3. p + q = m - 1
    BY <1>2, <1>12, <1>13
  <2> QED BY <2>2, <2>3
<1>10. ASSUME NEW k \in 1..(m - 1) PROVE (k < i => d[k] = list[k]) /\ (k >= i => d[k] = list[k + 1])
  <2>1. ASSUME k < i PROVE d[k] = list[k]
    <3>1. k \in 1..p /\ k \in 1..(i - 1)
      BY <1>2, <1>12, <2>1
    <3> QED BY <1>6, <1>9, <3>1
  <2>2. ASSUME k >= i PROVE d[k] = list[k + 1]
    <3>1. k - p \in 1..(m - i) /\ i + (k - p) = k + 1 /\ k \in (p + 1)..(m - 1)
      BY <1>2, <1>12, <2>2
    <3> QED BY <1>7, <1>9, <3>1
  <2> QED BY <2>1, <2>2
<1>11. RemoveAt(list, i) = d
  BY <1>1, <1>3, <1>4, <1>8 DEF RemoveAt
<1> QED BY <1>1, <1>9, <1>10, <1>11 DEF RemovedAt

\* No row occurs twice.
Distinct(list) == \A j, k \in 1..Len(list) : list[j] = list[k] => j = k

LEMMA EmptyIs ==
    ASSUME NEW S
    PROVE  << >> \in Seq(S) /\ Len(<< >>) = 0 /\ Range(<< >>) = {} /\ Distinct(<< >>)
<1>1. << >> \in Seq(S) /\ Len(<< >>) = 0
  OBVIOUS
<1>2. PICK r \in Seq(S) : r = << >>
  BY <1>1
<1>3. Range(r) = {r[k] : k \in 1..0}
  <2>1. Len(r) = 0
    BY <1>1, <1>2
  <2>2. Range(r) = {r[k] : k \in 1..Len(r)}
    BY ONLY r \in Seq(S), ListIs
  <2> QED BY <2>1, <2>2
<1>4. 1..0 = {}
  OBVIOUS
<1>5. Range(r) = {}
  BY <1>3, <1>4
<1> QED BY <1>1, <1>2, <1>4, <1>5 DEF Distinct

LEMMA AppendIs ==
    ASSUME NEW S, NEW list \in Seq(S), NEW x \in S
    PROVE  /\ Append(list, x) \in Seq(S) /\ Range(Append(list, x)) = Range(list) \cup {x}
           /\ Distinct(list) /\ x \notin Range(list) => Distinct(Append(list, x))
<1>1. PICK m \in Nat : m = Len(list)
  BY ListIs
<1>2. PICK d : d = Append(list, x)
  OBVIOUS
<1>3. d \in Seq(S) /\ Len(d) = m + 1 /\ d[m + 1] = x /\ \A k \in 1..m : d[k] = list[k]
  BY <1>1, <1>2, AppendProperties
<1>4. Range(list) = {list[k] : k \in 1..m} /\ Range(d) = {d[k] : k \in 1..(m + 1)}
  BY <1>1, <1>3, ListIs
<1>5. m + 1 \in 1..(m + 1) /\ (\A k \in 1..m : k \in 1..(m + 1)) /\ \A k \in 1..(m + 1) : k = m + 1 \/ k \in 1..m
  OBVIOUS
<1>6. Range(d) = Range(list) \cup {x}
  BY <1>3, <1>4, <1>5
<1>7. ASSUME Distinct(list), x \notin Range(list), NEW j \in 1..(m + 1), NEW k \in 1..(m + 1), d[j] = d[k]
      PROVE  j = k
  <2>1. \A i \in 1..m : list[i] # x
    BY <1>4, <1>7
  <2>2. \A i, l \in 1..m : list[i] = list[l] => i = l
    BY <1>1, <1>7 DEF Distinct
  <2> QED BY <1>3, <1>5, <1>7, <2>1, <2>2
<1> QED BY <1>2, <1>3, <1>6, <1>7 DEF Distinct

\* A part of a list without repetitions has none.
LEMMA FirstIsDistinct ==
    ASSUME NEW S, NEW list \in Seq(S), NEW n \in Nat, Distinct(list)
    PROVE  Distinct(FirstOf(list, n)) /\ Range(FirstOf(list, n)) \subseteq Range(list)
<1>1. PICK m \in Nat : m = Len(list)
  BY ListIs
<1>2. PICK d : d = FirstOf(list, n)
  OBVIOUS
<1>3. PICK p \in Nat : p = IF n < m THEN n ELSE m
  OBVIOUS
<1>4. d \in Seq(S) /\ Len(d) = p /\ \A k \in 1..p : d[k] = list[k]
  BY <1>1, <1>2, <1>3, FirstOfIs
<1>5. \A k \in 1..p : k \in 1..m
  BY <1>3
<1>6. Range(list) = {list[k] : k \in 1..m} /\ Range(d) = {d[k] : k \in 1..p}
  BY <1>1, <1>4, ListIs
<1> QED BY <1>1, <1>2, <1>4, <1>5, <1>6 DEF Distinct

\* The rows of a list that are in a set: those, and none twice.
LEMMA KeptIs ==
    ASSUME NEW V, NEW list \in Seq(V), NEW S
    PROVE  /\ Kept(list, S) \in Seq(V) /\ Range(Kept(list, S)) = Range(list) \cap S
           /\ Distinct(list) => Distinct(Kept(list, S))
<1>1. PICK m \in Nat : m = Len(list)
  BY ListIs
<1>2. \A k \in 1..m : list[k] \in V
  BY <1>1, ListIs
<1>3. PICK F : F = [p \in (1..m) \X Seq(V) |-> IF list[p[1]] \in S THEN Append(p[2], list[p[1]]) ELSE p[2]]
  OBVIOUS
<1>4. F \in [(1..m) \X Seq(V) -> Seq(V)]
  <2> SUFFICES ASSUME NEW k \in 1..m, NEW r \in Seq(V)
               PROVE  (IF list[k] \in S THEN Append(r, list[k]) ELSE r) \in Seq(V)
    BY <1>3
  <2>1. Append(r, list[k]) \in Seq(V)
    BY <1>2, AppendProperties
  <2> QED BY <2>1
<1>5. << >> \in Seq(V)
  OBVIOUS
<1>6. PICK g \in [0..m -> Seq(V)] : Stepwise(g, m, << >>, F)
  BY <1>4, <1>5, StepsExist
<1> DEFINE Steps(h) == h = [n \in 0..m |-> IF n = 0 THEN << >>
                            ELSE IF list[n] \in S THEN Append(h[n - 1], list[n]) ELSE h[n - 1]]
<1>7. Steps(g)
  <2>1. \A n \in 0..m : g[n] = IF n = 0 THEN << >> ELSE F[<<n, g[n - 1]>>]
    BY <1>6 DEF Stepwise
  <2>2. ASSUME NEW n \in 0..m, n # 0
        PROVE  g[n] = IF list[n] \in S THEN Append(g[n - 1], list[n]) ELSE g[n - 1]
    <3>1. n \in 1..m /\ n - 1 \in 0..m
      BY <2>2
    <3>2. g[n - 1] \in Seq(V)
      BY <3>1
    <3> QED BY <1>3, <2>1, <2>2, <3>1, <3>2
  <2>3. g = [n \in 0..m |-> g[n]]
    OBVIOUS
  <2>4. g[0] = << >>
    <3>1. 0 \in 0..m
      OBVIOUS
    <3> QED BY <2>1, <3>1
  <2> QED BY <2>2, <2>3, <2>4
<1>8. PICK h : h = CHOOSE f : Steps(f)
  OBVIOUS
<1>9. Steps(h)
  <2> HIDE DEF Steps
  <2> QED BY <1>7, <1>8
<1>10. Kept(list, S) = h[m]
  BY <1>1, <1>8 DEF Kept
<1>11. \A n \in 0..m : h[n] = IF n = 0 THEN << >> ELSE IF list[n] \in S THEN Append(h[n - 1], list[n]) ELSE h[n - 1]
  BY <1>9
<1> HIDE DEF Steps
<1> DEFINE Upto(n) == {list[k] : k \in 1..n}
           Fine(n) == h[n] \in Seq(V) /\ Range(h[n]) = Upto(n) \cap S /\ (Distinct(list) => Distinct(h[n]))
           Wrong == {n \in 0..m : ~Fine(n)}
<1>12. Wrong = {}
  <2> SUFFICES ASSUME Wrong # {} PROVE FALSE
    OBVIOUS
  <2>1. PICK n \in Wrong : \A k \in Wrong : ~(k < n)
    <3>1. Wrong \in SUBSET Nat
      OBVIOUS
    <3> HIDE DEF Wrong
    <3> QED BY <3>1, Least
  <2>2. n \in 0..m /\ ~Fine(n)
    BY <2>1
  <2>3. CASE n = 0
    <3>1. h[n] = << >>
      BY <1>11, <2>3
    <3>2. Upto(n) = {}
      BY <2>3
    <3>3. << >> \in Seq(V) /\ Range(<< >>) = {} /\ Distinct(<< >>)
      BY EmptyIs
    <3> HIDE DEF Upto
    <3> QED BY <2>2, <3>1, <3>2, <3>3
  <2>4. CASE n # 0
    <3>1. n - 1 \in 0..m /\ n - 1 < n /\ n \in 1..m /\ n - 1 \in Nat
      BY <2>2, <2>4
    <3>2. Fine(n - 1)
      <4>1. n - 1 \notin Wrong
        <5> HIDE DEF Wrong
        <5> QED BY <2>1, <3>1
      <4> QED BY <3>1, <4>1
    <3>3. PICK r : r = h[n - 1]
      OBVIOUS
    <3>4. PICK x \in V : x = list[n]
      BY <1>2, <3>1
    <3>5. r \in Seq(V) /\ Range(r) = Upto(n - 1) \cap S /\ (Distinct(list) => Distinct(r))
      BY <3>2, <3>3
    <3>6. Upto(n) = Upto(n - 1) \cup {x}
      <4>1. n \in 1..n /\ (\A k \in 1..(n - 1) : k \in 1..n) /\ \A k \in 1..n : k = n \/ k \in 1..(n - 1)
        BY <3>1
      <4> QED BY <3>4, <4>1
    <3>7. Distinct(list) => x \notin Upto(n - 1)
      <4>1. ASSUME Distinct(list), NEW k \in 1..(n - 1), list[k] = x PROVE FALSE
        <5>1. k \in 1..m /\ k # n
          BY <3>1, SMTT(30)
        <5> QED BY <1>1, <3>1, <3>4, <4>1, <5>1 DEF Distinct
      <4> QED BY <4>1
    <3>8. h[n] = IF x \in S THEN Append(r, x) ELSE r
      BY <1>11, <2>2, <2>4, <3>3, <3>4
    <3>9. /\ Append(r, x) \in Seq(V) /\ Range(Append(r, x)) = Range(r) \cup {x}
          /\ Distinct(r) /\ x \notin Range(r) => Distinct(Append(r, x))
      BY <3>5, AppendIs
    <3> HIDE DEF Upto
    <3> QED BY <2>2, <3>5, <3>6, <3>7, <3>8, <3>9
  <2> QED BY <2>3, <2>4
<1>13. Fine(m)
  <2>1. m \in 0..m
    OBVIOUS
  <2> QED BY <1>12, <2>1
<1>14. Upto(m) = Range(list)
  BY <1>1, ListIs
<1> QED BY <1>10, <1>13, <1>14

--------------------------------------------------------------------------------
(* Pages of a list, the newest row first *)

\* The rows that are not among the newest.
Before(list, newest) == {list[k] : k \in 1..(Len(list) - newest)}

\* A page gives the rows from an offset on, the newest first.
IsPage(list, size, offset, page) ==
    \E p \in Nat :
        /\ Len(page) = p /\ p <= size
        /\ offset + size <= Len(list) => p = size
        /\ (offset <= Len(list) /\ Len(list) < offset + size) => p = Len(list) - offset
        /\ Len(list) < offset => p = 0
        /\ \A k \in 1..p : page[k] = list[Len(list) - offset - k + 1]

LEMMA PagesAre ==
    ASSUME NEW S, NEW list \in Seq(S), NEW size \in Nat, NEW offset \in Nat,
           NEW upto \in Nat, offset + size <= upto
    PROVE  LET page == FirstOf(Skip(FirstOf(Reverse(list), upto), offset), size)
           IN  page \in Seq(S) /\ IsPage(list, size, offset, page)
<1>1. PICK m \in Nat : m = Len(list)
  BY ListIs
<1>2. PICK a : a = Reverse(list)
  OBVIOUS
<1>3. a \in Seq(S) /\ Len(a) = m /\ \A k \in 1..m : a[k] = list[m - k + 1]
  BY <1>1, <1>2, ReverseIs
<1>4. PICK b : b = FirstOf(a, upto)
  OBVIOUS
<1>5. PICK q \in Nat : q = IF upto < m THEN upto ELSE m
  OBVIOUS
<1>6. b \in Seq(S) /\ Len(b) = q /\ \A k \in 1..q : b[k] = a[k]
  <2>1. Firsts(S, a, q, b)
    BY <1>3, <1>4, <1>5, FirstsAre
  <2> QED BY <2>1 DEF Firsts
<1>7. PICK c : c = Skip(b, offset)
  OBVIOUS
<1>8. PICK r \in Nat : r = IF offset <= q THEN q - offset ELSE 0
  <2>1. (IF offset <= q THEN q - offset ELSE 0) \in Nat
    OBVIOUS
  <2> QED BY <2>1
<1>9. c \in Seq(S) /\ Len(c) = r /\ \A k \in 1..r : c[k] = b[offset + k]
  <2>1. Rest(S, b, offset, r, c)
    BY <1>6, <1>7, <1>8, RestIs
  <2> QED BY <2>1 DEF Rest
<1>10. PICK d : d = FirstOf(c, size)
  OBVIOUS
<1>11. PICK p \in Nat : p = IF size < r THEN size ELSE r
  OBVIOUS
<1>12. d \in Seq(S) /\ Len(d) = p /\ \A k \in 1..p : d[k] = c[k]
  <2>1. Firsts(S, c, p, d)
    BY <1>9, <1>10, <1>11, FirstsAre
  <2> QED BY <2>1 DEF Firsts
<1>13. ASSUME NEW k \in 1..p PROVE d[k] = list[m - offset - k + 1]
  <2>1. k \in 1..r /\ offset + k \in 1..q /\ offset + k \in 1..m /\ m - (offset + k) + 1 = m - offset - k + 1
    BY <1>5, <1>8, <1>11
  <2>2. d[k] = c[k] /\ c[k] = b[offset + k]
    BY <1>9, <1>12, <2>1
  <2>3. b[offset + k] = a[offset + k] /\ a[offset + k] = list[m - (offset + k) + 1]
    BY <1>3, <1>6, <2>1
  <2> QED BY <2>1, <2>2, <2>3
<1>14. /\ p <= size
       /\ offset + size <= m => p = size
       /\ (offset <= m /\ m < offset + size) => p = m - offset
       /\ m < offset => p = 0
  BY <1>5, <1>8, <1>11
<1> QED BY <1>1, <1>2, <1>4, <1>7, <1>10, <1>12, <1>13, <1>14 DEF IsPage

\* A page takes its rows from those before the offset, and leaves those before the next one.
LEMMA PageTakes ==
    ASSUME NEW S, NEW list \in Seq(S), Distinct(list), NEW size \in Nat, NEW offset \in Nat,
           NEW page \in Seq(S), IsPage(list, size, offset, page)
    PROVE  /\ Before(list, offset) = Before(list, offset + size) \cup Range(page)
           /\ Before(list, offset + size) \cap Range(page) = {} /\ Distinct(page)
           /\ Len(page) < size => Before(list, offset + size) = {}
<1>1. PICK m \in Nat : m = Len(list)
  BY ListIs
<1>2. PICK p \in Nat :
        /\ Len(page) = p /\ p <= size
        /\ offset + size <= m => p = size
        /\ (offset <= m /\ m < offset + size) => p = m - offset
        /\ m < offset => p = 0
        /\ \A k \in 1..p : page[k] = list[m - offset - k + 1]
  BY <1>1 DEF IsPage
<1>3. Range(page) = {page[k] : k \in 1..p}
  BY <1>2, ListIs
<1>4. PICK b : b = m - offset
  OBVIOUS
<1>5. PICK c : c = m - (offset + size)
  OBVIOUS
<1>6. Before(list, offset) = {list[k] : k \in 1..b} /\ Before(list, offset + size) = {list[k] : k \in 1..c}
  BY <1>1, <1>4, <1>5 DEF Before
<1>7. /\ \A k \in 1..c : k \in 1..b /\ k \in 1..m
      /\ \A k \in 1..p : b - k + 1 \in 1..b /\ b - k + 1 \in 1..m /\ m - offset - k + 1 = b - k + 1 /\ b - k + 1 \notin 1..c
      /\ \A k \in 1..b : k \in 1..c \/ (b - k + 1 \in 1..p /\ b - (b - k + 1) + 1 = k)
      /\ b \in Int /\ c \in Int
  BY <1>2, <1>4, <1>5
<1>8. \A j, k \in 1..m : list[j] = list[k] => j = k
  BY <1>1 DEF Distinct
<1>9. \A k \in 1..p : page[k] = list[b - k + 1]
  BY <1>2, <1>7
<1>10. Range(page) \subseteq Before(list, offset) /\ Before(list, offset + size) \subseteq Before(list, offset)
  <2>1. ASSUME NEW k \in 1..p PROVE page[k] \in Before(list, offset)
    <3>1. PICK j \in 1..b : j = b - k + 1
      BY <1>7
    <3> QED BY <1>6, <1>9, <3>1
  <2>2. \A k \in 1..c : k \in 1..b
    BY <1>7
  <2> QED BY <1>3, <1>6, <2>1, <2>2
<1>11. ASSUME NEW x \in Before(list, offset) PROVE x \in Before(list, offset + size) \cup Range(page)
  <2>1. PICK k \in 1..b : x = list[k]
    BY <1>6
  <2>2. CASE k \in 1..c
    BY <1>6, <2>1, <2>2
  <2>3. CASE k \notin 1..c
    <3>1. PICK j \in 1..p : j = b - k + 1 /\ b - j + 1 = k
      BY <1>7, <2>3
    <3>2. page[j] = x
      BY <1>9, <2>1, <3>1
    <3> QED BY <1>3, <3>2
  <2> QED BY <2>2, <2>3
<1>12. ASSUME NEW x \in Before(list, offset + size), x \in Range(page) PROVE FALSE
  <2>1. PICK k \in 1..c : x = list[k]
    BY <1>6
  <2>2. PICK j \in 1..p : x = list[b - j + 1]
    BY <1>3, <1>9, <1>12
  <2>3. PICK i \in 1..m : i = b - j + 1 /\ i \notin 1..c
    BY <1>7
  <2>4. k \in 1..m /\ list[k] = list[i]
    BY <1>7, <2>1, <2>2, <2>3
  <2> QED BY <1>8, <2>3, <2>4
<1>13. ASSUME NEW i \in 1..p, NEW j \in 1..p, page[i] = page[j] PROVE i = j
  <2>1. b - i + 1 \in 1..m /\ b - j + 1 \in 1..m
    BY <1>7
  <2>2. list[b - i + 1] = list[b - j + 1]
    BY <1>9, <1>13
  <2>3. b - i + 1 = b - j + 1
    BY <1>8, <2>1, <2>2
  <2> QED BY <1>7, <2>3
<1>14. Distinct(page)
  BY <1>2, <1>13 DEF Distinct
<1>15. p < size => Before(list, offset + size) = {}
  <2>1. p < size => 1..c = {}
    BY <1>2, <1>5
  <2> QED BY <1>6, <2>1
<1> QED BY <1>2, <1>10, <1>11, <1>12, <1>14, <1>15

\* A row that comes moves at most one row before the offset.
Comes(list, x, longer, offset) ==
    /\ Range(longer) = Range(list) \cup {x}
    /\ Distinct(list) /\ x \notin Range(list) => Distinct(longer)
    /\ Before(list, offset) \subseteq Before(longer, offset)
    /\ \E y : Before(longer, offset) \subseteq Before(list, offset) \cup {y}

LEMMA ComingMoves ==
    ASSUME NEW S, NEW list \in Seq(S), NEW i \in 1..(Len(list) + 1), NEW x \in S, NEW longer \in Seq(S),
           InsertedAt(list, i, x, longer), NEW offset \in Nat
    PROVE  Comes(list, x, longer, offset)
<1>1. PICK m \in Nat : m = Len(list)
  BY ListIs
<1>2. /\ Len(longer) = m + 1 /\ longer[i] = x /\ i \in Nat /\ 1 <= i /\ i <= m + 1
      /\ \A k \in 1..(m + 1) : (k < i => longer[k] = list[k]) /\ (k > i => longer[k] = list[k - 1])
  BY <1>1 DEF InsertedAt
<1>3. PICK b \in Int : b = m - offset
  OBVIOUS
<1>4. Before(list, offset) = {list[k] : k \in 1..b} /\ Before(longer, offset) = {longer[k] : k \in 1..(b + 1)}
  <2>1. m + 1 - offset = b + 1
    BY <1>3
  <2> QED BY <1>1, <1>2, <1>3, <2>1 DEF Before
<1>5. Range(list) = {list[k] : k \in 1..m} /\ Range(longer) = {longer[k] : k \in 1..(m + 1)}
  BY <1>1, <1>2, ListIs
<1>6. b <= m
  BY <1>3
<1>7. ASSUME NEW k \in 1..m PROVE \E l \in {k, k + 1} : l \in 1..(m + 1) /\ l # i /\ longer[l] = list[k]
  <2>1. CASE k < i
    <3>1. k \in 1..(m + 1) /\ k # i
      BY <1>2, <2>1
    <3> QED BY <1>2, <2>1, <3>1
  <2>2. CASE ~(k < i)
    <3>1. k + 1 \in 1..(m + 1) /\ k + 1 > i /\ k + 1 - 1 = k
      BY <1>2, <2>2
    <3> QED BY <1>2, <3>1
  <2> QED BY <2>1, <2>2
<1>8. ASSUME NEW k \in 1..(m + 1), k # i PROVE \E l \in {k - 1, k} : l \in 1..m /\ longer[k] = list[l]
  <2>1. CASE k < i
    <3>1. k \in 1..m
      BY <1>2, <2>1
    <3> QED BY <1>2, <2>1, <3>1
  <2>2. CASE ~(k < i)
    <3>1. k - 1 \in 1..m /\ k > i
      BY <1>2, <1>8, <2>2
    <3> QED BY <1>2, <3>1
  <2> QED BY <2>1, <2>2
<1>9. i \in 1..(m + 1)
  BY <1>2
<1>10. Range(longer) = Range(list) \cup {x}
  <2>1. Range(longer) \subseteq Range(list) \cup {x}
    BY <1>2, <1>5, <1>8
  <2>2. Range(list) \subseteq Range(longer)
    BY <1>5, <1>7
  <2>3. x \in Range(longer)
    BY <1>2, <1>5, <1>9
  <2> QED BY <2>1, <2>2, <2>3
<1>11. ASSUME Distinct(list), x \notin Range(list), NEW j \in 1..(m + 1), NEW k \in 1..(m + 1), longer[j] = longer[k]
       PROVE  j = k
  <2>1. \A l \in 1..m : list[l] # x
    BY <1>5, <1>11
  <2>2. \A l, n \in 1..m : list[l] = list[n] => l = n
    BY <1>1, <1>11 DEF Distinct
  <2>3. CASE j = i \/ k = i
    BY <1>2, <1>8, <1>11, <2>1, <2>3
  <2>4. CASE j # i /\ k # i
    <3>1. \A l \in 1..(m + 1) : (l < i => l \in 1..m) /\ (l > i => l - 1 \in 1..m) /\ (l # i => l < i \/ l > i)
      BY <1>2
    <3>2. CASE j < i /\ k < i
      BY <1>2, <1>11, <2>2, <3>1, <3>2
    <3>3. CASE j > i /\ k > i
      <4>1. j - 1 \in 1..m /\ k - 1 \in 1..m /\ list[j - 1] = list[k - 1]
        BY <1>2, <1>11, <3>1, <3>3
      <4>2. j - 1 = k - 1
        BY <2>2, <4>1
      <4> QED BY <4>2
    <3>4. CASE j < i /\ k > i
      <4>1. j \in 1..m /\ k - 1 \in 1..m /\ list[j] = list[k - 1]
        BY <1>2, <1>11, <3>1, <3>4
      <4>2. j = k - 1
        BY <2>2, <4>1
      <4> QED BY <1>2, <3>4, <4>2
    <3>5. CASE j > i /\ k < i
      <4>1. j - 1 \in 1..m /\ k \in 1..m /\ list[j - 1] = list[k]
        BY <1>2, <1>11, <3>1, <3>5
      <4>2. j - 1 = k
        BY <2>2, <4>1
      <4> QED BY <1>2, <3>5, <4>2
    <3> QED BY <2>4, <3>1, <3>2, <3>3, <3>4, <3>5
  <2> QED BY <2>3, <2>4
<1>12. Before(list, offset) \subseteq Before(longer, offset)
  <2> SUFFICES ASSUME NEW k \in 1..b PROVE list[k] \in Before(longer, offset)
    BY <1>4
  <2>1. k \in 1..m /\ k \in 1..(b + 1) /\ k + 1 \in 1..(b + 1)
    BY <1>6
  <2>2. PICK l \in {k, k + 1} : longer[l] = list[k]
    BY <1>7, <2>1
  <2> QED BY <1>4, <2>1, <2>2
<1>13. \E y : Before(longer, offset) \subseteq Before(list, offset) \cup {y}
  <2>1. CASE i <= b + 1
    <3> SUFFICES ASSUME NEW k \in 1..(b + 1) PROVE longer[k] \in Before(list, offset) \cup {x}
      BY <1>4
    <3>1. CASE k = i
      BY <1>2, <3>1
    <3>2. CASE k < i
      <4>1. k \in 1..b /\ k \in 1..(m + 1)
        BY <1>2, <1>6, <2>1, <3>2
      <4> QED BY <1>2, <1>4, <3>2, <4>1
    <3>3. CASE k > i
      <4>1. k - 1 \in 1..b /\ k \in 1..(m + 1)
        BY <1>2, <1>6, <2>1, <3>3
      <4> QED BY <1>2, <1>4, <3>3, <4>1
    <3>4. k \in Int /\ i \in Int
      BY <1>2
    <3> QED BY <3>1, <3>2, <3>3, <3>4
  <2>2. CASE ~(i <= b + 1)
    <3> SUFFICES ASSUME NEW k \in 1..(b + 1) PROVE longer[k] \in Before(list, offset) \cup {list[b + 1]}
      BY <1>4
    <3>1. k < i /\ k \in 1..(m + 1) /\ (k \in 1..b \/ k = b + 1)
      BY <1>2, <1>6, <2>2
    <3> QED BY <1>2, <1>4, <3>1
  <2> QED BY <2>1, <2>2
<1> QED BY <1>2, <1>10, <1>11, <1>12, <1>13 DEF Distinct, Comes

\* A row that goes takes at most one row from those before the offset.
LEMMA GoingMoves ==
    ASSUME NEW S, NEW list \in Seq(S), Distinct(list), NEW i \in 1..Len(list), NEW shorter \in Seq(S),
           RemovedAt(list, i, shorter), NEW offset \in Nat
    PROVE  /\ Range(shorter) = Range(list) \ {list[i]} /\ Distinct(shorter)
           /\ Before(shorter, offset) \subseteq Before(list, offset)
           /\ \E y : Before(list, offset) \subseteq Before(shorter, offset) \cup {y}
<1>1. PICK m \in Nat : m = Len(list)
  BY ListIs
<1>2. /\ Len(shorter) = m - 1 /\ i \in Nat /\ 1 <= i /\ i <= m
      /\ \A k \in 1..(m - 1) : (k < i => shorter[k] = list[k]) /\ (k >= i => shorter[k] = list[k + 1])
  BY <1>1 DEF RemovedAt
<1>3. PICK b \in Int : b = m - offset
  OBVIOUS
<1>4. Before(list, offset) = {list[k] : k \in 1..b} /\ Before(shorter, offset) = {shorter[k] : k \in 1..(b - 1)}
  <2>1. m - 1 - offset = b - 1
    BY <1>3
  <2> QED BY <1>1, <1>2, <1>3, <2>1 DEF Before
<1>5. Range(list) = {list[k] : k \in 1..m} /\ Range(shorter) = {shorter[k] : k \in 1..(m - 1)}
  BY <1>1, <1>2, ListIs
<1>6. b <= m /\ i \in 1..m
  BY <1>2, <1>3
<1>7. \A j, k \in 1..m : list[j] = list[k] => j = k
  BY <1>1 DEF Distinct
<1>8. \A k \in 1..m : list[k] = list[i] => k = i
  BY <1>6, <1>7
<1>9. ASSUME NEW k \in 1..(m - 1) PROVE \E l \in {k, k + 1} : l \in 1..m /\ l # i /\ shorter[k] = list[l]
  <2>1. CASE k < i
    <3>1. k \in 1..m /\ k # i
      BY <1>2, <2>1
    <3> QED BY <1>2, <2>1, <3>1
  <2>2. CASE ~(k < i)
    <3>1. k + 1 \in 1..m /\ k >= i /\ k + 1 # i
      BY <1>2, <2>2
    <3> QED BY <1>2, <3>1
  <2> QED BY <2>1, <2>2
<1>10. ASSUME NEW k \in 1..m, k # i PROVE \E l \in {k - 1, k} : l \in 1..(m - 1) /\ shorter[l] = list[k]
  <2>1. CASE k < i
    <3>1. k \in 1..(m - 1)
      BY <1>2, <2>1
    <3> QED BY <1>2, <2>1, <3>1
  <2>2. CASE ~(k < i)
    <3>1. k - 1 \in 1..(m - 1) /\ k - 1 >= i /\ k - 1 + 1 = k
      BY <1>2, <1>10, <2>2
    <3> QED BY <1>2, <3>1
  <2> QED BY <2>1, <2>2
<1>11. Range(shorter) = Range(list) \ {list[i]}
  <2>1. Range(shorter) \subseteq Range(list) \ {list[i]}
    BY <1>5, <1>8, <1>9, SMTT(30)
  <2>2. ASSUME NEW y \in Range(list), y # list[i] PROVE y \in Range(shorter)
    <3>1. PICK k \in 1..m : y = list[k] /\ k # i
      BY <1>5, <2>2
    <3> QED BY <1>5, <1>10, <3>1
  <2> QED BY <2>1, <2>2
<1>12. ASSUME NEW j \in 1..(m - 1), NEW k \in 1..(m - 1), shorter[j] = shorter[k] PROVE j = k
  <2>1. \A l \in 1..(m - 1) : l \in 1..m /\ l + 1 \in 1..m /\ l \in Int
    OBVIOUS
  <2>2. i \in Int
    BY <1>2
  <2>3. CASE j < i /\ k < i
    BY <1>2, <1>7, <1>12, <2>1, <2>3
  <2>4. CASE j >= i /\ k >= i
    <3>1. list[j + 1] = list[k + 1]
      BY <1>2, <1>12, <2>4
    <3>2. j + 1 = k + 1
      BY <1>7, <2>1, <3>1
    <3> QED BY <2>1, <3>2
  <2>5. CASE j < i /\ k >= i
    <3>1. list[j] = list[k + 1]
      BY <1>2, <1>12, <2>5
    <3>2. j = k + 1
      BY <1>7, <2>1, <3>1
    <3> QED BY <2>1, <2>2, <2>5, <3>2
  <2>6. CASE j >= i /\ k < i
    <3>1. list[j + 1] = list[k]
      BY <1>2, <1>12, <2>6
    <3>2. j + 1 = k
      BY <1>7, <2>1, <3>1
    <3> QED BY <2>1, <2>2, <2>6, <3>2
  <2> QED BY <2>1, <2>2, <2>3, <2>4, <2>5, <2>6
<1>13. Before(shorter, offset) \subseteq Before(list, offset)
  <2> SUFFICES ASSUME NEW k \in 1..(b - 1) PROVE shorter[k] \in Before(list, offset)
    BY <1>4
  <2>1. k \in 1..(m - 1) /\ k \in 1..b /\ k + 1 \in 1..b
    BY <1>6
  <2>2. PICK l \in {k, k + 1} : shorter[k] = list[l]
    BY <1>9, <2>1
  <2> QED BY <1>4, <2>1, <2>2
<1>14. \E y : Before(list, offset) \subseteq Before(shorter, offset) \cup {y}
  <2>1. CASE i <= b
    <3> SUFFICES ASSUME NEW k \in 1..b, k # i PROVE list[k] \in Before(shorter, offset)
      BY <1>4
    <3>1. CASE k < i
      <4>1. k \in 1..(b - 1) /\ k \in 1..(m - 1)
        BY <1>2, <1>6, <2>1, <3>1
      <4> QED BY <1>2, <1>4, <3>1, <4>1
    <3>2. CASE ~(k < i)
      <4>1. k - 1 \in 1..(b - 1) /\ k - 1 \in 1..(m - 1) /\ k - 1 >= i /\ k - 1 + 1 = k
        BY <1>2, <1>6, <2>1, <3>2
      <4>2. shorter[k - 1] = list[k]
        BY <1>2, <4>1
      <4> QED BY <1>4, <4>1, <4>2
    <3> QED BY <3>1, <3>2
  <2>2. CASE ~(i <= b)
    <3> SUFFICES ASSUME NEW k \in 1..b PROVE list[k] \in Before(shorter, offset) \cup {list[b]}
      BY <1>4
    <3>1. k < i /\ k \in 1..(m - 1) /\ (k \in 1..(b - 1) \/ k = b)
      BY <1>2, <1>6, <2>2
    <3> QED BY <1>2, <1>4, <3>1
  <2> QED BY <2>1, <2>2
<1>15. Distinct(shorter)
  BY <1>2, <1>12 DEF Distinct
<1> QED BY <1>11, <1>13, <1>14, <1>15

--------------------------------------------------------------------------------
(* How many rows a list gives *)

LEMMA RowsCount ==
    ASSUME NEW S, NEW list \in Seq(S)
    PROVE  /\ IsFiniteSet(Range(list)) /\ Cardinality(Range(list)) \in Nat
           /\ Distinct(list) => Cardinality(Range(list)) = Len(list)
<1>1. PICK m \in Nat : m = Len(list)
  BY ListIs
<1>2. PICK R : R = Range(list)
  OBVIOUS
<1>3. R = {list[k] : k \in 1..m} /\ \A k \in 1..m : list[k] \in R
  BY <1>1, <1>2, ListIs
<1>4. PICK f : f = [k \in 1..m |-> list[k]]
  OBVIOUS
<1>5. f \in [1..m -> R] /\ \A k \in 1..m : f[k] = list[k]
  BY <1>3, <1>4
<1>6. f \in Surjection(1..m, R)
  BY <1>3, <1>5 DEF Surjection
<1>7. IsFiniteSet(1..m) /\ Cardinality(1..m) = m
  BY FS_Interval
<1>8. IsFiniteSet(R)
  BY <1>6, <1>7, FS_Surjection
<1>9. Cardinality(R) \in Nat
  BY <1>8, FS_CardinalityType
<1>10. ASSUME Distinct(list) PROVE Cardinality(R) = m
  <2>1. \A j, k \in 1..m : f[j] = f[k] => j = k
    BY <1>1, <1>5, <1>10 DEF Distinct
  <2>2. f \in Injection(1..m, R)
    BY <1>5, <2>1 DEF Injection, IsInjective
  <2> QED BY <1>6, <1>7, <2>2, FS_Surjection
<1> QED BY <1>1, <1>2, <1>8, <1>9, <1>10

LEMMA JoinHas ==
    ASSUME NEW S, NEW s \in Seq(S), NEW r \in Seq(S)
    PROVE  /\ s \o r \in Seq(S) /\ Len(s \o r) = Len(s) + Len(r) /\ Range(s \o r) = Range(s) \cup Range(r)
           /\ Distinct(s) /\ Distinct(r) /\ Range(s) \cap Range(r) = {} => Distinct(s \o r)
<1>1. PICK p \in Nat : p = Len(s)
  BY ListIs
<1>2. PICK q \in Nat : q = Len(r)
  BY ListIs
<1>3. PICK d : d = s \o r
  OBVIOUS
<1>4. /\ d \in Seq(S) /\ Len(d) = p + q /\ \A k \in 1..p : d[k] = s[k]
      /\ \A k \in (p + 1)..(p + q) : d[k] = r[k - p]
  <2>1. Joins(S, s, r, p, q, d)
    BY <1>1, <1>2, <1>3, JoinIs
  <2> QED BY <2>1 DEF Joins
<1>5. /\ Range(s) = {s[k] : k \in 1..p} /\ Range(r) = {r[k] : k \in 1..q}
      /\ Range(d) = {d[k] : k \in 1..(p + q)}
  <2>1. Range(d) = {d[k] : k \in 1..Len(d)}
    BY <1>4, ListIs
  <2> QED BY <1>1, <1>2, <1>4, <2>1, ListIs
<1>6. /\ \A k \in 1..(p + q) : k \in 1..p \/ (k \in (p + 1)..(p + q) /\ k - p \in 1..q)
      /\ \A k \in 1..p : k \in 1..(p + q)
      /\ \A k \in 1..q : p + k \in (p + 1)..(p + q) /\ p + k \in 1..(p + q) /\ p + k - p = k
  OBVIOUS
<1>7. Range(d) = Range(s) \cup Range(r)
  <2>1. ASSUME NEW k \in 1..(p + q) PROVE d[k] \in Range(s) \cup Range(r)
    BY <1>4, <1>5, <1>6
  <2>2. ASSUME NEW k \in 1..p PROVE s[k] \in Range(d)
    BY <1>4, <1>5, <1>6
  <2>3. ASSUME NEW k \in 1..q PROVE r[k] \in Range(d)
    <3>1. PICK j \in (p + 1)..(p + q) : j = p + k /\ j \in 1..(p + q) /\ j - p = k
      BY <1>6
    <3>2. d[j] = r[k]
      BY <1>4, <3>1
    <3> QED BY <1>5, <3>1, <3>2
  <2> QED BY <1>5, <2>1, <2>2, <2>3
<1>8. ASSUME Distinct(s), Distinct(r), Range(s) \cap Range(r) = {}, NEW j \in 1..(p + q), NEW k \in 1..(p + q), d[j] = d[k]
      PROVE  j = k
  <2>1. \A i, l \in 1..p : s[i] = s[l] => i = l
    BY <1>1, <1>8 DEF Distinct
  <2>2. \A i, l \in 1..q : r[i] = r[l] => i = l
    BY <1>2, <1>8 DEF Distinct
  <2>3. \A i \in 1..p, l \in 1..q : s[i] # r[l]
    BY <1>5, <1>8
  <2>4. CASE j \in 1..p /\ k \in 1..p
    BY <1>4, <1>8, <2>1, <2>4
  <2>5. CASE j \in 1..p /\ k \notin 1..p
    BY <1>4, <1>6, <1>8, <2>3, <2>5
  <2>6. CASE j \notin 1..p /\ k \in 1..p
    BY <1>4, <1>6, <1>8, <2>3, <2>6
  <2>7. CASE j \notin 1..p /\ k \notin 1..p
    <3>1. j - p \in 1..q /\ k - p \in 1..q /\ r[j - p] = r[k - p]
      BY <1>4, <1>6, <1>8, <2>7
    <3>2. j - p = k - p
      BY <2>2, <3>1
    <3> QED BY <3>2
  <2> QED BY <2>4, <2>5, <2>6, <2>7
<1>9. Distinct(s) /\ Distinct(r) /\ Range(s) \cap Range(r) = {} => Distinct(d)
  <2>1. Len(d) = p + q
    BY <1>4
  <2> QED BY <1>8, <2>1 DEF Distinct
<1> QED BY <1>1, <1>2, <1>3, <1>4, <1>7, <1>9

\* A page repeats the rows that were read before and are read again.
LEMMA RepeatsAddUp ==
    ASSUME NEW R, IsFiniteSet(R), NEW P, IsFiniteSet(P), NEW B, NEW C, B = C \cup P, C \cap P = {},
           NEW n \in Nat, NEW g \in Nat, Cardinality(R \cap B) + n - Cardinality(R) <= g
    PROVE  Cardinality((R \cup P) \cap C) + (n + Cardinality(P)) - Cardinality(R \cup P) <= g
<1>1. (R \cup P) \cap C = R \cap C /\ R \cap B = (R \cap C) \cup (R \cap P) /\ (R \cap C) \cap (R \cap P) = {}
  OBVIOUS
<1>2. IsFiniteSet(R \cap C) /\ IsFiniteSet(R \cap P)
  BY FS_Intersection
<1>3. Cardinality(R \cup P) = Cardinality(R) + Cardinality(P) - Cardinality(R \cap P)
  BY FS_Union
<1>4. Cardinality(R \cap B) = Cardinality(R \cap C) + Cardinality(R \cap P) - Cardinality({})
  BY <1>1, <1>2, FS_Union
<1>5. Cardinality({}) = 0
  BY FS_EmptySet
<1>6. PICK a \in Nat : a = Cardinality(R)
  BY FS_CardinalityType
<1>7. PICK b \in Nat : b = Cardinality(P)
  BY FS_CardinalityType
<1>8. PICK c \in Nat : c = Cardinality(R \cap P)
  BY <1>2, FS_CardinalityType
<1>9. PICK d \in Nat : d = Cardinality(R \cap C)
  BY <1>2, FS_CardinalityType
<1>10. PICK u : u = Cardinality(R \cup P)
  OBVIOUS
<1>11. PICK v : v = Cardinality(R \cap B)
  OBVIOUS
<1>12. u = a + b - c /\ v = d + c - 0 /\ v + n - a <= g
  BY <1>3, <1>4, <1>5, <1>6, <1>7, <1>8, <1>9, <1>10, <1>11
<1>13. d + (n + b) - u <= g
  BY ONLY <1>12, a \in Nat, b \in Nat, c \in Nat, d \in Nat, n \in Nat, g \in Nat
<1> QED BY <1>1, <1>7, <1>9, <1>10, <1>13

\* One more element at most, one more at most.
LEMMA OneMoreAtMost ==
    ASSUME NEW A, IsFiniteSet(A), NEW B, NEW y, B \subseteq A \cup {y}
    PROVE  IsFiniteSet(B) /\ Cardinality(B) <= Cardinality(A) + 1 /\ Cardinality(A) \in Nat /\ Cardinality(B) \in Nat
<1>1. IsFiniteSet(A \cup {y}) /\ Cardinality(A \cup {y}) = IF y \in A THEN Cardinality(A) ELSE Cardinality(A) + 1
  BY FS_AddElement
<1>2. IsFiniteSet(B) /\ Cardinality(B) <= Cardinality(A \cup {y})
  BY <1>1, FS_Subset
<1>3. Cardinality(A) \in Nat /\ Cardinality(B) \in Nat
  BY <1>2, FS_CardinalityType
<1> QED BY <1>1, <1>2, <1>3

--------------------------------------------------------------------------------
(* Pages of a list that does not change, the first entry first *)

Asked(list, upto) == {list[k] : k \in {j \in 1..Len(list) : j <= upto}}

Parted(S, list, size, offset, part) ==
    /\ part \in Seq(S) /\ Asked(list, offset + size) = Asked(list, offset) \cup Range(part)
    /\ Distinct(list) => Asked(list, offset) \cap Range(part) = {}
    /\ Len(list) <= offset => Asked(list, offset) = Range(list)

LEMMA AskedGrows ==
    ASSUME NEW S, NEW list \in Seq(S), NEW size \in Nat, NEW offset \in Nat, NEW part,
           part = FirstOf(Skip(list, offset), size)
    PROVE  Parted(S, list, size, offset, part)
<1>1. PICK m \in Nat : m = Len(list)
  BY ListIs
<1>2. PICK c : c = Skip(list, offset)
  OBVIOUS
<1>3. PICK r \in Nat : r = IF offset <= m THEN m - offset ELSE 0
  <2>1. (IF offset <= m THEN m - offset ELSE 0) \in Nat
    OBVIOUS
  <2> QED BY <2>1
<1>4. c \in Seq(S) /\ Len(c) = r /\ \A k \in 1..r : c[k] = list[offset + k]
  <2>1. Rest(S, list, offset, r, c)
    BY <1>1, <1>2, <1>3, RestIs
  <2> QED BY <2>1 DEF Rest
<1>5. PICK p \in Nat : p = IF size < r THEN size ELSE r
  OBVIOUS
<1>6. part \in Seq(S) /\ Len(part) = p /\ \A k \in 1..p : part[k] = c[k]
  <2>1. Firsts(S, c, p, part)
    BY <1>2, <1>4, <1>5, FirstsAre
  <2> QED BY <2>1 DEF Firsts
<1>7. Range(part) = {part[k] : k \in 1..p}
  BY <1>6, ListIs
<1>8. /\ \A k \in 1..p : k \in 1..r /\ offset + k \in 1..m /\ ~(offset + k <= offset) /\ offset + k <= offset + size
      /\ \A k \in 1..m : k <= offset + size => k <= offset \/ (k - offset \in 1..p /\ offset + (k - offset) = k)
      /\ \A k \in 1..m : k <= offset => k <= offset + size
  BY <1>3, <1>5
<1>9. \A k \in 1..p : part[k] = list[offset + k]
  BY <1>4, <1>6, <1>8
<1>10. \A u : Asked(list, u) = {list[k] : k \in {j \in 1..m : j <= u}}
  BY <1>1 DEF Asked
<1>11. Asked(list, offset + size) = Asked(list, offset) \cup Range(part)
  <2>1. ASSUME NEW k \in 1..m, k <= offset + size PROVE list[k] \in Asked(list, offset) \cup Range(part)
    <3>1. CASE k <= offset
      BY <1>10, <3>1
    <3>2. CASE ~(k <= offset)
      <4>1. PICK j \in 1..p : j = k - offset /\ offset + j = k
        BY <1>8, <2>1, <3>2
      <4>2. part[j] = list[k]
        BY <1>9, <4>1
      <4> QED BY <1>7, <4>2
    <3> QED BY <3>1, <3>2
  <2>2. ASSUME NEW k \in 1..p PROVE part[k] \in Asked(list, offset + size)
    <3>1. PICK j \in 1..m : j = offset + k /\ j <= offset + size
      BY <1>8
    <3> QED BY <1>9, <1>10, <3>1
  <2>3. Asked(list, offset) \subseteq Asked(list, offset + size)
    BY <1>8, <1>10
  <2>4. Asked(list, offset + size) \subseteq Asked(list, offset) \cup Range(part)
    BY <1>10, <2>1
  <2>5. Range(part) \subseteq Asked(list, offset + size)
    BY <1>7, <2>2
  <2> QED BY <2>3, <2>4, <2>5
<1>12. ASSUME Distinct(list), NEW x \in Asked(list, offset), x \in Range(part) PROVE FALSE
  <2>1. PICK k \in 1..m : k <= offset /\ x = list[k]
    BY <1>10
  <2>2. PICK j \in 1..p : x = list[offset + j]
    BY <1>7, <1>9, <1>12
  <2>3. offset + j \in 1..m /\ ~(offset + j <= offset)
    BY <1>8
  <2>4. k = offset + j
    BY <1>1, <1>12, <2>1, <2>2, <2>3 DEF Distinct
  <2> QED BY <2>1, <2>3, <2>4
<1>13. ASSUME m <= offset PROVE Asked(list, offset) = Range(list)
  <2>1. \A k \in 1..m : k <= offset
    BY <1>13
  <2>2. Range(list) = {list[k] : k \in 1..m}
    BY <1>1, ListIs
  <2> QED BY <1>10, <2>1, <2>2
<1> QED BY <1>1, <1>6, <1>11, <1>12, <1>13 DEF Parted

--------------------------------------------------------------------------------
(* A walk, the newest rows first *)

\* So far it has passed over no more rows than were deleted, of those that are not before its offset;
\* and it has repeated, or will, no more than have come.
Walked(list, gone, rows, told, offset, grown) ==
    /\ Cardinality(((Range(told) \ gone) \ Range(rows)) \ Before(list, offset)) <= Cardinality(gone)
    /\ Cardinality(Range(rows) \cap Before(list, offset)) + Len(rows) - Cardinality(Range(rows)) <= grown

LEMMA WalkBegins ==
    ASSUME NEW list \in Seq(Nat)
    PROVE  Walked(list, {}, << >>, list, 0, 0)
<1>1. PICK m \in Nat : m = Len(list)
  BY ListIs
<1>2. m - 0 = m
  OBVIOUS
<1>3. Before(list, 0) = Range(list)
  BY <1>1, <1>2, ListIs DEF Before
<1>4. Len(<< >>) = 0 /\ Range(<< >>) = {}
  BY EmptyIs
<1>5. ((Range(list) \ {}) \ {}) \ Range(list) = {} /\ {} \cap Range(list) = {}
  OBVIOUS
<1>6. Cardinality({}) = 0
  BY FS_EmptySet
<1>7. PICK r : r = << >>
  OBVIOUS
<1>8. Len(r) = 0 /\ Range(r) = {}
  BY <1>4, <1>7
<1>9. 0 <= 0 /\ 0 + 0 - 0 <= 0
  OBVIOUS
<1>10. Cardinality(((Range(list) \ {}) \ Range(r)) \ Before(list, 0)) <= Cardinality({})
  BY <1>3, <1>5, <1>6, <1>8, <1>9
<1>11. Cardinality(Range(r) \cap Before(list, 0)) + Len(r) - Cardinality(Range(r)) <= 0
  BY <1>3, <1>5, <1>6, <1>8, <1>9
<1> QED BY <1>7, <1>10, <1>11 DEF Walked

LEMMA WalkGoesOn ==
    ASSUME NEW list \in Seq(Nat), Distinct(list), NEW gone, NEW rows \in Seq(Nat), NEW told \in Seq(Nat),
           NEW offset \in Nat, NEW grown \in Nat, Walked(list, gone, rows, told, offset, grown),
           NEW size \in Nat, NEW page \in Seq(Nat), IsPage(list, size, offset, page)
    PROVE  Walked(list, gone, rows \o page, told, offset + size, grown)
<1>1. PICK R : R = Range(rows)
  OBVIOUS
<1>2. PICK P : P = Range(page)
  OBVIOUS
<1>3. PICK B : B = Before(list, offset)
  OBVIOUS
<1>4. PICK C : C = Before(list, offset + size)
  OBVIOUS
<1>5. B = C \cup P /\ C \cap P = {} /\ Distinct(page)
  BY <1>2, <1>3, <1>4, PageTakes
<1>6. IsFiniteSet(R) /\ IsFiniteSet(P) /\ Cardinality(P) = Len(page)
  BY <1>1, <1>2, <1>5, RowsCount
<1>7. PICK n \in Nat : n = Len(rows)
  BY ListIs
<1>8. rows \o page \in Seq(Nat) /\ Len(rows \o page) = n + Cardinality(P) /\ Range(rows \o page) = R \cup P
  BY <1>1, <1>2, <1>6, <1>7, JoinHas
<1>9. Cardinality(R \cap B) + n - Cardinality(R) <= grown
  BY <1>1, <1>3, <1>7 DEF Walked
<1>10. Cardinality((R \cup P) \cap C) + (n + Cardinality(P)) - Cardinality(R \cup P) <= grown
  BY <1>5, <1>6, <1>9, RepeatsAddUp
<1>11. ((Range(told) \ gone) \ (R \cup P)) \ C = ((Range(told) \ gone) \ R) \ B
  BY <1>5
<1>12. Cardinality(((Range(told) \ gone) \ R) \ B) <= Cardinality(gone)
  BY <1>1, <1>3 DEF Walked
<1> QED BY <1>4, <1>8, <1>10, <1>11, <1>12 DEF Walked

LEMMA ComingIsCounted ==
    ASSUME NEW list \in Seq(Nat), NEW gone, NEW rows \in Seq(Nat), NEW told \in Seq(Nat),
           NEW offset \in Nat, NEW grown \in Nat, Walked(list, gone, rows, told, offset, grown), IsFiniteSet(gone),
           NEW longer, Before(list, offset) \subseteq Before(longer, offset),
           \E y : Before(longer, offset) \subseteq Before(list, offset) \cup {y}
    PROVE  Walked(longer, gone, rows, told, offset, grown + 1)
<1>1. PICK R : R = Range(rows)
  OBVIOUS
<1>2. PICK B : B = Before(list, offset)
  OBVIOUS
<1>3. PICK C : C = Before(longer, offset)
  OBVIOUS
<1>4. PICK y : C \subseteq B \cup {y} /\ B \subseteq C
  BY <1>2, <1>3
<1>5. IsFiniteSet(R) /\ Cardinality(R) \in Nat
  BY <1>1, RowsCount
<1>6. PICK M : M = ((Range(told) \ gone) \ R) \ B
  OBVIOUS
<1>7. PICK N : N = ((Range(told) \ gone) \ R) \ C
  OBVIOUS
<1>8. N \subseteq M
  BY <1>4, <1>6, <1>7
<1>9. IsFiniteSet(M)
  <2>1. IsFiniteSet(Range(told)) /\ M \subseteq Range(told)
    BY <1>6, RowsCount
  <2> QED BY <2>1, FS_Subset
<1>10. Cardinality(N) <= Cardinality(M) /\ Cardinality(N) \in Nat /\ Cardinality(M) \in Nat /\ Cardinality(gone) \in Nat
  BY <1>8, <1>9, FS_Subset, FS_CardinalityType
<1>11. Cardinality(M) <= Cardinality(gone)
  BY <1>1, <1>2, <1>6 DEF Walked
<1>12. Cardinality(N) <= Cardinality(gone)
  BY <1>10, <1>11
<1>13. IsFiniteSet(R \cap B) /\ R \cap C \subseteq (R \cap B) \cup {y}
  BY <1>4, <1>5, FS_Intersection
<1>14. Cardinality(R \cap C) <= Cardinality(R \cap B) + 1 /\ Cardinality(R \cap B) \in Nat /\ Cardinality(R \cap C) \in Nat
  BY <1>13, OneMoreAtMost
<1>15. PICK n \in Nat : n = Len(rows)
  BY ListIs
<1>16. Cardinality(R \cap B) + n - Cardinality(R) <= grown
  BY <1>1, <1>2, <1>15 DEF Walked
<1>17. Cardinality(R \cap C) + n - Cardinality(R) <= grown + 1
  BY <1>5, <1>14, <1>16
<1> QED BY <1>1, <1>3, <1>7, <1>12, <1>15, <1>17 DEF Walked

LEMMA GoingIsCounted ==
    ASSUME NEW list \in Seq(Nat), NEW gone, NEW rows \in Seq(Nat), NEW told \in Seq(Nat),
           NEW offset \in Nat, NEW grown \in Nat, Walked(list, gone, rows, told, offset, grown), IsFiniteSet(gone),
           NEW shorter, Before(shorter, offset) \subseteq Before(list, offset),
           \E y : Before(list, offset) \subseteq Before(shorter, offset) \cup {y},
           NEW x, x \notin gone
    PROVE  Walked(shorter, gone \cup {x}, rows, told, offset, grown)
<1>1. PICK R : R = Range(rows)
  OBVIOUS
<1>2. PICK B : B = Before(list, offset)
  OBVIOUS
<1>3. PICK C : C = Before(shorter, offset)
  OBVIOUS
<1>4. PICK y : B \subseteq C \cup {y} /\ C \subseteq B
  BY <1>2, <1>3
<1>5. IsFiniteSet(R) /\ Cardinality(R) \in Nat
  BY <1>1, RowsCount
<1>6. PICK M : M = ((Range(told) \ gone) \ R) \ B
  OBVIOUS
<1>7. PICK N : N = ((Range(told) \ (gone \cup {x})) \ R) \ C
  OBVIOUS
<1>8. N \subseteq M \cup {y}
  BY <1>4, <1>6, <1>7
<1>9. IsFiniteSet(M)
  <2>1. IsFiniteSet(Range(told)) /\ M \subseteq Range(told)
    BY <1>6, RowsCount
  <2> QED BY <2>1, FS_Subset
<1>10. Cardinality(N) <= Cardinality(M) + 1 /\ Cardinality(N) \in Nat /\ Cardinality(M) \in Nat
  BY <1>8, <1>9, OneMoreAtMost
<1>11. Cardinality(M) <= Cardinality(gone)
  BY <1>1, <1>2, <1>6 DEF Walked
<1>12. Cardinality(gone \cup {x}) = Cardinality(gone) + 1 /\ Cardinality(gone) \in Nat
  BY FS_AddElement, FS_CardinalityType
<1>13. Cardinality(N) <= Cardinality(gone \cup {x})
  BY <1>10, <1>11, <1>12
<1>14. IsFiniteSet(R \cap B) /\ R \cap C \subseteq R \cap B
  BY <1>4, <1>5, FS_Intersection
<1>15. Cardinality(R \cap C) <= Cardinality(R \cap B) /\ Cardinality(R \cap B) \in Nat /\ Cardinality(R \cap C) \in Nat
  BY <1>14, FS_Subset, FS_CardinalityType
<1>16. PICK n \in Nat : n = Len(rows)
  BY ListIs
<1>17. Cardinality(R \cap B) + n - Cardinality(R) <= grown
  BY <1>1, <1>2, <1>16 DEF Walked
<1>18. Cardinality(R \cap C) + n - Cardinality(R) <= grown
  BY <1>5, <1>15, <1>17
<1> QED BY <1>1, <1>3, <1>7, <1>13, <1>16, <1>18 DEF Walked

\* At the end nothing is before the offset.
LEMMA WalkEnds ==
    ASSUME NEW list, NEW gone, NEW rows \in Seq(Nat), NEW told, NEW offset, NEW grown \in Nat,
           Walked(list, gone, rows, told, offset, grown), Before(list, offset) = {}
    PROVE  /\ Cardinality((Range(told) \ gone) \ Range(rows)) <= Cardinality(gone)
           /\ Len(rows) - Cardinality(Range(rows)) <= grown
<1>1. /\ Cardinality(((Range(told) \ gone) \ Range(rows)) \ {}) <= Cardinality(gone)
      /\ Cardinality(Range(rows) \cap {}) + Len(rows) - Cardinality(Range(rows)) <= grown
  BY DEF Walked
<1>2. ((Range(told) \ gone) \ Range(rows)) \ {} = (Range(told) \ gone) \ Range(rows) /\ Range(rows) \cap {} = {}
  OBVIOUS
<1>3. Cardinality({}) = 0
  BY FS_EmptySet
<1>4. PICK n \in Nat : n = Len(rows)
  BY ListIs
<1>5. PICK c \in Nat : c = Cardinality(Range(rows))
  BY RowsCount
<1>6. 0 + n - c <= grown => n - c <= grown
  OBVIOUS
<1> QED BY <1>1, <1>2, <1>3, <1>4, <1>5, <1>6

--------------------------------------------------------------------------------
(* The context of a session *)

\* One row more at the front.
LEMMA OneMoreRowBefore ==
    ASSUME NEW told \in Seq(Nat), Distinct(told), NEW n \in Nat, n < Len(told)
    PROVE  /\ <<told[n + 1]>> \o Skip(told, n + 1) = Skip(told, n)
           /\ TokensOf(Skip(told, n)) = TokensOf(Skip(told, n + 1)) + Tokens(told[n + 1])
           /\ TokensOf(Skip(told, n + 1)) \in Nat /\ Tokens(told[n + 1]) \in Nat
<1>1. PICK m \in Nat : m = Len(told)
  BY ListIs
<1>2. PICK a : a = Skip(told, n)
  OBVIOUS
<1>3. PICK b : b = Skip(told, n + 1)
  OBVIOUS
<1>4. PICK p \in Nat : p = m - n /\ p >= 1
  <2>1. m - n \in Nat /\ m - n >= 1
    BY <1>1
  <2> QED BY <2>1
<1>5. PICK q \in Nat : q = p - 1
  BY <1>4
<1>6. PICK l \in Nat : l = n + 1
  OBVIOUS
<1>7. a \in Seq(Nat) /\ Len(a) = p /\ \A k \in 1..p : a[k] = told[n + k]
  <2>1. p = IF n <= m THEN m - n ELSE 0
    BY <1>1, <1>4
  <2>2. Rest(Nat, told, n, p, a)
    BY <1>1, <1>2, <2>1, RestIs
  <2> QED BY <2>2 DEF Rest
<1>8. b \in Seq(Nat) /\ Len(b) = q /\ \A k \in 1..q : b[k] = told[l + k]
  <2>1. q = IF l <= m THEN m - l ELSE 0
    BY <1>1, <1>4, <1>5, <1>6
  <2>2. Rest(Nat, told, l, q, b)
    BY <1>1, <1>3, <1>6, <2>1, RestIs
  <2> QED BY <2>2 DEF Rest
<1>9. PICK x \in Nat : x = told[n + 1]
  <2>1. n + 1 \in 1..m
    BY <1>1, <1>4
  <2> QED BY <1>1, <2>1, ListIs
<1>10. PICK e : e = <<x>>
  OBVIOUS
<1>11. e \in Seq(Nat) /\ Len(e) = 1 /\ e[1] = x
  BY <1>10
<1>12. PICK d : d = e \o b
  OBVIOUS
<1>13. d \in Seq(Nat) /\ Len(d) = 1 + q /\ (\A k \in 1..1 : d[k] = e[k]) /\ \A k \in (1 + 1)..(1 + q) : d[k] = b[k - 1]
  <2>1. Joins(Nat, e, b, 1, q, d)
    BY <1>8, <1>11, <1>12, JoinIs
  <2> QED BY <2>1 DEF Joins
<1>14. d = a
  <2>1. Len(d) = Len(a)
    BY <1>5, <1>7, <1>13
  <2>2. ASSUME NEW k \in 1..p PROVE d[k] = a[k]
    <3>1. CASE k = 1
      <4>1. 1 \in 1..1 /\ 1 \in 1..p
        BY <1>4
      <4> QED BY <1>7, <1>9, <1>11, <1>13, <3>1, <4>1
    <3>2. CASE k # 1
      <4>1. k \in (1 + 1)..(1 + q) /\ k - 1 \in 1..q /\ l + (k - 1) = n + k
        BY <1>4, <1>5, <1>6, <3>2
      <4> QED BY <1>7, <1>8, <1>13, <4>1
    <3> QED BY <3>1, <3>2
  <2>3. \A k \in 1..Len(d) : d[k] = a[k]
    BY <1>7, <2>1, <2>2
  <2> QED BY <1>7, <1>13, <2>1, <2>3, SeqEqual
<1>15. Range(a) = Range(b) \cup {x}
  <2>1. Range(d) = Range(e) \cup Range(b)
    BY <1>8, <1>11, <1>12, JoinHas
  <2>2. Range(e) = {e[k] : k \in 1..1}
    BY <1>11, ListIs
  <2>3. Range(e) = {x}
    BY <1>11, <2>2
  <2> QED BY <1>14, <2>1, <2>3
<1>16. x \notin Range(b)
  <2> SUFFICES ASSUME NEW k \in 1..q, told[l + k] = x PROVE FALSE
    <3>1. Range(b) = {b[k] : k \in 1..q}
      BY <1>8, ListIs
    <3> QED BY <1>8, <3>1
  <2>1. l + k \in 1..m /\ n + 1 \in 1..m /\ l + k # n + 1
    BY <1>4, <1>5, <1>6
  <2> QED BY <1>1, <1>9, <2>1 DEF Distinct
<1>17. IsFiniteSet(Range(b) \cap large)
  <2>1. IsFiniteSet(Range(b))
    BY <1>8, RowsCount
  <2> QED BY <2>1, FS_Intersection
<1>18. PICK c \in Nat : c = Cardinality(Range(b) \cap large)
  BY <1>17, FS_CardinalityType
<1>19. Cardinality(Range(a) \cap large) = IF x \in large THEN c + 1 ELSE c
  <2>1. CASE x \in large
    <3>1. Range(a) \cap large = (Range(b) \cap large) \cup {x} /\ x \notin Range(b) \cap large
      BY <1>15, <1>16, <2>1
    <3> QED BY <1>17, <1>18, <2>1, <3>1, FS_AddElement
  <2>2. CASE x \notin large
    <3>1. Range(a) \cap large = Range(b) \cap large
      BY <1>15, <2>2
    <3> QED BY <1>18, <2>2, <3>1
  <2> QED BY <2>1, <2>2
<1>20. TokensOf(b) = q + c /\ TokensOf(a) = q + 1 + (IF x \in large THEN c + 1 ELSE c)
  BY <1>5, <1>7, <1>8, <1>18, <1>19 DEF TokensOf
<1>21. Tokens(x) = IF x \in large THEN 2 ELSE 1
  BY DEF Tokens
<1>22. TokensOf(a) = TokensOf(b) + Tokens(x) /\ TokensOf(b) \in Nat /\ Tokens(x) \in Nat
  BY <1>20, <1>21
<1> QED BY <1>2, <1>3, <1>9, <1>10, <1>12, <1>14, <1>22

\* The rows are the last n of those told, and fit; if it is full one more would not.
FitsTo(told, budget, c, n) ==
    \E k \in 0..Len(told) :
        /\ c.events = Skip(told, k) /\ c.tokens = TokensOf(Skip(told, k)) /\ c.tokens <= budget
        /\ c.full \in BOOLEAN
        /\ ~c.full => k = Len(told) - n
        /\ c.full => k > 0 /\ TokensOf(Skip(told, k - 1)) > budget

Contexts == [tokens : Nat, events : Seq(Nat), full : BOOLEAN]
NoContext == [tokens |-> 0, events |-> << >>, full |-> FALSE]

LEMMA TakenIs ==
    ASSUME NEW budget \in Nat, NEW x \in Nat, NEW c \in Contexts
    PROVE  Taken(budget, x, c) \in Contexts
<1>1. Tokens(x) \in Nat /\ <<x>> \in Seq(Nat) /\ c.tokens \in Nat /\ c.events \in Seq(Nat)
  BY DEF Tokens, Contexts
<1>2. <<x>> \o c.events \in Seq(Nat)
  BY <1>1, ConcatProperties
<1>3. c.tokens + Tokens(x) \in Nat
  BY <1>1
<1> QED BY <1>1, <1>2, <1>3 DEF Taken, Contexts

LEMMA TakenFits ==
    ASSUME NEW told \in Seq(Nat), Distinct(told), NEW budget \in Nat, NEW c \in Contexts, NEW n \in 1..Len(told),
           FitsTo(told, budget, c, n - 1)
    PROVE  FitsTo(told, budget, Taken(budget, told[Len(told) + 1 - n], c), n)
<1>1. PICK m \in Nat : m = Len(told)
  BY ListIs
<1>2. PICK k \in 0..m :
        /\ c.events = Skip(told, k) /\ c.tokens = TokensOf(Skip(told, k)) /\ c.tokens <= budget
        /\ c.full \in BOOLEAN
        /\ ~c.full => k = m - (n - 1)
        /\ c.full => k > 0 /\ TokensOf(Skip(told, k - 1)) > budget
  BY <1>1 DEF FitsTo
<1>3. PICK x : x = told[m + 1 - n]
  OBVIOUS
<1>4. PICK d : d = Taken(budget, x, c)
  OBVIOUS
<1>5. CASE c.full
  <2>1. d = c
    BY <1>4, <1>5 DEF Taken
  <2>2. FitsTo(told, budget, d, n)
    BY <1>1, <1>2, <1>5, <2>1 DEF FitsTo
  <2> QED BY <1>1, <1>3, <1>4, <2>2
<1>6. CASE ~c.full
  <2>1. PICK l \in Nat : l = k - 1 /\ l + 1 = k /\ l < m /\ l = m - n /\ l \in 0..m /\ m + 1 - n = l + 1 /\ k > 0
    BY <1>1, <1>2, <1>6
  <2>2. x = told[l + 1]
    BY <1>3, <2>1
  <2>3. /\ <<x>> \o Skip(told, k) = Skip(told, l) /\ TokensOf(Skip(told, l)) = TokensOf(Skip(told, k)) + Tokens(x)
        /\ TokensOf(Skip(told, k)) \in Nat /\ Tokens(x) \in Nat
    <3>1. l \in Nat /\ l < Len(told)
      BY <1>1, <2>1
    <3>2. /\ <<told[l + 1]>> \o Skip(told, l + 1) = Skip(told, l)
          /\ TokensOf(Skip(told, l)) = TokensOf(Skip(told, l + 1)) + Tokens(told[l + 1])
          /\ TokensOf(Skip(told, l + 1)) \in Nat /\ Tokens(told[l + 1]) \in Nat
      BY <3>1, OneMoreRowBefore
    <3> QED BY <2>1, <2>2, <3>2
  <2>4. CASE c.tokens + Tokens(x) <= budget
    <3>1. d = [c EXCEPT !.tokens = @ + Tokens(x), !.events = <<x>> \o @]
      BY <1>4, <1>6, <2>4 DEF Taken
    <3>2. d.tokens = c.tokens + Tokens(x) /\ d.events = <<x>> \o c.events /\ d.full = c.full
      BY <3>1 DEF Contexts
    <3>3. d.tokens = TokensOf(Skip(told, l)) /\ d.events = Skip(told, l) /\ d.tokens <= budget /\ d.full = FALSE
      BY <1>2, <1>6, <2>3, <2>4, <3>2
    <3>4. FitsTo(told, budget, d, n)
      BY <1>1, <2>1, <3>3 DEF FitsTo
    <3> QED BY <1>1, <1>3, <1>4, <3>4
  <2>5. CASE ~(c.tokens + Tokens(x) <= budget)
    <3>1. d = [c EXCEPT !.full = TRUE]
      BY <1>4, <1>6, <2>5 DEF Taken
    <3>2. d.tokens = c.tokens /\ d.events = c.events /\ d.full = TRUE
      BY <3>1 DEF Contexts
    <3>3. TokensOf(Skip(told, k - 1)) > budget
      BY <1>2, <2>1, <2>3, <2>5
    <3>4. FitsTo(told, budget, d, n)
      BY <1>1, <1>2, <2>1, <3>2, <3>3 DEF FitsTo
    <3> QED BY <1>1, <1>3, <1>4, <3>4
  <2> QED BY <2>4, <2>5
<1> QED BY <1>2, <1>5, <1>6

LEMMA NothingFits ==
    ASSUME NEW told \in Seq(Nat), NEW budget \in Nat
    PROVE  FitsTo(told, budget, NoContext, 0)
<1>1. PICK m \in Nat : m = Len(told)
  BY ListIs
<1>2. PICK a : a = Skip(told, m)
  OBVIOUS
<1>3. a \in Seq(Nat) /\ Len(a) = 0
  <2>1. PICK z \in Nat : z = 0
    OBVIOUS
  <2>2. z = IF m <= m THEN m - m ELSE 0
    BY <2>1
  <2>3. Rest(Nat, told, m, z, a)
    BY <1>1, <1>2, <2>2, RestIs
  <2> QED BY <2>1, <2>3 DEF Rest
<1>4. a = << >>
  BY <1>3
<1>5. Range(a) = {}
  BY <1>4, EmptyIs
<1>6. {} \cap large = {} /\ Cardinality({}) = 0
  BY FS_EmptySet
<1>7. TokensOf(a) = 0
  BY <1>3, <1>5, <1>6 DEF TokensOf
<1>8. m \in 0..m /\ m = m - 0
  OBVIOUS
<1>9. NoContext.events = a /\ NoContext.tokens = 0 /\ NoContext.full = FALSE
  BY <1>4 DEF NoContext
<1>10. PICK c : c = NoContext
  OBVIOUS
<1>11. c.events = a /\ c.tokens = TokensOf(a) /\ c.tokens <= budget /\ c.full = FALSE
  BY <1>7, <1>9, <1>10
<1>12. FitsTo(told, budget, c, 0)
  BY <1>1, <1>2, <1>8, <1>11 DEF FitsTo
<1> QED BY <1>10, <1>12

\* The context is the end of what was read, and one row more would not fit.
LEMMA ContextIs ==
    ASSUME NEW told \in Seq(Nat), Distinct(told), NEW budget \in Nat
    PROVE  Context(told, budget) \in Contexts /\ FitsTo(told, budget, Context(told, budget), Len(told))
<1>1. PICK m \in Nat : m = Len(told)
  BY ListIs
<1>2. \A k \in 1..m : told[m + 1 - k] \in Nat
  <2>1. \A k \in 1..m : m + 1 - k \in 1..m
    OBVIOUS
  <2> QED BY <1>1, <2>1, ListIs
<1>3. PICK F : F = [p \in (1..m) \X Contexts |-> Taken(budget, told[m + 1 - p[1]], p[2])]
  OBVIOUS
<1>4. F \in [(1..m) \X Contexts -> Contexts]
  <2> SUFFICES ASSUME NEW k \in 1..m, NEW c \in Contexts PROVE Taken(budget, told[m + 1 - k], c) \in Contexts
    BY <1>3
  <2> QED BY <1>2, TakenIs
<1>5. NoContext \in Contexts
  BY EmptyIs DEF NoContext, Contexts
<1>6. PICK g \in [0..m -> Contexts] : Stepwise(g, m, NoContext, F)
  BY <1>4, <1>5, StepsExist
<1> DEFINE Steps(h) == h = [n \in 0..m |-> IF n = 0 THEN [tokens |-> 0, events |-> << >>, full |-> FALSE]
                                           ELSE Taken(budget, told[m + 1 - n], h[n - 1])]
<1>7. Steps(g)
  <2>1. \A n \in 0..m : g[n] = IF n = 0 THEN NoContext ELSE F[<<n, g[n - 1]>>]
    BY <1>6 DEF Stepwise
  <2>2. ASSUME NEW n \in 0..m, n # 0 PROVE g[n] = Taken(budget, told[m + 1 - n], g[n - 1])
    <3>1. n \in 1..m /\ n - 1 \in 0..m
      BY <2>2
    <3>2. g[n - 1] \in Contexts
      BY <3>1
    <3> QED BY <1>3, <2>1, <2>2, <3>1, <3>2
  <2>3. g = [n \in 0..m |-> g[n]]
    OBVIOUS
  <2>4. g[0] = [tokens |-> 0, events |-> << >>, full |-> FALSE]
    <3>1. 0 \in 0..m
      OBVIOUS
    <3> QED BY <2>1, <3>1 DEF NoContext
  <2> QED BY <2>2, <2>3, <2>4
<1>8. PICK h : h = CHOOSE f : Steps(f)
  OBVIOUS
<1>9. Steps(h)
  <2> HIDE DEF Steps
  <2> QED BY <1>7, <1>8
<1>10. Context(told, budget) = h[m]
  BY <1>1, <1>8 DEF Context
<1>11. \A n \in 0..m : h[n] = IF n = 0 THEN NoContext ELSE Taken(budget, told[m + 1 - n], h[n - 1])
  BY <1>9 DEF NoContext
<1> HIDE DEF Steps
<1> DEFINE Fine(n) == h[n] \in Contexts /\ FitsTo(told, budget, h[n], n)
           Wrong == {n \in 0..m : ~Fine(n)}
<1>12. Wrong = {}
  <2> SUFFICES ASSUME Wrong # {} PROVE FALSE
    OBVIOUS
  <2>1. PICK n \in Wrong : \A k \in Wrong : ~(k < n)
    <3>1. Wrong \in SUBSET Nat
      OBVIOUS
    <3> HIDE DEF Wrong
    <3> QED BY <3>1, Least
  <2>2. n \in 0..m /\ ~Fine(n)
    BY <2>1
  <2>3. CASE n = 0
    <3>1. h[n] = NoContext
      BY <1>11, <2>2, <2>3
    <3> QED BY <1>5, <2>2, <2>3, <3>1, NothingFits
  <2>4. CASE n # 0
    <3>1. n - 1 \in 0..m /\ n - 1 < n /\ n \in 1..m
      BY <2>2, <2>4
    <3>2. Fine(n - 1)
      <4>1. n - 1 \notin Wrong
        <5> HIDE DEF Wrong
        <5> QED BY <2>1, <3>1
      <4> QED BY <3>1, <4>1
    <3>3. PICK c \in Contexts : c = h[n - 1] /\ FitsTo(told, budget, c, n - 1)
      BY <3>2
    <3>4. h[n] = Taken(budget, told[m + 1 - n], c)
      BY <1>11, <2>2, <2>4, <3>3
    <3>5. FitsTo(told, budget, h[n], n)
      BY <1>1, <3>1, <3>3, <3>4, TakenFits
    <3>6. h[n] \in Contexts
      BY <1>2, <3>1, <3>3, <3>4, TakenIs
    <3> QED BY <2>2, <3>5, <3>6
  <2> QED BY <2>3, <2>4
<1>13. Fine(m)
  <2>1. m \in 0..m
    OBVIOUS
  <2> QED BY <1>12, <2>1
<1> QED BY <1>1, <1>10, <1>13

--------------------------------------------------------------------------------
(* The search for episodes *)

\* A list without repetitions of at most four rows.
IsChannel(list) == list \in Seq(Nat) /\ Distinct(list) /\ Range(list) \subseteq 1..4

LEMMA ChannelsAreShort ==
    ASSUME NEW list, IsChannel(list)
    PROVE  Len(list) \in 0..4
<1>1. list \in Seq(Nat) /\ Distinct(list) /\ Range(list) \subseteq 1..4
  BY DEF IsChannel
<1>2. IsFiniteSet(1..4) /\ Cardinality(1..4) = 4
  <2>1. PICK n \in Nat : n = 4
    OBVIOUS
  <2>2. IsFiniteSet(1..n) /\ Cardinality(1..n) = n
    BY FS_Interval
  <2> QED BY <2>1, <2>2
<1>3. Cardinality(Range(list)) <= 4
  BY <1>1, <1>2, FS_Subset
<1>4. Cardinality(Range(list)) = Len(list) /\ Len(list) \in Nat
  BY <1>1, RowsCount, ListIs
<1> QED BY <1>3, <1>4

\* A row of a list has one place.
LEMMA RankIs ==
    ASSUME NEW S, NEW list \in Seq(S), Distinct(list), NEW k \in 1..Len(list)
    PROVE  Rank(list, list[k]) = k
<1>1. PICK m \in Nat : m = Len(list)
  BY ListIs
<1>2. DOMAIN list = 1..m
  BY <1>1, ListIs
<1>3. \A i \in 1..m : list[i] = list[k] => i = k
  BY <1>1 DEF Distinct
<1>4. PICK r : r = Rank(list, list[k])
  OBVIOUS
<1>5. k \in 1..m
  BY <1>1
<1>6. r \in 1..m /\ list[r] = list[k]
  BY <1>2, <1>4, <1>5 DEF Rank
<1> QED BY <1>3, <1>4, <1>6

LEMMA RanksAre ==
    ASSUME NEW S, NEW list \in Seq(S), Distinct(list), NEW x \in Range(list)
    PROVE  Rank(list, x) \in 1..Len(list) /\ list[Rank(list, x)] = x
<1>1. PICK k \in 1..Len(list) : x = list[k]
  BY ListIs
<1>2. Rank(list, x) = k
  BY <1>1, RankIs
<1> QED BY <1>1, <1>2

\* The shares of the four ranks.
PartOf(r) == Parts \div (60 + r)

LEMMA SharesFall ==
    PartOf(1) = 249984 /\ PartOf(2) = 245952 /\ PartOf(3) = 242048 /\ PartOf(4) = 238266
<1>1. Parts = 15249024
  BY DEF Parts
<1>2. /\ 15249024 \div 61 = 249984 /\ 15249024 \div 62 = 245952
      /\ 15249024 \div 63 = 242048 /\ 15249024 \div 64 = 238266
  OBVIOUS
<1>3. 60 + 1 = 61 /\ 60 + 2 = 62 /\ 60 + 3 = 63 /\ 60 + 4 = 64
  OBVIOUS
<1> QED BY <1>1, <1>2, <1>3 DEF PartOf

LEMMA SharesOrder ==
    /\ \A r \in 1..4 : PartOf(r) \in Nat /\ PartOf(r) > 0
    /\ \A r, s \in 1..4 : r < s => PartOf(r) > PartOf(s)
<1>1. \A r \in 1..4 : r = 1 \/ r = 2 \/ r = 3 \/ r = 4
  OBVIOUS
<1>2. ASSUME NEW r \in 1..4 PROVE PartOf(r) \in Nat /\ PartOf(r) > 0
  BY <1>1, SharesFall
<1>3. ASSUME NEW r \in 1..4, NEW s \in 1..4, r < s PROVE PartOf(r) > PartOf(s)
  BY <1>1, <1>3, SharesFall
<1> QED BY <1>2, <1>3

\* A channel that ranks x higher gives it more, and one that names neither gives both nothing.
Higher(list, x, y) == x \in Range(list) /\ (y \in Range(list) => Rank(list, x) < Rank(list, y))

LEMMA HigherHasMore ==
    ASSUME NEW list, IsChannel(list), NEW x, NEW y, NEW weight \in Nat \ {0}
    PROVE  /\ Share(list, x, weight) \in Nat /\ Share(list, y, weight) \in Nat
           /\ Higher(list, x, y) => Share(list, x, weight) > Share(list, y, weight)
           /\ {x, y} \cap Range(list) = {} => Share(list, x, weight) = Share(list, y, weight)
<1>1. list \in Seq(Nat) /\ Distinct(list) /\ Len(list) \in 0..4
  BY ChannelsAreShort DEF IsChannel
<1>2. \A z \in Range(list) : Rank(list, z) \in 1..4
  <2>1. \A z \in Range(list) : Rank(list, z) \in 1..Len(list)
    BY <1>1, RanksAre
  <2>2. \A k \in 1..Len(list) : k \in 1..4
    <3>1. PICK m \in 0..4 : m = Len(list)
      BY <1>1
    <3>2. \A k \in 1..m : k \in 1..4
      OBVIOUS
    <3> QED BY <3>1, <3>2
  <2> QED BY <2>1, <2>2
<1>3. \A z : Share(list, z, weight) = IF z \in Range(list) THEN weight * PartOf(Rank(list, z)) ELSE 0
  BY DEF Share, PartOf
<1>4. \A a, b \in Nat : a > b => weight * a > weight * b
  OBVIOUS
<1>5. \A a \in Nat : weight * a \in Nat /\ weight * 0 = 0
  OBVIOUS
<1>6. \A z : Share(list, z, weight) \in Nat
  BY <1>2, <1>3, <1>5, SharesOrder
<1>7. ASSUME Higher(list, x, y) PROVE Share(list, x, weight) > Share(list, y, weight)
  <2>1. x \in Range(list) /\ (y \in Range(list) => Rank(list, x) < Rank(list, y))
    BY <1>7 DEF Higher
  <2>2. PICK r \in 1..4 : r = Rank(list, x)
    BY <1>2, <2>1
  <2>3. PICK a \in Nat : a = PartOf(r) /\ a > 0
    BY SharesOrder
  <2>4. Share(list, x, weight) = weight * a
    BY <1>3, <2>1, <2>2, <2>3
  <2>5. CASE y \in Range(list)
    <3>1. PICK s \in 1..4 : s = Rank(list, y) /\ r < s
      BY <1>2, <2>1, <2>2, <2>5
    <3>2. PICK b \in Nat : b = PartOf(s) /\ a > b
      BY <2>3, <3>1, SharesOrder
    <3>3. Share(list, y, weight) = weight * b
      BY <1>3, <2>5, <3>1, <3>2
    <3> QED BY <1>4, <2>4, <3>2, <3>3
  <2>6. CASE y \notin Range(list)
    <3>1. Share(list, y, weight) = 0
      BY <1>3, <2>6
    <3>2. weight * a > weight * 0
      BY <1>4, <2>3
    <3> QED BY <1>5, <2>4, <3>1, <3>2
  <2> QED BY <2>5, <2>6
<1>8. ASSUME {x, y} \cap Range(list) = {} PROVE Share(list, x, weight) = Share(list, y, weight)
  BY <1>3, <1>8
<1> QED BY <1>6, <1>7, <1>8

\* What is fused is a list of all that the channels name, each once.
LEMMA FusedIs ==
    ASSUME NEW near, IsChannel(near), NEW named, IsChannel(named), NEW fused \in FuseEpisodes(near, named)
    PROVE  /\ fused \in Seq(Nat) /\ Distinct(fused) /\ Range(fused) = Range(near) \cup Range(named)
           /\ \A i, j \in 1..Len(fused) : i < j => Score(near, named, fused[i]) >= Score(near, named, fused[j])
<1>1. PICK R : R = Range(near) \cup Range(named)
  OBVIOUS
<1>2. R \subseteq Nat /\ IsFiniteSet(R)
  <2>1. IsFiniteSet(Range(near)) /\ IsFiniteSet(Range(named)) /\ Range(near) \subseteq Nat /\ Range(named) \subseteq Nat
    BY RowsCount, ListIs DEF IsChannel
  <2> QED BY <1>1, <2>1, FS_Union
<1>3. PICK n \in Nat : n = Cardinality(R)
  BY <1>2, FS_CardinalityType
<1>4. /\ fused \in SetToSeqs(R)
      /\ \A i, j \in DOMAIN fused : i < j => Score(near, named, fused[i]) >= Score(near, named, fused[j])
  BY <1>1 DEF FuseEpisodes
<1>5. fused \in [1..n -> R] /\ \A i, j \in 1..n : i # j => fused[i] # fused[j]
  BY <1>3, <1>4 DEF SetToSeqs
<1>6. fused \in [1..n -> Nat]
  BY <1>2, <1>5
<1>7. fused \in Seq(Nat) /\ Len(fused) = n /\ DOMAIN fused = 1..n
  BY <1>6, SeqDef, LenProperties
<1>8. Distinct(fused)
  BY <1>5, <1>7 DEF Distinct
<1>9. fused \in Injection(1..n, R)
  BY <1>5 DEF Injection, IsInjective
<1>10. IsFiniteSet(1..n) /\ Cardinality(1..n) = n
  BY FS_Interval
<1>11. fused \in Surjection(1..n, R)
  BY <1>2, <1>3, <1>9, <1>10, FS_Injection
<1>12. Range(fused) = R
  <2>1. Range(fused) = {fused[k] : k \in 1..n}
    BY <1>7, ListIs
  <2> QED BY <1>5, <1>11, <2>1 DEF Surjection
<1> QED BY <1>1, <1>4, <1>7, <1>8, <1>12

\* What every channel ranks at least as high comes first.
InOrder(near, named, rows) ==
    LET channels == {near, named}
    IN  \A x \in UNION {Range(list) : list \in channels}, y \in Range(rows) :
            (/\ \A list \in channels : Higher(list, x, y) \/ {x, y} \cap Range(list) = {}
             /\ \E list \in channels : Higher(list, x, y))
                => x \in Range(rows) /\ Rank(rows, x) < Rank(rows, y)

LEMMA FusedInOrder ==
    ASSUME NEW near, IsChannel(near), NEW named, IsChannel(named), NEW fused \in FuseEpisodes(near, named),
           NEW size \in Nat
    PROVE  InOrder(near, named, FirstOf(fused, size))
<1>1. PICK rows : rows = FirstOf(fused, size)
  OBVIOUS
<1>2. /\ fused \in Seq(Nat) /\ Distinct(fused) /\ Range(fused) = Range(near) \cup Range(named)
      /\ \A i, j \in 1..Len(fused) : i < j => Score(near, named, fused[i]) >= Score(near, named, fused[j])
  BY FusedIs
<1>3. PICK m \in Nat : m = Len(fused)
  BY <1>2, ListIs
<1>4. PICK p \in Nat : p = IF size < m THEN size ELSE m
  OBVIOUS
<1>5. rows \in Seq(Nat) /\ Len(rows) = p /\ \A k \in 1..p : rows[k] = fused[k]
  <2>1. Firsts(Nat, fused, p, rows)
    BY <1>1, <1>2, <1>3, <1>4, FirstsAre
  <2> QED BY <2>1 DEF Firsts
<1>6. Distinct(rows)
  BY <1>1, <1>2, FirstIsDistinct
<1>7. Range(rows) = {rows[k] : k \in 1..p} /\ Range(fused) = {fused[k] : k \in 1..m}
  BY <1>2, <1>3, <1>5, ListIs
<1> DEFINE channels == {near, named}
<1>8. SUFFICES ASSUME NEW x \in UNION {Range(list) : list \in channels}, NEW y \in Range(rows),
                      \A list \in channels : Higher(list, x, y) \/ {x, y} \cap Range(list) = {},
                      \E list \in channels : Higher(list, x, y)
               PROVE  x \in Range(rows) /\ Rank(rows, x) < Rank(rows, y)
  BY <1>1 DEF InOrder
<1>9. x \in Range(fused)
  BY <1>2
<1>10. PICK a \in Nat : a = Share(near, x, 4)
  BY HigherHasMore
<1>11. PICK b \in Nat : b = Share(near, y, 4)
  BY HigherHasMore
<1>12. PICK c \in Nat : c = Share(named, x, 3)
  BY HigherHasMore
<1>13. PICK d \in Nat : d = Share(named, y, 3)
  BY HigherHasMore
<1>14. (Higher(near, x, y) => a > b) /\ ({x, y} \cap Range(near) = {} => a = b)
  BY <1>10, <1>11, HigherHasMore
<1>15. (Higher(named, x, y) => c > d) /\ ({x, y} \cap Range(named) = {} => c = d)
  BY <1>12, <1>13, HigherHasMore
<1>16. (a > b /\ c >= d) \/ (a >= b /\ c > d)
  <2>1. Higher(near, x, y) \/ {x, y} \cap Range(near) = {}
    BY <1>8
  <2>2. Higher(named, x, y) \/ {x, y} \cap Range(named) = {}
    BY <1>8
  <2>3. Higher(near, x, y) \/ Higher(named, x, y)
    BY <1>8
  <2> QED BY <1>14, <1>15, <2>1, <2>2, <2>3
<1>17. Score(near, named, x) = a + c /\ Score(near, named, y) = b + d
  BY <1>10, <1>11, <1>12, <1>13 DEF Score
<1>18. ~(b + d >= a + c)
  BY <1>16
<1>19. PICK i \in 1..m : fused[i] = x
  BY <1>7, <1>9
<1>20. PICK j \in 1..p : rows[j] = y
  BY <1>7
<1>21. j \in 1..m /\ fused[j] = y
  BY <1>4, <1>5, <1>20
<1>22. i < j
  <2>1. CASE j < i
    <3>1. Score(near, named, y) >= Score(near, named, x)
      BY <1>2, <1>3, <1>19, <1>21, <2>1
    <3> QED BY <1>17, <1>18, <3>1
  <2>2. CASE i = j
    <3>1. x = y
      BY <1>19, <1>21, <2>2
    <3>2. a + c = b + d
      BY <1>10, <1>11, <1>12, <1>13, <3>1
    <3> QED BY <1>18, <3>2
  <2> QED BY <1>21, <2>1, <2>2
<1>23. i \in 1..p
  BY <1>20, <1>22
<1>24. rows[i] = x
  BY <1>5, <1>19, <1>23
<1>25. Rank(rows, x) = i /\ Rank(rows, y) = j
  <2>1. Rank(rows, rows[i]) = i /\ Rank(rows, rows[j]) = j
    BY <1>5, <1>6, <1>20, <1>23, RankIs
  <2> QED BY <1>20, <1>24, <2>1
<1>26. x \in Range(rows)
  BY <1>7, <1>23, <1>24
<1> QED BY <1>22, <1>25, <1>26

--------------------------------------------------------------------------------
(* The invariant *)

Newest == {"events", "sessions", "episodes"}
ReadType == [at : {"idle", "walk", "vectors", "done", "failed"}, size : Nat, offset : Nat, rows : Seq(Nat), told : Seq(Nat),
             named : Seq(Nat), grown : Nat]

RowsOK ==
    /\ wanted \in Paged \cup {"context", "search"}
    /\ appeared \in Nat /\ line \in Seq(Nat) /\ Distinct(line) /\ Range(line) \subseteq 1..appeared
    /\ removed \subseteq 1..appeared /\ removed \cap Range(line) = {}

ReadingOK ==
    /\ reading \in ReadType
    /\ reading.at = "idle" => reading = Unread /\ removed = {}
    /\ reading.at = "walk" => wanted \in Paged
    /\ reading.at = "vectors" => wanted = "search"

ListsOK ==
    wanted \in Newest /\ reading.at \in {"walk", "done"} =>
        /\ Walked(line, removed, reading.rows, reading.told, reading.offset, reading.grown)
        /\ reading.at = "done" => Before(line, reading.offset) = {}

\* Each message up to the offset was given once, if it was not deleted.
Given(list, gone, rows, told, offset) ==
    /\ Distinct(told) /\ Range(told) \subseteq Range(list) \cup gone
    /\ Distinct(rows) /\ Range(rows) \subseteq Asked(told, offset)
    /\ Asked(told, offset) \ gone \subseteq Range(rows)

MessagesOK ==
    wanted = "messages" /\ reading.at \in {"walk", "done"} =>
        /\ Given(line, removed, reading.rows, reading.told, reading.offset)
        /\ reading.at = "done" => Len(reading.told) <= reading.offset

SearchOK ==
    wanted = "search" =>
        /\ reading.at \in {"idle", "vectors"} => IsChannel(line) /\ IsChannel(mentioned)
        /\ reading.at = "vectors" => IsChannel(reading.told)
        /\ reading.at = "done" => InOrder(reading.told, reading.named, reading.rows)

ReadsInv == RowsOK /\ ReadingOK /\ ListsOK /\ MessagesOK /\ ContextHasNoGap /\ SearchOK

LEMMA SomeAreFinite ==
    ASSUME NEW n \in Nat, NEW S \in SUBSET (1..n)
    PROVE  IsFiniteSet(S)
<1>1. IsFiniteSet(1..n)
  BY FS_Interval
<1> QED BY <1>1, FS_Subset

LEMMA ReadsStart == ReadsInit => ReadsInv
<1> SUFFICES ASSUME ReadsInit PROVE ReadsInv
  OBVIOUS
<1>1. PICK n \in Nat : line = [i \in 1..n |-> i] /\ (wanted = "search" => n = 4)
  <2>1. PICK n \in IF wanted = "search" THEN {4} ELSE Stocks : line = [i \in 1..n |-> i]
    BY DEF ReadsInit
  <2>2. n \in Nat /\ (wanted = "search" => n = 4)
    BY <2>1, SessionReadsAssumption
  <2> QED BY <2>1, <2>2
<1>2. line \in [1..n -> Nat] /\ \A k \in 1..n : line[k] = k
  BY <1>1
<1>3. line \in Seq(Nat) /\ Len(line) = n
  BY <1>2, SeqDef, LenProperties
<1>4. Range(line) = 1..n
  <2>1. Range(line) = {line[k] : k \in 1..n}
    BY <1>3, ListIs
  <2> QED BY <1>2, <2>1
<1>5. Distinct(line)
  BY <1>2, <1>3 DEF Distinct
<1>6. wanted \in Paged \cup {"context", "search"} /\ appeared = n /\ removed = {} /\ reading = Unread
  BY <1>3 DEF ReadsInit
<1>7. RowsOK
  BY <1>3, <1>4, <1>5, <1>6 DEF RowsOK
<1>8. reading.at = "idle" /\ reading \in ReadType
  <2>1. << >> \in Seq(Nat) /\ 0 \in Nat
    OBVIOUS
  <2> QED BY <1>6, <2>1 DEF Unread, ReadType
<1>9. ReadingOK
  BY <1>6, <1>8 DEF ReadingOK
<1>10. SearchOK
  <2> SUFFICES ASSUME wanted = "search" PROVE IsChannel(line) /\ IsChannel(mentioned)
    BY <1>8 DEF SearchOK
  <2>1. n = 4
    BY <1>1
  <2>2. IsChannel(line)
    BY <1>3, <1>4, <1>5, <2>1 DEF IsChannel
  <2>3. PICK s \in SUBSET (1..n) : mentioned \in SetToSeqs(s)
    BY <1>4, SMTT(30) DEF ReadsInit, SetToAllKPermutations
  <2>4. IsFiniteSet(s)
    BY SomeAreFinite
  <2>5. PICK m \in Nat : m = Cardinality(s)
    BY <2>4, FS_CardinalityType
  <2>6. mentioned \in [1..m -> s] /\ \A i, j \in 1..m : i # j => mentioned[i] # mentioned[j]
    BY <2>3, <2>5 DEF SetToSeqs
  <2>7. mentioned \in [1..m -> Nat]
    <3>1. s \subseteq Nat
      OBVIOUS
    <3> QED BY <2>6, <3>1
  <2>8. mentioned \in Seq(Nat) /\ Len(mentioned) = m
    BY <2>7, SeqDef, LenProperties
  <2>9. Range(mentioned) = {mentioned[k] : k \in 1..m}
    BY <2>8, ListIs
  <2>10. Distinct(mentioned)
    BY <2>6, <2>8 DEF Distinct
  <2>11. Range(mentioned) \subseteq 1..4
    BY <2>1, <2>6, <2>9
  <2> QED BY <2>2, <2>8, <2>10, <2>11 DEF IsChannel
<1>11. ListsOK /\ MessagesOK /\ ContextHasNoGap
  BY <1>8 DEF ListsOK, MessagesOK, ContextHasNoGap
<1> QED BY <1>7, <1>9, <1>10, <1>11 DEF ReadsInv

LEMMA ReadsStay == ReadsInv /\ UNCHANGED readsVars => ReadsInv'
<1> SUFFICES ASSUME ReadsInv, UNCHANGED readsVars PROVE ReadsInv'
  OBVIOUS
<1> USE DEF ReadsInv, readsVars
<1>1. RowsOK'
  BY DEF RowsOK
<1>2. ReadingOK'
  BY DEF ReadingOK
<1>3. ListsOK' /\ MessagesOK'
  BY DEF ListsOK, MessagesOK
<1>4. ContextHasNoGap'
  BY DEF ContextHasNoGap, TokensOf
<1>5. SearchOK'
  BY DEF SearchOK
<1> QED BY <1>1, <1>2, <1>3, <1>4, <1>5

LEMMA AppearsKeeps == ReadsInv /\ Appears => ReadsInv'
<1> SUFFICES ASSUME ReadsInv, Appears PROVE ReadsInv'
  OBVIOUS
<1>1. /\ wanted \in Paged /\ appeared \in Nat /\ line \in Seq(Nat) /\ Distinct(line) /\ Range(line) \subseteq 1..appeared
      /\ removed \subseteq 1..appeared /\ removed \cap Range(line) = {} /\ reading \in ReadType /\ reading.at = "walk"
  BY DEF ReadsInv, RowsOK, ReadingOK, Appears
<1>2. /\ appeared' = appeared + 1 /\ reading' = [reading EXCEPT !.grown = @ + 1]
      /\ wanted' = wanted /\ removed' = removed
  BY DEF Appears
<1>3. PICK x \in Nat : x = appeared + 1
  BY <1>1
<1>4. PICK i \in 1..(Len(line) + 1) : line' = InsertAt(line, i, x)
  BY <1>3 DEF Appears
<1>5. line' \in Seq(Nat) /\ InsertedAt(line, i, x, line')
  BY <1>1, <1>4, InsertIs
<1>6. x \notin Range(line) /\ x \notin removed /\ x \in 1..(appeared + 1) /\ 1..appeared \subseteq 1..(appeared + 1)
  BY <1>1, <1>3
<1>7. reading.offset \in Nat /\ reading.grown \in Nat /\ reading.rows \in Seq(Nat) /\ reading.told \in Seq(Nat)
  BY <1>1 DEF ReadType
<1>8. /\ Range(line') = Range(line) \cup {x} /\ Distinct(line')
      /\ Before(line, reading.offset) \subseteq Before(line', reading.offset)
      /\ \E y : Before(line', reading.offset) \subseteq Before(line, reading.offset) \cup {y}
  <2>1. PICK longer \in Seq(Nat) : longer = line'
    BY <1>5
  <2>2. PICK offset \in Nat : offset = reading.offset
    BY <1>7
  <2>3. InsertedAt(line, i, x, longer)
    BY <1>5, <2>1
  <2>4. Comes(line, x, longer, offset)
    BY <1>1, <2>3, ComingMoves
  <2> QED BY <1>1, <1>6, <2>1, <2>2, <2>4 DEF Comes
<1>9. /\ reading'.at = "walk" /\ reading'.rows = reading.rows /\ reading'.told = reading.told
      /\ reading'.offset = reading.offset /\ reading'.grown = reading.grown + 1 /\ reading' \in ReadType
  <2>1. PICK w : w = [reading EXCEPT !.grown = @ + 1]
    OBVIOUS
  <2>2. w \in ReadType
    <3>1. reading.grown + 1 \in Nat
      BY <1>7
    <3> QED BY <1>1, <2>1, <3>1 DEF ReadType
  <2>3. w.at = reading.at /\ w.rows = reading.rows /\ w.told = reading.told /\ w.offset = reading.offset
        /\ w.grown = reading.grown + 1
    BY <1>1, <2>1 DEF ReadType
  <2> QED BY <1>1, <1>2, <2>1, <2>2, <2>3
<1>10. RowsOK'
  BY <1>1, <1>2, <1>5, <1>6, <1>8 DEF RowsOK
<1>11. ReadingOK'
  BY <1>1, <1>2, <1>9 DEF ReadingOK
<1>12. ListsOK'
  <2> SUFFICES ASSUME wanted \in Newest
               PROVE  Walked(line', removed, reading.rows, reading.told, reading.offset, reading.grown + 1)
    BY <1>2, <1>9 DEF ListsOK
  <2>1. Walked(line, removed, reading.rows, reading.told, reading.offset, reading.grown)
    BY <1>1 DEF ReadsInv, ListsOK
  <2>2. IsFiniteSet(removed)
    BY <1>1, SomeAreFinite
  <2> QED BY <1>1, <1>7, <1>8, <2>1, <2>2, ComingIsCounted
<1>13. MessagesOK'
  <2> SUFFICES ASSUME wanted = "messages" PROVE Given(line', removed, reading.rows, reading.told, reading.offset)
    BY <1>2, <1>9 DEF MessagesOK
  <2>1. Given(line, removed, reading.rows, reading.told, reading.offset)
    BY <1>1 DEF ReadsInv, MessagesOK
  <2> QED BY <1>8, <2>1 DEF Given
<1>14. ContextHasNoGap' /\ SearchOK'
  BY <1>1, <1>2, <1>9 DEF ContextHasNoGap, SearchOK, Paged
<1> QED BY <1>10, <1>11, <1>12, <1>13, <1>14 DEF ReadsInv

LEMMA DisappearsKeeps == ReadsInv /\ Disappears => ReadsInv'
<1> SUFFICES ASSUME ReadsInv, Disappears PROVE ReadsInv'
  OBVIOUS
<1>1. /\ wanted \in Paged \cup {"context", "search"} /\ appeared \in Nat /\ line \in Seq(Nat) /\ Distinct(line)
      /\ Range(line) \subseteq 1..appeared /\ removed \subseteq 1..appeared /\ removed \cap Range(line) = {}
      /\ reading \in ReadType /\ reading.at \notin {"idle", "done"} /\ wanted # "context"
  BY DEF ReadsInv, RowsOK, ReadingOK, Disappears
<1>2. appeared' = appeared /\ reading' = reading /\ wanted' = wanted /\ mentioned' = mentioned
  BY DEF Disappears
<1>3. PICK i \in DOMAIN line : line' = RemoveAt(line, i) /\ removed' = removed \cup {line[i]}
  BY DEF Disappears
<1>4. i \in 1..Len(line)
  BY <1>1, <1>3, ListIs
<1>5. line' \in Seq(Nat) /\ RemovedAt(line, i, line')
  BY <1>1, <1>3, <1>4, RemoveIs
<1>6. PICK x \in Nat : x = line[i] /\ x \in Range(line)
  BY <1>1, <1>4, ListIs
<1>7. reading.offset \in Nat /\ reading.grown \in Nat /\ reading.rows \in Seq(Nat) /\ reading.told \in Seq(Nat)
  BY <1>1 DEF ReadType
<1>8. /\ Range(line') = Range(line) \ {x} /\ Distinct(line')
      /\ Before(line', reading.offset) \subseteq Before(line, reading.offset)
      /\ \E y : Before(line, reading.offset) \subseteq Before(line', reading.offset) \cup {y}
  BY <1>1, <1>4, <1>5, <1>6, <1>7, GoingMoves, ZenonT(40)
<1>9. RowsOK'
  BY <1>1, <1>2, <1>3, <1>5, <1>6, <1>8 DEF RowsOK
<1>10. ReadingOK'
  BY <1>1, <1>2 DEF ReadsInv, ReadingOK
<1>11. ListsOK'
  <2> SUFFICES ASSUME wanted \in Newest, reading.at = "walk"
               PROVE  Walked(line', removed \cup {x}, reading.rows, reading.told, reading.offset, reading.grown)
    BY <1>1, <1>2, <1>3, <1>6 DEF ListsOK
  <2>1. Walked(line, removed, reading.rows, reading.told, reading.offset, reading.grown)
    BY DEF ReadsInv, ListsOK
  <2>2. IsFiniteSet(removed)
    BY <1>1, SomeAreFinite
  <2>3. x \notin removed
    BY <1>1, <1>6
  <2> QED BY <1>1, <1>7, <1>8, <2>1, <2>2, <2>3, GoingIsCounted
<1>12. MessagesOK'
  <2> SUFFICES ASSUME wanted = "messages", reading.at = "walk"
               PROVE  Given(line', removed \cup {x}, reading.rows, reading.told, reading.offset)
    BY <1>1, <1>2, <1>3, <1>6 DEF MessagesOK
  <2>1. Given(line, removed, reading.rows, reading.told, reading.offset)
    BY DEF ReadsInv, MessagesOK
  <2> QED BY <1>8, <2>1 DEF Given
<1>13. ContextHasNoGap'
  BY <1>1, <1>2 DEF ContextHasNoGap
<1>14. SearchOK'
  <2> SUFFICES ASSUME wanted = "search", reading.at = "vectors"
               PROVE  IsChannel(line') /\ IsChannel(mentioned) /\ IsChannel(reading.told)
    BY <1>1, <1>2 DEF SearchOK, ReadType
  <2>1. IsChannel(line) /\ IsChannel(mentioned) /\ IsChannel(reading.told)
    BY DEF ReadsInv, SearchOK
  <2> QED BY <1>5, <1>8, <2>1 DEF IsChannel
<1> QED BY <1>9, <1>10, <1>11, <1>12, <1>13, <1>14 DEF ReadsInv

LEMMA UnreadIs ==
    /\ Unread \in ReadType /\ Unread.at = "idle" /\ Unread.size = 0 /\ Unread.offset = 0 /\ Unread.rows = << >>
    /\ Unread.told = << >> /\ Unread.named = << >> /\ Unread.grown = 0
<1>1. << >> \in Seq(Nat) /\ 0 \in Nat
  OBVIOUS
<1> QED BY <1>1 DEF Unread, ReadType

LEMMA WalkPagesKeeps == ReadsInv /\ WalkPages => ReadsInv'
<1> SUFFICES ASSUME ReadsInv, WalkPages PROVE ReadsInv'
  OBVIOUS
<1>1. /\ wanted \in Paged /\ appeared \in Nat /\ line \in Seq(Nat) /\ Distinct(line) /\ removed = {}
      /\ UNCHANGED <<wanted, line, appeared, removed>>
  BY DEF ReadsInv, RowsOK, ReadingOK, WalkPages
<1>2. PICK size \in PageSizes : reading' = [Unread EXCEPT !.at = "walk", !.size = size, !.told = line]
  BY DEF WalkPages
<1>3. size \in Nat /\ 0 \in Nat /\ << >> \in Seq(Nat)
  BY SessionReadsAssumption
<1>4. PICK r : r = [Unread EXCEPT !.at = "walk", !.size = size, !.told = line]
  OBVIOUS
<1>5. reading' = r
  BY <1>2, <1>4
<1>6. /\ r \in ReadType /\ r.at = "walk" /\ r.offset = 0 /\ r.rows = << >> /\ r.told = line /\ r.grown = 0
  BY <1>1, <1>3, <1>4, UnreadIs DEF ReadType
<1>7. RowsOK'
  BY <1>1 DEF ReadsInv, RowsOK
<1>8. ReadingOK'
  BY <1>1, <1>5, <1>6 DEF ReadingOK
<1>9. ListsOK'
  <2>1. Walked(line, {}, << >>, line, 0, 0)
    BY <1>1, WalkBegins
  <2> QED BY <1>1, <1>5, <1>6, <2>1 DEF ListsOK
<1>10. MessagesOK'
  <2>1. Asked(line, 0) = {}
    <3>1. PICK m \in Nat : m = Len(line)
      BY <1>1, ListIs
    <3>2. {j \in 1..m : j <= 0} = {}
      OBVIOUS
    <3> QED BY <3>1, <3>2 DEF Asked
  <2>2. Distinct(<< >>) /\ Range(<< >>) = {}
    BY EmptyIs
  <2>3. Given(line, {}, << >>, line, 0)
    BY <1>1, <2>1, <2>2 DEF Given
  <2> QED BY <1>1, <1>5, <1>6, <2>3 DEF MessagesOK
<1>11. ContextHasNoGap' /\ SearchOK'
  BY <1>1, <1>5, <1>6 DEF ContextHasNoGap, SearchOK, Paged
<1> QED BY <1>7, <1>8, <1>9, <1>10, <1>11 DEF ReadsInv

\* A page of a list is one of its newest rows, however it is asked for.
LEMMA PageIs ==
    ASSUME line \in Seq(Nat), NEW size \in Nat, NEW offset \in Nat, wanted \in Newest
    PROVE  PageOf(size, offset) \in Seq(Nat) /\ IsPage(line, size, offset, PageOf(size, offset))
<1>1. PICK m \in Nat : m = Len(line)
  BY ListIs
<1>2. CASE wanted = "events"
  <2>1. PICK upto \in Nat : upto = size + offset /\ offset + size <= upto
    <3>1. size + offset \in Nat /\ offset + size <= size + offset
      OBVIOUS
    <3> QED BY <3>1
  <2>2. PICK page : page = FirstOf(Skip(FirstOf(Reverse(line), upto), offset), size)
    OBVIOUS
  <2>3. page \in Seq(Nat) /\ IsPage(line, size, offset, page)
    BY <2>1, <2>2, PagesAre
  <2>4. PageOf(size, offset) = page
    BY <1>2, <2>1, <2>2 DEF PageOf, EventList
  <2> QED BY <2>3, <2>4
<1>3. CASE wanted \in {"sessions", "episodes"}
  <2>1. PICK upto \in Nat : upto = size + offset + m /\ offset + size <= upto
    <3>1. size + offset + m \in Nat /\ offset + size <= size + offset + m
      OBVIOUS
    <3> QED BY <3>1
  <2>2. PICK list : list = Reverse(line)
    OBVIOUS
  <2>3. Len(list) = m
    BY <1>1, <2>2, ReverseIs
  <2>4. FirstOf(list, upto) = list
    <3>1. ~(upto < m)
      BY <2>1
    <3> QED BY <2>3, <3>1 DEF FirstOf
  <2>5. PICK page : page = FirstOf(Skip(list, offset), size)
    OBVIOUS
  <2>6. page \in Seq(Nat) /\ IsPage(line, size, offset, page)
    BY <2>1, <2>2, <2>4, <2>5, PagesAre
  <2>7. PageOf(size, offset) = page
    BY <1>3, <2>2, <2>5 DEF PageOf, ListSessions, ListEpisodes
  <2> QED BY <2>6, <2>7
<1> QED BY <1>2, <1>3 DEF Newest

\* The rows of a part of an episode's list: those that are left, each once.
LEMMA MessagesAre ==
    ASSUME line \in Seq(Nat), Distinct(line), NEW told \in Seq(Nat), told = reading.told, NEW size \in Nat,
           NEW offset \in Nat,
           wanted = "messages", NEW gone, NEW rows \in Seq(Nat), Given(line, gone, rows, told, offset)
    PROVE  PageOf(size, offset) \in Seq(Nat) /\ Given(line, gone, rows \o PageOf(size, offset), told, offset + size)
<1>1. PICK part : part = FirstOf(Skip(told, offset), size)
  OBVIOUS
<1>2. PICK page : page = Kept(line, Range(part))
  OBVIOUS
<1>3. PageOf(size, offset) = page
  BY <1>1, <1>2 DEF PageOf, ByIds
<1>4. page \in Seq(Nat) /\ Range(page) = Range(line) \cap Range(part) /\ Distinct(page)
  BY <1>2, KeptIs
<1>5. /\ Distinct(told) /\ Range(told) \subseteq Range(line) \cup gone
      /\ Distinct(rows) /\ Range(rows) \subseteq Asked(told, offset)
      /\ Asked(told, offset) \ gone \subseteq Range(rows)
  BY DEF Given
<1>6. /\ part \in Seq(Nat) /\ Asked(told, offset + size) = Asked(told, offset) \cup Range(part)
      /\ Asked(told, offset) \cap Range(part) = {}
  <2>1. Parted(Nat, told, size, offset, part)
    BY <1>1, AskedGrows
  <2> QED BY <1>5, <2>1 DEF Parted
<1>7. Range(part) \subseteq Range(told)
  <2>1. \A u : Asked(told, u) \subseteq Range(told)
    BY ListIs DEF Asked
  <2>2. Asked(told, offset + size) \subseteq Range(told)
    BY <2>1
  <2> QED BY <1>6, <2>2
<1>8. PICK d : d = rows \o page
  OBVIOUS
<1>9. d \in Seq(Nat) /\ Range(d) = Range(rows) \cup Range(page) /\ Distinct(d)
  <2>1. Range(rows) \cap Range(page) = {}
    BY <1>4, <1>5, <1>6
  <2> QED BY <1>4, <1>5, <1>8, <2>1, JoinHas
<1>10. Range(d) \subseteq Asked(told, offset + size)
  BY <1>4, <1>5, <1>6, <1>9
<1>11. Asked(told, offset + size) \ gone \subseteq Range(d)
  BY <1>4, <1>5, <1>6, <1>7, <1>9
<1>12. Given(line, gone, d, told, offset + size)
  BY <1>5, <1>9, <1>10, <1>11 DEF Given
<1> QED BY <1>3, <1>4, <1>8, <1>12

LEMMA NextPageKeeps == ReadsInv /\ NextPage => ReadsInv'
<1> SUFFICES ASSUME ReadsInv, NextPage PROVE ReadsInv'
  OBVIOUS
<1>1. /\ wanted \in Paged /\ line \in Seq(Nat) /\ Distinct(line) /\ reading \in ReadType /\ reading.at = "walk"
      /\ UNCHANGED <<wanted, line, appeared, removed>>
  BY DEF ReadsInv, RowsOK, ReadingOK, NextPage
<1>2. PICK size \in Nat : size = reading.size
  BY <1>1 DEF ReadType
<1>3. PICK offset \in Nat : offset = reading.offset
  BY <1>1 DEF ReadType
<1>4. PICK rows \in Seq(Nat) : rows = reading.rows
  BY <1>1 DEF ReadType
<1>5. PICK told \in Seq(Nat) : told = reading.told
  BY <1>1 DEF ReadType
<1>6. PICK grown \in Nat : grown = reading.grown
  BY <1>1 DEF ReadType
<1>7. PICK page : page = PageOf(size, offset)
  OBVIOUS
<1>8. wanted \in Newest \/ wanted = "messages"
  BY <1>1 DEF Paged, Newest
<1>9. wanted \in Newest => Walked(line, removed, rows, told, offset, grown)
  BY <1>1, <1>3, <1>4, <1>5, <1>6 DEF ReadsInv, ListsOK
<1>10. wanted = "messages" => Given(line, removed, rows, told, offset)
  BY <1>1, <1>3, <1>4, <1>5 DEF ReadsInv, MessagesOK
<1>11. wanted \in Newest => page \in Seq(Nat) /\ IsPage(line, size, offset, page)
  BY <1>1, <1>7, PageIs
<1>12. wanted = "messages" => page \in Seq(Nat) /\ Given(line, removed, rows \o page, told, offset + size)
  BY <1>1, <1>5, <1>7, <1>10, MessagesAre
<1>13. page \in Seq(Nat)
  BY <1>8, <1>11, <1>12
<1>14. PICK at : at = IF IF wanted = "messages" THEN offset + size >= Len(told) ELSE Len(page) < size THEN "done" ELSE "walk"
  OBVIOUS
<1>15. /\ at \in {"walk", "done"}
       /\ (at = "done" /\ wanted = "messages") => offset + size >= Len(told)
       /\ (at = "done" /\ wanted # "messages") => Len(page) < size
  BY <1>14
<1>16. PICK r : r = [reading EXCEPT !.rows = @ \o page, !.offset = offset + size, !.at = at]
  OBVIOUS
<1>17. reading' = r
  BY <1>2, <1>3, <1>5, <1>7, <1>14, <1>16 DEF NextPage
<1>18. PICK d : d = rows \o page
  OBVIOUS
<1>19. d \in Seq(Nat) /\ offset + size \in Nat
  BY <1>13, <1>18, JoinHas
<1>20. r \in ReadType /\ r.at = at /\ r.rows = d /\ r.offset = offset + size /\ r.told = told /\ r.grown = grown
  BY <1>1, <1>4, <1>5, <1>6, <1>15, <1>16, <1>18, <1>19 DEF ReadType
<1>21. RowsOK'
  BY <1>1 DEF ReadsInv, RowsOK
<1>22. ReadingOK'
  BY <1>1, <1>15, <1>17, <1>20 DEF ReadingOK
<1>23. ListsOK'
  <2> SUFFICES ASSUME wanted \in Newest
               PROVE  /\ Walked(line, removed, d, told, offset + size, grown)
                      /\ at = "done" => Before(line, offset + size) = {}
    BY <1>1, <1>17, <1>20 DEF ListsOK
  <2>1. Walked(line, removed, d, told, offset + size, grown)
    BY <1>1, <1>9, <1>11, <1>18, WalkGoesOn
  <2>2. Len(page) < size => Before(line, offset + size) = {}
    BY <1>1, <1>11, PageTakes
  <2>3. at = "done" => Len(page) < size
    BY <1>15 DEF Newest
  <2> QED BY <2>1, <2>2, <2>3
<1>24. MessagesOK'
  <2> SUFFICES ASSUME wanted = "messages"
               PROVE  Given(line, removed, d, told, offset + size) /\ (at = "done" => Len(told) <= offset + size)
    BY <1>1, <1>17, <1>20 DEF MessagesOK
  <2>1. at = "done" => offset + size >= Len(told)
    BY <1>15
  <2>2. PICK m \in Nat : m = Len(told)
    BY ListIs
  <2>3. offset + size >= m => m <= offset + size
    OBVIOUS
  <2> QED BY <1>12, <1>18, <2>1, <2>2, <2>3
<1>25. ContextHasNoGap' /\ SearchOK'
  BY <1>1 DEF ContextHasNoGap, SearchOK, Paged
<1> QED BY <1>21, <1>22, <1>23, <1>24, <1>25 DEF ReadsInv

LEMMA ReadContextKeeps == ReadsInv /\ ReadContext => ReadsInv'
<1> SUFFICES ASSUME ReadsInv, ReadContext PROVE ReadsInv'
  OBVIOUS
<1>1. /\ wanted = "context" /\ line \in Seq(Nat) /\ Distinct(line) /\ UNCHANGED <<wanted, line, appeared, removed, large>>
  BY DEF ReadsInv, RowsOK, ReadContext
<1>2. PICK most \in PageSizes, budget \in Budgets, alsoRaw \in BOOLEAN :
          reading' = [Unread EXCEPT !.at = "done", !.size = budget, !.told = EventsRead(most, alsoRaw),
                                    !.rows = Context(EventsRead(most, alsoRaw), budget).events]
  BY DEF ReadContext
<1>3. most \in Nat /\ budget \in Nat
  BY SessionReadsAssumption
<1>4. PICK told : told = EventsRead(most, alsoRaw)
  OBVIOUS
<1>5. told \in Seq(Nat) /\ Distinct(told)
  <2>1. PICK S : S = IF alsoRaw THEN Range(line) ELSE purified
    OBVIOUS
  <2>2. PICK list : list = FirstOf(line, most)
    OBVIOUS
  <2>3. list \in Seq(Nat) /\ Distinct(list)
    BY <1>1, <1>3, <2>2, FirstOfIs, FirstIsDistinct
  <2>4. told = Kept(list, S)
    BY <1>4, <2>1, <2>2 DEF EventsRead
  <2> QED BY <2>3, <2>4, KeptIs
<1>6. PICK c : c = Context(told, budget)
  OBVIOUS
<1>7. c \in Contexts /\ FitsTo(told, budget, c, Len(told))
  BY <1>3, <1>5, <1>6, ContextIs
<1>8. c.events \in Seq(Nat) /\ << >> \in Seq(Nat) /\ 0 \in Nat
  BY <1>7 DEF Contexts
<1>9. PICK r : r = [Unread EXCEPT !.at = "done", !.size = budget, !.told = told, !.rows = c.events]
  OBVIOUS
<1>10. reading' = r
  BY <1>2, <1>4, <1>6, <1>9
<1>11. r \in ReadType /\ r.at = "done" /\ r.size = budget /\ r.rows = c.events /\ r.told = told
  BY <1>3, <1>5, <1>8, <1>9, UnreadIs DEF ReadType
<1>12. PICK m \in Nat : m = Len(told)
  BY <1>5, ListIs
<1>13. PICK k \in 0..m :
        /\ c.events = Skip(told, k) /\ c.tokens = TokensOf(Skip(told, k)) /\ c.tokens <= budget
        /\ c.full \in BOOLEAN
        /\ ~c.full => k = m - m
        /\ c.full => k > 0 /\ TokensOf(Skip(told, k - 1)) > budget
  BY <1>7, <1>12 DEF FitsTo
<1>14. m - Len(Skip(told, k)) = k
  <2>1. PICK p \in Nat : p = m - k
    OBVIOUS
  <2>2. p = IF k <= m THEN m - k ELSE 0
    BY <2>1
  <2>3. Rest(Nat, told, k, p, Skip(told, k))
    BY <1>5, <1>12, <2>2, RestIs
  <2>4. Len(Skip(told, k)) = p
    BY <2>3 DEF Rest
  <2> QED BY <2>1, <2>4
<1>15. k > 0 => TokensOf(Skip(told, k - 1)) > budget
  <2>1. ~c.full => k = 0
    BY <1>13
  <2> QED BY <1>13, <2>1
<1>16. ContextHasNoGap'
  <2>1. PICK n : n = m - Len(c.events)
    OBVIOUS
  <2>2. n = k
    BY <1>13, <1>14, <2>1
  <2>3. \A list : TokensOf(list)' = TokensOf(list)
    BY <1>1 DEF TokensOf
  <2>4. /\ n >= 0 /\ c.events = Skip(told, n) /\ TokensOf(c.events) <= budget
        /\ n > 0 => TokensOf(Skip(told, n - 1)) > budget
    BY <1>13, <1>15, <2>2
  <2> QED BY <1>1, <1>10, <1>11, <1>12, <2>1, <2>4 DEF ContextHasNoGap, TokensOf
<1>17. RowsOK' /\ ReadingOK' /\ ListsOK' /\ MessagesOK' /\ SearchOK'
  BY <1>1, <1>10, <1>11 DEF ReadsInv, RowsOK, ReadingOK, ListsOK, MessagesOK, SearchOK, Newest
<1> QED BY <1>16, <1>17 DEF ReadsInv

LEMMA SearchVectorsKeeps == ReadsInv /\ SearchVectors => ReadsInv'
<1> SUFFICES ASSUME ReadsInv, SearchVectors PROVE ReadsInv'
  OBVIOUS
<1>1. /\ wanted = "search" /\ IsChannel(line) /\ IsChannel(mentioned)
      /\ UNCHANGED <<wanted, line, appeared, removed, mentioned>>
  BY DEF ReadsInv, SearchOK, SearchVectors
<1>2. PICK limit \in PageSizes :
        reading' = [Unread EXCEPT !.at = "vectors", !.size = limit, !.told = FirstOf(line, 3 * limit)]
  BY DEF SearchVectors
<1>3. limit \in Nat /\ 3 * limit \in Nat /\ 0 \in Nat /\ << >> \in Seq(Nat)
  BY SessionReadsAssumption
<1>4. PICK told : told = FirstOf(line, 3 * limit)
  OBVIOUS
<1>5. IsChannel(told)
  <2>1. PICK n \in Nat : n = 3 * limit
    BY <1>3
  <2> QED BY <1>1, <1>4, <2>1, FirstOfIs, FirstIsDistinct DEF IsChannel
<1>6. PICK r : r = [Unread EXCEPT !.at = "vectors", !.size = limit, !.told = told]
  OBVIOUS
<1>7. reading' = r
  BY <1>2, <1>4, <1>6
<1>8. r \in ReadType /\ r.at = "vectors" /\ r.told = told
  <2>1. told \in Seq(Nat)
    BY <1>5 DEF IsChannel
  <2> QED BY <1>3, <1>6, <2>1, UnreadIs DEF ReadType
<1>9. RowsOK' /\ ReadingOK' /\ ListsOK' /\ MessagesOK' /\ ContextHasNoGap' /\ SearchOK'
  BY <1>1, <1>5, <1>7, <1>8
     DEF ReadsInv, RowsOK, ReadingOK, ListsOK, MessagesOK, ContextHasNoGap, SearchOK, Newest
<1> QED BY <1>9 DEF ReadsInv

LEMMA SearchEntitiesKeeps == ReadsInv /\ SearchEntities => ReadsInv'
<1> SUFFICES ASSUME ReadsInv, SearchEntities PROVE ReadsInv'
  OBVIOUS
<1>1. /\ wanted = "search" /\ reading \in ReadType /\ reading.at = "vectors"
      /\ UNCHANGED <<wanted, line, appeared, removed, mentioned>>
  BY DEF ReadsInv, ReadingOK, SearchEntities
<1>2. IsChannel(mentioned) /\ IsChannel(reading.told)
  BY <1>1 DEF ReadsInv, SearchOK
<1>3. PICK size \in Nat : size = reading.size
  BY <1>1 DEF ReadType
<1>4. PICK named : named = FirstOf(Kept(mentioned, Range(line)), 3 * size)
  OBVIOUS
<1>14. CASE reading' = [Unread EXCEPT !.at = "failed"]
  <2>1. PICK r : r = [Unread EXCEPT !.at = "failed"]
    OBVIOUS
  <2>2. r \in ReadType /\ r.at = "failed"
    BY <2>1, UnreadIs DEF ReadType
  <2>3. RowsOK' /\ ReadingOK' /\ ListsOK' /\ MessagesOK' /\ ContextHasNoGap' /\ SearchOK'
    BY <1>1, <1>14, <2>1, <2>2
       DEF ReadsInv, RowsOK, ReadingOK, ListsOK, MessagesOK, ContextHasNoGap, SearchOK, Newest
  <2> QED BY <2>3 DEF ReadsInv
<1>5. SUFFICES ASSUME reading' # [Unread EXCEPT !.at = "failed"]
               PROVE  ReadsInv'
  BY <1>14
<1>15. PICK entities \in {named, << >>} : \E fused \in FuseEpisodes(reading.told, entities) :
         reading' = [reading EXCEPT !.at = "done", !.named = entities, !.rows = FirstOf(fused, size)]
  BY <1>3, <1>4, <1>5 DEF SearchEntities
<1>6. PICK fused \in FuseEpisodes(reading.told, entities) :
         reading' = [reading EXCEPT !.at = "done", !.named = entities, !.rows = FirstOf(fused, size)]
  BY <1>15
<1>7. IsChannel(entities)
  <2>1. IsChannel(named)
    <3>1. PICK list : list = Kept(mentioned, Range(line))
      OBVIOUS
    <3>2. list \in Seq(Nat) /\ Distinct(list) /\ Range(list) \subseteq 1..4
      BY <1>2, <3>1, KeptIs DEF IsChannel
    <3>3. PICK n \in Nat : n = 3 * size
      OBVIOUS
    <3> QED BY <1>4, <3>1, <3>2, <3>3, FirstOfIs, FirstIsDistinct DEF IsChannel
  <2>2. IsChannel(<< >>)
    BY EmptyIs DEF IsChannel
  <2> QED BY <2>1, <2>2
<1>8. PICK rows : rows = FirstOf(fused, size)
  OBVIOUS
<1>9. InOrder(reading.told, entities, rows)
  BY <1>2, <1>7, <1>8, FusedInOrder
<1>10. rows \in Seq(Nat) /\ entities \in Seq(Nat)
  <2>1. fused \in Seq(Nat)
    BY <1>2, <1>7, FusedIs
  <2> QED BY <1>7, <1>8, <2>1, FirstOfIs DEF IsChannel
<1>11. reading' \in ReadType /\ reading'.at = "done"
       /\ reading'.named = entities /\ reading'.rows = rows /\ reading'.told = reading.told
  <2>1. PICK r : r = [reading EXCEPT !.at = "done", !.named = entities, !.rows = rows]
    OBVIOUS
  <2>2. r \in ReadType /\ r.at = "done" /\ r.named = entities /\ r.rows = rows /\ r.told = reading.told
    BY <1>1, <1>10, <2>1 DEF ReadType
  <2> QED BY <1>6, <1>8, <2>1, <2>2
<1>12. RowsOK' /\ ReadingOK' /\ ListsOK' /\ MessagesOK' /\ ContextHasNoGap' /\ SearchOK'
  BY <1>1, <1>9, <1>11
     DEF ReadsInv, RowsOK, ReadingOK, ListsOK, MessagesOK, ContextHasNoGap, SearchOK, Newest
<1> QED BY <1>12 DEF ReadsInv

\* The invariant says what the property does.
LEMMA ReadsInvFollows == ReadsInv => ReadsAreWhole
<1> SUFFICES ASSUME ReadsInv PROVE ReadsAreWhole
  OBVIOUS
<1>1. reading \in ReadType
  BY DEF ReadsInv, ReadingOK
<1>2. reading.rows \in Seq(Nat) /\ reading.told \in Seq(Nat) /\ reading.offset \in Nat /\ reading.grown \in Nat
  BY <1>1 DEF ReadType
<1>3. PagesMissNothing
  <2> SUFFICES ASSUME reading.at = "done", wanted \in Paged
               PROVE  LET missed == (Range(reading.told) \ removed) \ Range(reading.rows)
                      IN  /\ Cardinality(missed) <= IF wanted = "messages" THEN 0 ELSE Cardinality(removed)
                          /\ Len(reading.rows) - Cardinality(Range(reading.rows))
                                <= IF wanted = "messages" THEN 0 ELSE reading.grown
    BY DEF PagesMissNothing
  <2>1. CASE wanted \in Newest
    <3>1. Walked(line, removed, reading.rows, reading.told, reading.offset, reading.grown)
          /\ Before(line, reading.offset) = {}
      BY <2>1 DEF ReadsInv, ListsOK
    <3>2. /\ Cardinality((Range(reading.told) \ removed) \ Range(reading.rows)) <= Cardinality(removed)
          /\ Len(reading.rows) - Cardinality(Range(reading.rows)) <= reading.grown
      BY <1>2, <3>1, WalkEnds
    <3>3. wanted # "messages"
      BY <2>1 DEF Newest
    <3> QED BY <3>2, <3>3
  <2>2. CASE wanted = "messages"
    <3>1. Given(line, removed, reading.rows, reading.told, reading.offset) /\ Len(reading.told) <= reading.offset
      BY <2>2 DEF ReadsInv, MessagesOK
    <3>2. Distinct(reading.rows) /\ Asked(reading.told, reading.offset) \ removed \subseteq Range(reading.rows)
      BY <3>1 DEF Given
    <3>3. Asked(reading.told, reading.offset) = Range(reading.told)
      <4>1. PICK told \in Seq(Nat) : told = reading.told
        BY <1>2
      <4>2. PICK offset \in Nat : offset = reading.offset
        BY <1>2
      <4>3. PICK size \in Nat : size = 0
        OBVIOUS
      <4>4. PICK part : part = FirstOf(Skip(told, offset), size)
        OBVIOUS
      <4>5. Parted(Nat, told, size, offset, part)
        BY <4>4, AskedGrows
      <4> QED BY <3>1, <4>1, <4>2, <4>5 DEF Parted
    <3>4. (Range(reading.told) \ removed) \ Range(reading.rows) = {}
      BY <3>2, <3>3
    <3>5. Cardinality({}) = 0
      BY FS_EmptySet
    <3>6. Cardinality(Range(reading.rows)) = Len(reading.rows) /\ Len(reading.rows) \in Nat
      BY <1>2, <3>2, RowsCount, ListIs
    <3>7. 0 <= 0 /\ Len(reading.rows) - Cardinality(Range(reading.rows)) <= 0
      BY <3>6
    <3> QED BY <2>2, <3>4, <3>5, <3>7
  <2> QED BY <2>1, <2>2 DEF Paged, Newest
<1>4. BetterEpisodesFirst
  <2> SUFFICES ASSUME reading.at = "done", wanted = "search" PROVE InOrder(reading.told, reading.named, reading.rows)
    BY DEF BetterEpisodesFirst, InOrder, Higher
  <2> QED BY DEF ReadsInv, SearchOK
<1> QED BY <1>3, <1>4 DEF ReadsAreWhole, ReadsInv

\* What is read of sessions and episodes is whole.
THEOREM WhatIsReadIsWhole == ReadsSpec => []ReadsAreWhole
<1>1. ReadsInit => ReadsInv
  BY ReadsStart
<1>2. ReadsInv /\ [ReadsNext]_readsVars => ReadsInv'
  BY ReadsStay, AppearsKeeps, DisappearsKeeps, WalkPagesKeeps, NextPageKeeps, ReadContextKeeps,
     SearchVectorsKeeps, SearchEntitiesKeeps DEF ReadsNext
<1>3. ReadsInv => ReadsAreWhole
  BY ReadsInvFollows
<1> QED BY <1>1, <1>2, <1>3, PTL DEF ReadsSpec
================================================================================
