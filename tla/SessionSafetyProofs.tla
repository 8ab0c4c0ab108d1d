-------------------------- MODULE SessionSafetyProofs --------------------------
(***************************************************************************)
(* Proofs about SessionPipeline, for any number of threads, sessions,      *)
(* users, events and faults: first the shape of the state, then its        *)
(* safety.  The argument for that has two halves: no step takes back what  *)
(* is stored (Grows), so what was true of stored things stays true; and    *)
(* what each operation keeps on its stack is sound (JobSound), so what it  *)
(* adds to the tables is right when it adds it.                            *)
(***************************************************************************)
EXTENDS SessionPipeline, SequenceTheorems, TLAPS

--------------------------------------------------------------------------------
(* The shape of the state *)

\* The operation of a thread: once it has begun it works on a session for a user, and
\* the positions it has still to visit are positions of its batch.
JobOK(j) ==
    /\ j \in JobType
    /\ j.pc # "idle" => j.session \in Sessions /\ j.user \in Users
    /\ j.todo \cup j.fresh \cup j.bare \subseteq 1 .. Len(j.msgs)

JobsOK == job \in [Workers -> JobType] /\ \A w \in Workers : JobOK(job[w])

TablesOK ==
    /\ sessions \in [Sessions -> Users \cup {NoUser}]
    /\ notes \in [Sessions -> Seq(EventIds)]
    /\ \A s \in Sessions : Len(notes[s]) <= NotesCap
    /\ events \in [EventIds -> Rows \cup {NoRow}]
    /\ episodes \subseteq EpisodeType
    /\ narratives \subseteq NarrativeType

HistoryOK ==
    /\ acked \subseteq AckType
    /\ overlap \in BOOLEAN
    /\ used \in [appends : Nat, compacts : Nat, faults : Nat, episodes : Nat,
                 unanswered : SUBSET EventIds]

Shape == TablesOK /\ JobsOK /\ HistoryOK

\* structured_notes stays a list of events within its cap.
LEMMA CappedType ==
    ASSUME NEW lines \in Seq(EventIds)
    PROVE  Capped(lines) \in Seq(EventIds) /\ Len(Capped(lines)) <= NotesCap
<1> DEFINE n == IF Len(lines) < NotesCap THEN Len(lines) ELSE NotesCap
<1>1. n \in Nat /\ n <= Len(lines) /\ n <= NotesCap
  BY ConstantsAssumption, LenProperties
<1>2. Capped(lines) = SubSeq(lines, 1, n)
  BY DEF Capped
<1>3. \A i \in 1 .. n : lines[i] \in EventIds
  BY <1>1, ElementOfSeq, LenProperties
<1> HIDE DEF n
<1>4. SubSeq(lines, 1, n) \in Seq(EventIds) /\ Len(SubSeq(lines, 1, n)) <= n
  BY <1>1, <1>3, SubSeqProperties
<1> QED BY <1>1, <1>2, <1>4, ConstantsAssumption, LenProperties

LEMMA IdleOK == JobOK(Idle)
  BY ConstantsAssumption DEF Idle, JobType, Labels, JobOK

LEMMA BecomesOK ==
    ASSUME JobsOK, NEW w \in Workers, NEW j, JobOK(j), Becomes(w, j)
    PROVE  JobsOK'
  BY DEF Becomes, JobOK, JobsOK

LEMMA ReturnOK ==
    ASSUME JobsOK, NEW w \in Workers, Return(w)
    PROVE  JobsOK'
  BY IdleOK, BecomesOK DEF Return

LEMMA GotoOK ==
    ASSUME JobsOK, NEW w \in Workers, job[w].pc # "idle", NEW l \in Labels, Goto(w, l)
    PROVE  JobsOK'
<1>1. JobOK([job[w] EXCEPT !.pc = l])
  BY ZenonT(40) DEF JobsOK, JobOK, JobType
<1> QED BY <1>1, BecomesOK DEF Goto

LEMMA InitShape == Init => Shape
<1> SUFFICES ASSUME Init PROVE Shape
  OBVIOUS
<1>1. TablesOK
  BY ConstantsAssumption DEF Init, TablesOK
<1>2. JobsOK
  BY IdleOK DEF Init, JobsOK, JobOK
<1>3. HistoryOK
  BY DEF Init, HistoryOK
<1> QED BY <1>1, <1>2, <1>3 DEF Shape

\* A step of append_events keeps the shape of the state.
LEMMA AppendShape ==
    ASSUME Shape, NEW w \in Workers, AppendStart(w) \/ AppendStep(w)
    PROVE  Shape'
<1> USE DEF Shape
<1>0. JobOK(job[w])
  BY DEF JobsOK
<1>1. CASE AppendStart(w)
  <2>1. PICK r \in Requests :
           Becomes(w, [Idle EXCEPT !.pc = "session", !.session = r.session, !.user = r.user,
                                   !.msgs = r.msgs, !.todo = 1 .. Len(r.msgs)])
    BY <1>1 DEF AppendStart
  <2> DEFINE j == [Idle EXCEPT !.pc = "session", !.session = r.session, !.user = r.user,
                               !.msgs = r.msgs, !.todo = 1 .. Len(r.msgs)]
  <2>2. r.session \in Sessions /\ r.user \in Users /\ r.msgs \in Seq(Messages)
    BY RequestsAssumption DEF RequestType
  <2>3. 1 .. Len(r.msgs) \in SUBSET Nat
    BY <2>2, LenProperties
  <2>4. j \in JobType
    BY <2>2, <2>3, IdleOK DEF JobOK, JobType, Labels
  <2>5. /\ j.session = r.session /\ j.user = r.user /\ j.msgs = r.msgs
        /\ j.todo = 1 .. Len(r.msgs) /\ j.fresh = {} /\ j.bare = {}
    BY DEF Idle
  <2>6. JobOK(j)
    BY <2>2, <2>4, <2>5 DEF JobOK
  <2>7. JobsOK'
    BY <2>1, <2>6, BecomesOK
  <2> HIDE DEF j
  <2>8. TablesOK'
    BY <1>1 DEF AppendStart, table, TablesOK
  <2>9. HistoryOK'
    <3>1. UNCHANGED <<acked, overlap>>
      BY <1>1 DEF AppendStart
    <3>2. used' = [used EXCEPT !.appends = used.appends + 1]
      BY <1>1 DEF AppendStart
    <3> QED BY <3>1, <3>2 DEF HistoryOK
  <2> QED BY <2>7, <2>8, <2>9
<1>2. CASE AppendReadSession(w)
  <2>1. JobsOK'
    BY <1>2, GotoOK, ReturnOK DEF AppendReadSession, Labels
  <2> QED BY <1>2, <2>1 DEF AppendReadSession, ReadOnly, TablesOK, HistoryOK
<1>3. CASE AppendCreateSession(w)
  <2>1. JobsOK'
    BY <1>3, GotoOK DEF AppendCreateSession, Labels
  <2>2. job[w].session \in Sessions /\ job[w].user \in Users
    BY <1>0, <1>3 DEF AppendCreateSession, JobOK
  <2> QED BY <1>3, <2>1, <2>2 DEF AppendCreateSession, TablesOK, HistoryOK
<1>4. CASE AppendRecheckSession(w)
  <2>1. JobsOK'
    BY <1>4, GotoOK, ReturnOK DEF AppendRecheckSession, Labels
  <2> QED BY <1>4, <2>1 DEF AppendRecheckSession, ReadOnly, TablesOK, HistoryOK
<1>5. CASE AppendLookup(w)
  <2>1. ASSUME NEW i \in job[w].todo
        PROVE  JobOK([job[w] EXCEPT !.fresh = @ \cup {i}, !.todo = @ \ {i}])
    BY <1>0 DEF JobOK, JobType
  <2>2. JobsOK'
    BY <1>5, <2>1, BecomesOK, GotoOK, ReturnOK DEF AppendLookup, Labels
  <2> QED BY <1>5, <2>2 DEF AppendLookup, ReadOnly, TablesOK, HistoryOK
<1>6. CASE AppendProbe(w)
  <2>1. PICK i \in job[w].todo :
           \/ Return(w)
           \/ Becomes(w, [job[w] EXCEPT !.pc = "lookup", !.todo = @ \ {i},
                             !.bare = IF events[job[w].msgs[i].id].vec = "null"
                                        THEN @ \cup {i} ELSE @])
    BY <1>6 DEF AppendProbe
  <2>2. JobOK([job[w] EXCEPT !.pc = "lookup", !.todo = @ \ {i},
                  !.bare = IF events[job[w].msgs[i].id].vec = "null" THEN @ \cup {i} ELSE @])
    BY <1>0, <1>6, ZenonT(40) DEF JobOK, JobType, Labels, AppendProbe
  <2>3. JobsOK'
    BY <2>1, <2>2, BecomesOK, ReturnOK
  <2> QED BY <1>6, <2>3 DEF AppendProbe, ReadOnly, TablesOK, HistoryOK
<1>7. CASE AppendEmbed(w)
  <2>1. PICK ok \in BOOLEAN :
           Becomes(w, [job[w] EXCEPT !.pc = "store", !.emb = ok,
                                     !.bare = IF ok THEN @ ELSE {}])
    BY <1>7 DEF AppendEmbed
  <2>2. JobOK([job[w] EXCEPT !.pc = "store", !.emb = ok, !.bare = IF ok THEN @ ELSE {}])
    BY <1>0, <1>7 DEF JobOK, JobType, Labels, AppendEmbed
  <2>3. JobsOK'
    BY <2>1, <2>2, BecomesOK
  <2> QED BY <1>7, <2>3 DEF AppendEmbed, ReadOnly, TablesOK, HistoryOK
<1>8. CASE AppendBackfill(w)
  <2>1. PICK i \in job[w].bare :
           \/ Return(w) /\ UNCHANGED events
           \/ /\ Stored(job[w].msgs[i].id)
              /\ events' = [events EXCEPT ![job[w].msgs[i].id].vec = "raw"]
              /\ Becomes(w, [job[w] EXCEPT !.bare = @ \ {i}])
    BY <1>8 DEF AppendBackfill
  <2>2. JobOK([job[w] EXCEPT !.bare = @ \ {i}])
    BY <1>0 DEF JobOK, JobType
  <2>3. JobsOK'
    BY <2>1, <2>2, BecomesOK, ReturnOK
  <2>4. ASSUME NEW row \in Rows PROVE [row EXCEPT !.vec = "raw"] \in Rows
    BY DEF Rows, Vectors
  <2>5. events' \in [EventIds -> Rows \cup {NoRow}]
    BY <2>1, <2>4 DEF TablesOK, Stored
  <2> QED BY <1>8, <2>3, <2>5 DEF AppendBackfill, TablesOK, HistoryOK
<1>9. CASE AppendInsert(w)
  <2> DEFINE row(m) == [session |-> job[w].session, user |-> job[w].user, body |-> m.body,
                        vec |-> IF job[w].emb THEN "raw" ELSE "null",
                        purified |-> FALSE, processed |-> FALSE]
  <2>1. PICK i \in job[w].fresh :
           \/ /\ events' = [events EXCEPT ![job[w].msgs[i].id] = row(job[w].msgs[i])]
              /\ Becomes(w, [job[w] EXCEPT !.fresh = @ \ {i},
                                           !.written = Append(@, job[w].msgs[i].id)])
           \/ /\ UNCHANGED events
              /\ \/ Goto(w, "reprobe") \/ Return(w)
                 \/ Becomes(w, [job[w] EXCEPT !.fresh = @ \ {i}])
    BY <1>9 DEF AppendInsert
  <2>2. job[w].msgs[i] \in Messages
    BY <1>0, ElementOfSeq DEF JobOK, JobType
  <2>3. job[w].msgs[i].id \in EventIds /\ job[w].msgs[i].body \in Bodies
    BY <2>2 DEF Messages
  <2>4. JobOK([job[w] EXCEPT !.fresh = @ \ {i}])
    BY <1>0 DEF JobOK, JobType
  <2>5. Append(job[w].written, job[w].msgs[i].id) \in Seq(EventIds)
    BY <1>0, <2>3, AppendProperties DEF JobOK, JobType
  <2>6. JobOK([job[w] EXCEPT !.fresh = @ \ {i}, !.written = Append(@, job[w].msgs[i].id)])
    BY <1>0, <2>5 DEF JobOK, JobType
  <2>7. JobsOK'
    BY <1>9, <2>1, <2>4, <2>6, BecomesOK, GotoOK, ReturnOK DEF AppendInsert, Labels
  <2>8. row(job[w].msgs[i]) \in Rows
    BY <1>0, <1>9, <2>3 DEF AppendInsert, JobOK, JobType, Rows, Vectors
  <2>9. events' \in [EventIds -> Rows \cup {NoRow}]
    BY <2>1, <2>8 DEF TablesOK
  <2> QED BY <1>9, <2>7, <2>9 DEF AppendInsert, TablesOK, HistoryOK
<1>10. CASE AppendReprobe(w)
  <2>1. PICK i \in job[w].fresh :
           \/ Return(w)
           \/ Becomes(w, [job[w] EXCEPT !.pc = "store", !.fresh = @ \ {i},
                             !.bare = IF events[job[w].msgs[i].id].vec = "null"
                                        THEN {i} ELSE {}])
    BY <1>10 DEF AppendReprobe
  <2>2. JobOK([job[w] EXCEPT !.pc = "store", !.fresh = @ \ {i},
                  !.bare = IF events[job[w].msgs[i].id].vec = "null" THEN {i} ELSE {}])
    BY <1>0, <1>10, ZenonT(40) DEF JobOK, JobType, Labels, AppendReprobe
  <2>3. JobsOK'
    BY <2>1, <2>2, BecomesOK, ReturnOK
  <2> QED BY <1>10, <2>3 DEF AppendReprobe, ReadOnly, TablesOK, HistoryOK
<1>11. CASE AppendNotes(w)
  <2>1. JobsOK'
    BY <1>11, GotoOK DEF AppendNotes, Labels
  <2>2. job[w].session \in Sessions /\ job[w].written \in Seq(EventIds)
    BY <1>0, <1>11 DEF AppendNotes, JobOK, JobType
  <2>3. notes[job[w].session] \o job[w].written \in Seq(EventIds)
    BY <2>2, ConcatProperties DEF TablesOK
  <2> DEFINE lines == Capped(notes[job[w].session] \o job[w].written)
  <2>4. lines \in Seq(EventIds) /\ Len(lines) <= NotesCap
    BY <2>3, CappedType
  <2> HIDE DEF lines
  <2>5. \/ UNCHANGED notes
        \/ notes' = [notes EXCEPT ![job[w].session] = lines]
    BY <1>11, <2>2 DEF AppendNotes, lines, TablesOK
  <2>6. /\ notes' \in [Sessions -> Seq(EventIds)]
        /\ \A s \in Sessions : Len(notes'[s]) <= NotesCap
    BY <2>2, <2>4, <2>5 DEF TablesOK
  <2> QED BY <1>11, <2>1, <2>6 DEF AppendNotes, TablesOK, HistoryOK
<1>12. CASE AppendReply(w)
  <2>1. JobsOK'
    BY <1>12, ReturnOK DEF AppendReply
  <2>2. \A m \in SetOf(job[w].msgs) : m \in Messages
    BY <1>0, ElementOfSeq DEF JobOK, JobType, SetOf
  <2>3. acked' \subseteq AckType
    BY <1>0, <1>12, <2>2 DEF AppendReply, JobOK, JobType, AckType, Messages, HistoryOK
  <2> QED BY <1>12, <2>1, <2>3 DEF AppendReply, table, TablesOK, HistoryOK
<1> QED
  BY <1>1, <1>2, <1>3, <1>4, <1>5, <1>6, <1>7, <1>8, <1>9, <1>10, <1>11, <1>12 DEF AppendStep

\* A step of compact keeps the shape of the state.
LEMMA CompactShape ==
    ASSUME Shape, NEW w \in Workers,
           CompactStep(w) \/ \E s \in Sessions : CompactStart(w, s)
    PROVE  Shape'
<1> USE DEF Shape
<1>0. JobOK(job[w])
  BY DEF JobsOK
<1>1. ASSUME NEW s \in Sessions, CompactStart(w, s) PROVE Shape'
  <2> DEFINE j == [Idle EXCEPT !.pc = "read", !.session = s, !.user = sessions[s],
                               !.notes = notes[s]]
  <2>1. sessions[s] \in Users /\ notes[s] \in Seq(EventIds)
    BY <1>1 DEF CompactStart, TablesOK
  <2>2. j \in JobType
    BY <2>1, IdleOK DEF JobOK, JobType, Labels
  <2>3. /\ j.session = s /\ j.user = sessions[s]
        /\ j.todo = {} /\ j.fresh = {} /\ j.bare = {}
    BY DEF Idle
  <2>4. JobOK(j)
    BY <2>1, <2>2, <2>3 DEF JobOK
  <2>5. Becomes(w, j)
    BY <1>1 DEF CompactStart
  <2>6. JobsOK'
    BY <2>4, <2>5, BecomesOK
  <2> HIDE DEF j
  <2>7. TablesOK'
    BY <1>1 DEF CompactStart, table, TablesOK
  <2>8. HistoryOK'
    <3>1. UNCHANGED acked
      BY <1>1 DEF CompactStart
    <3>2. overlap' \in BOOLEAN
      BY <1>1 DEF CompactStart, HistoryOK
    <3>3. used' = [used EXCEPT !.compacts = used.compacts + 1]
      BY <1>1 DEF CompactStart
    <3> QED BY <3>1, <3>2, <3>3 DEF HistoryOK
  <2> QED BY <2>6, <2>7, <2>8
<1>2. CASE CompactRead(w)
  <2> DEFINE E == Unprocessed(job[w].session)
  <2>1. E \in SUBSET EventIds
    BY DEF Unprocessed
  <2>2. SetOf(job[w].notes) \in SUBSET EventIds
    BY <1>0, ElementOfSeq DEF JobOK, JobType, SetOf
  <2>3. \A about \in Summaries(E, job[w].notes) : about \in SUBSET EventIds
    BY <2>1, <2>2 DEF Summaries
  <2> HIDE DEF E
  <2>4. ASSUME NEW about \in Summaries(E, job[w].notes), NEW given \in SUBSET E
        PROVE  JobOK([job[w] EXCEPT !.pc = "update", !.taken = E, !.left = given,
                                    !.about = about])
    BY <1>0, <1>2, <2>1, <2>3 DEF JobOK, JobType, Labels, CompactRead
  <2>5. JobsOK'
    BY <1>2, <2>4, BecomesOK, ReturnOK DEF CompactRead, E
  <2>6. HistoryOK'
    <3>1. ASSUME NEW given \in SUBSET E, used' = [used EXCEPT !.unanswered = @ \cup (E \ given)]
          PROVE  HistoryOK'
      BY <1>2, <2>1, <3>1 DEF CompactRead, HistoryOK
    <3>2. CASE UNCHANGED used
      BY <1>2, <3>2 DEF CompactRead, HistoryOK
    <3> QED BY <1>2, <3>1, <3>2 DEF CompactRead, E
  <2> QED BY <1>2, <2>5, <2>6 DEF CompactRead, table, TablesOK
<1>3. CASE CompactUpdate(w)
  <2>1. PICK e \in job[w].left :
           \/ Return(w) /\ UNCHANGED events
           \/ /\ Stored(e)
              /\ events' = [events EXCEPT ![e].vec = "purified", ![e].purified = TRUE]
              /\ Becomes(w, [job[w] EXCEPT !.left = @ \ {e}])
    BY <1>3 DEF CompactUpdate
  <2>2. JobOK([job[w] EXCEPT !.left = @ \ {e}])
    BY <1>0 DEF JobOK, JobType
  <2>3. JobsOK'
    BY <2>1, <2>2, BecomesOK, ReturnOK
  <2>4. ASSUME NEW row \in Rows
        PROVE  [row EXCEPT !.vec = "purified", !.purified = TRUE] \in Rows
    BY DEF Rows, Vectors
  <2>5. e \in EventIds
    BY <1>0 DEF JobOK, JobType
  <2>6. ASSUME Stored(e), events' = [events EXCEPT ![e].vec = "purified", ![e].purified = TRUE]
        PROVE  events' \in [EventIds -> Rows \cup {NoRow}]
    <3>1. events[e] \in Rows
      BY <2>5, <2>6 DEF TablesOK, Stored
    <3>2. events' = [events EXCEPT ![e] = [events[e] EXCEPT !.vec = "purified",
                                                            !.purified = TRUE]]
      BY <2>5, <2>6 DEF TablesOK
    <3> QED BY <2>4, <2>5, <3>1, <3>2 DEF TablesOK
  <2>7. events' \in [EventIds -> Rows \cup {NoRow}]
    BY <2>1, <2>6 DEF TablesOK
  <2> QED BY <1>3, <2>3, <2>7 DEF CompactUpdate, TablesOK, HistoryOK
<1>4. CASE CompactInsertEpisode(w)
  <2>1. used.episodes + 1 \in Nat
    BY DEF HistoryOK
  <2>2. JobOK([job[w] EXCEPT !.pc = "narrative", !.episode = used.episodes + 1])
    BY <1>0, <1>4, <2>1 DEF JobOK, JobType, Labels, CompactInsertEpisode
  <2>3. JobsOK'
    BY <1>4, <2>2, BecomesOK DEF CompactInsertEpisode
  <2>4. /\ job[w].session \in Sessions /\ job[w].user \in Users
        /\ job[w].taken \in SUBSET EventIds /\ job[w].about \in SUBSET EventIds
    BY <1>0, <1>4 DEF CompactInsertEpisode, JobOK, JobType
  <2>5. episodes' \subseteq EpisodeType
    BY <1>4, <2>1, <2>4 DEF CompactInsertEpisode, EpisodeType, TablesOK
  <2>6. HistoryOK'
    BY <1>4, <2>1 DEF CompactInsertEpisode, HistoryOK
  <2> QED BY <1>4, <2>3, <2>5, <2>6 DEF CompactInsertEpisode, TablesOK
<1>5. CASE CompactInsertNarrative(w)
  <2>1. JobsOK'
    BY <1>5, GotoOK DEF CompactInsertNarrative, Labels
  <2>2. narratives' \subseteq NarrativeType
    BY <1>0, <1>5 DEF CompactInsertNarrative, JobOK, JobType, NarrativeType, TablesOK
  <2> QED BY <1>5, <2>1, <2>2 DEF CompactInsertNarrative, TablesOK, HistoryOK
<1>6. CASE CompactMark(w)
  <2>1. JobsOK'
    BY <1>6, GotoOK DEF CompactMark, Labels
  <2>2. ASSUME NEW row \in Rows PROVE [row EXCEPT !.processed = TRUE] \in Rows
    BY DEF Rows
  <2>3. events' \in [EventIds -> Rows \cup {NoRow}]
    BY <1>6, <2>2 DEF CompactMark, Stored, TablesOK
  <2> QED BY <1>6, <2>1, <2>3 DEF CompactMark, TablesOK, HistoryOK
<1>7. CASE CompactClear(w)
  <2>1. JobsOK'
    BY <1>7, ReturnOK DEF CompactClear
  <2>2. <<>> \in Seq(EventIds) /\ Len(<<>>) <= NotesCap
    BY ConstantsAssumption
  <2> QED BY <1>7, <2>1, <2>2 DEF CompactClear, TablesOK, HistoryOK
<1> QED
  BY <1>1, <1>2, <1>3, <1>4, <1>5, <1>6, <1>7 DEF CompactStep

\* A failure leaves the tables alone.
LEMMA FaultShape ==
    ASSUME Shape, Crash \/ \E w \in Workers : StepFails(w) \/ NotesStepFails(w)
    PROVE  Shape'
<1> USE DEF Shape
<1>1. JobsOK'
  <2>1. ASSUME NEW w \in Workers, StepFails(w) PROVE JobsOK'
    BY <2>1, ReturnOK DEF StepFails
  <2>2. ASSUME NEW w \in Workers, NotesStepFails(w) PROVE JobsOK'
    BY <2>2, ReturnOK, GotoOK DEF NotesStepFails, Labels
  <2>3. CASE Crash
    BY <2>3, IdleOK DEF Crash, JobsOK, JobOK
  <2> QED BY <2>1, <2>2, <2>3
<1>2. TablesOK'
  BY DEF Crash, StepFails, NotesStepFails, table, TablesOK
<1>3. HistoryOK'
  BY DEF Crash, StepFails, NotesStepFails, Fault, HistoryOK
<1> QED BY <1>1, <1>2, <1>3

LEMMA NextShape == Shape /\ [Next]_vars => Shape'
<1>1. ASSUME Shape, UNCHANGED vars PROVE Shape'
  BY <1>1 DEF vars, Shape, TablesOK, JobsOK, HistoryOK
<1> QED
  BY <1>1, AppendShape, CompactShape, FaultShape DEF Next

\* The tables and the operations in progress keep the shape the code gives them.
THEOREM TypeCorrect == Spec => []TypeOK
<1>1. Shape => TypeOK
  BY DEF Shape, TablesOK, JobsOK, HistoryOK, TypeOK
<1> QED BY <1>1, InitShape, NextShape, PTL DEF Spec

--------------------------------------------------------------------------------
(* No step takes back what is stored *)

Grows ==
    /\ \A s \in Sessions : sessions[s] # NoUser => sessions'[s] = sessions[s]
    /\ \A e \in EventIds : Stored(e) =>
          /\ events'[e] # NoRow
          /\ ExactReplay(events'[e], events[e], events[e])
          /\ events[e].purified => events'[e].purified
          /\ events[e].processed => events'[e].processed
          /\ events[e].vec # "null" => events'[e].vec # "null"
    /\ episodes \subseteq episodes'
    /\ narratives \subseteq narratives'
    /\ acked \subseteq acked'
    /\ used.unanswered \subseteq used'.unanswered

\* A step that leaves the tables alone takes nothing back.
LEMMA StillGrows ==
    ASSUME UNCHANGED <<sessions, events, episodes, narratives, acked>>,
           used.unanswered \subseteq used'.unanswered
    PROVE  Grows
  BY DEF Grows, ExactReplay, Stored

\* append_events takes nothing back: it inserts a session or an event only where there
\* is none, and a backfill writes a vector.
LEMMA AppendGrows ==
    ASSUME Shape, NEW w \in Workers, AppendStart(w) \/ AppendStep(w)
    PROVE  Grows
<1>0. JobOK(job[w])
  BY DEF Shape, JobsOK
<1>1. CASE AppendStart(w)
  <2>1. used'.unanswered = used.unanswered
    BY <1>1 DEF AppendStart, Shape, HistoryOK
  <2> QED BY <1>1, <2>1, StillGrows DEF AppendStart, table
<1>2. CASE AppendCreateSession(w)
  <2>1. sessions' = [sessions EXCEPT ![job[w].session] =
                        IF @ = NoUser THEN job[w].user ELSE @]
    BY <1>2 DEF AppendCreateSession
  <2>2. \A s \in Sessions : sessions[s] # NoUser => sessions'[s] = sessions[s]
    BY <2>1 DEF Shape, TablesOK
  <2> QED BY <1>2, <2>2 DEF AppendCreateSession, Grows, ExactReplay, Stored
<1>3. CASE AppendBackfill(w)
  <2>1. PICK i \in job[w].bare :
           \/ UNCHANGED events
           \/ /\ Stored(job[w].msgs[i].id)
              /\ events' = [events EXCEPT ![job[w].msgs[i].id].vec = "raw"]
    BY <1>3 DEF AppendBackfill
  <2>2. ASSUME NEW e \in EventIds, Stored(e)
        PROVE  /\ events'[e] # NoRow
               /\ ExactReplay(events'[e], events[e], events[e])
               /\ events[e].purified => events'[e].purified
               /\ events[e].processed => events'[e].processed
               /\ events[e].vec # "null" => events'[e].vec # "null"
    <3>1. events[e] \in Rows
      BY <2>2 DEF Stored, Shape, TablesOK
    <3>2. events'[e] = events[e] \/ events'[e] = [events[e] EXCEPT !.vec = "raw"]
      BY <2>1 DEF Shape, TablesOK
    <3>3. [events[e] EXCEPT !.vec = "raw"] \in Rows
      BY <3>1 DEF Rows, Vectors
    <3> QED BY <2>2, <3>1, <3>2, <3>3, ConstantsAssumption DEF Rows, ExactReplay, Stored
  <2> QED BY <1>3, <2>2 DEF AppendBackfill, Grows
<1>4. CASE AppendInsert(w)
  <2>1. PICK i \in job[w].fresh :
           \/ UNCHANGED events
           \/ /\ ~Stored(job[w].msgs[i].id)
              /\ \E r : events' = [events EXCEPT ![job[w].msgs[i].id] = r]
    BY <1>4 DEF AppendInsert, Stored
  <2>2. \A e \in EventIds : Stored(e) => events'[e] = events[e]
    BY <2>1 DEF Shape, TablesOK
  <2> QED BY <1>4, <2>2 DEF AppendInsert, Grows, ExactReplay, Stored
<1>5. CASE AppendReply(w)
  <2>1. UNCHANGED <<sessions, events, episodes, narratives>>
    BY <1>5 DEF AppendReply, table
  <2>2. acked \subseteq acked' /\ UNCHANGED used
    BY <1>5 DEF AppendReply
  <2> QED BY <2>1, <2>2 DEF Grows, ExactReplay, Stored
<1>6. ASSUME ReadOnly \/ AppendNotes(w) PROVE Grows
  BY <1>6, StillGrows DEF ReadOnly, AppendNotes
<1>7. AppendReadSession(w) \/ AppendRecheckSession(w) \/ AppendLookup(w) \/ AppendProbe(w)
         \/ AppendEmbed(w) \/ AppendReprobe(w) => ReadOnly
  BY DEF AppendReadSession, AppendRecheckSession, AppendLookup, AppendProbe, AppendEmbed,
         AppendReprobe
<1> QED BY <1>1, <1>2, <1>3, <1>4, <1>5, <1>6, <1>7 DEF AppendStep

\* compact takes nothing back: it purifies, adds an episode and a narrative, and marks.
LEMMA CompactGrows ==
    ASSUME Shape, NEW w \in Workers,
           CompactStep(w) \/ \E s \in Sessions : CompactStart(w, s)
    PROVE  Grows
<1>0. JobOK(job[w])
  BY DEF Shape, JobsOK
<1>1. ASSUME NEW s \in Sessions, CompactStart(w, s) PROVE Grows
  <2>1. used'.unanswered = used.unanswered
    BY <1>1 DEF CompactStart, Shape, HistoryOK
  <2> QED BY <1>1, <2>1, StillGrows DEF CompactStart, table
<1>2. CASE CompactRead(w)
  <2>1. used.unanswered \subseteq used'.unanswered
    BY <1>2 DEF CompactRead, Shape, HistoryOK
  <2> QED BY <1>2, <2>1, StillGrows DEF CompactRead, table
<1>3. CASE CompactUpdate(w)
  <2>1. PICK e0 \in job[w].left :
           \/ UNCHANGED events
           \/ events' = [events EXCEPT ![e0].vec = "purified", ![e0].purified = TRUE]
    BY <1>3 DEF CompactUpdate
  <2>2. ASSUME NEW e \in EventIds, Stored(e)
        PROVE  /\ events'[e] # NoRow
               /\ ExactReplay(events'[e], events[e], events[e])
               /\ events[e].purified => events'[e].purified
               /\ events[e].processed => events'[e].processed
               /\ events[e].vec # "null" => events'[e].vec # "null"
    <3>1. events[e] \in Rows
      BY <2>2 DEF Stored, Shape, TablesOK
    <3>2. \/ events'[e] = events[e]
          \/ events'[e] = [events[e] EXCEPT !.vec = "purified", !.purified = TRUE]
      BY <2>1 DEF Shape, TablesOK
    <3>3. [events[e] EXCEPT !.vec = "purified", !.purified = TRUE] \in Rows
      BY <3>1 DEF Rows, Vectors
    <3> QED BY <2>2, <3>1, <3>2, <3>3, ConstantsAssumption, ZenonT(40) DEF Rows, ExactReplay, Stored
  <2> QED BY <1>3, <2>2 DEF CompactUpdate, Grows
<1>4. CASE CompactInsertEpisode(w)
  <2>1. used'.unanswered = used.unanswered
    BY <1>4 DEF CompactInsertEpisode, Shape, HistoryOK
  <2> QED BY <1>4, <2>1 DEF CompactInsertEpisode, Grows, ExactReplay, Stored
<1>5. CASE CompactInsertNarrative(w)
  BY <1>5 DEF CompactInsertNarrative, Grows, ExactReplay, Stored
<1>6. CASE CompactMark(w)
  <2>1. ASSUME NEW e \in EventIds, Stored(e)
        PROVE  /\ events'[e] # NoRow
               /\ ExactReplay(events'[e], events[e], events[e])
               /\ events[e].purified => events'[e].purified
               /\ events[e].processed => events'[e].processed
               /\ events[e].vec # "null" => events'[e].vec # "null"
    <3>1. events[e] \in Rows
      BY <2>1 DEF Stored, Shape, TablesOK
    <3>2. events'[e] = events[e] \/ events'[e] = [events[e] EXCEPT !.processed = TRUE]
      BY <1>6 DEF CompactMark
    <3>3. [events[e] EXCEPT !.processed = TRUE] \in Rows
      BY <3>1 DEF Rows
    <3> QED BY <2>1, <3>1, <3>2, <3>3, ConstantsAssumption DEF Rows, ExactReplay, Stored
  <2> QED BY <1>6, <2>1 DEF CompactMark, Grows
<1>7. CASE CompactClear(w)
  BY <1>7, StillGrows DEF CompactClear
<1> QED BY <1>1, <1>2, <1>3, <1>4, <1>5, <1>6, <1>7 DEF CompactStep

LEMMA FaultGrows ==
    ASSUME Shape, Crash \/ \E w \in Workers : StepFails(w) \/ NotesStepFails(w)
    PROVE  Grows
<1>1. used'.unanswered = used.unanswered
  BY DEF Crash, StepFails, NotesStepFails, Fault, Shape, HistoryOK
<1> QED BY <1>1, StillGrows DEF Crash, StepFails, NotesStepFails, table

LEMMA StepGrows == Shape /\ [Next]_vars => Grows
<1>1. UNCHANGED vars => Grows
  BY StillGrows DEF vars
<1> QED BY <1>1, AppendGrows, CompactGrows, FaultGrows DEF Next

\* No interleaving of appends and compactions takes an event back in its life cycle.
THEOREM EventsKeepTheirLifeCycle == Spec => LifeCycle
<1>1. Shape /\ [Next]_vars =>
         [\A e \in EventIds : Stored(e) =>
             /\ Stored(e)'
             /\ ExactReplay(events[e]', events[e], events[e])
             /\ events[e].purified => events[e]'.purified
             /\ events[e].processed => events[e]'.processed
             /\ events[e].vec # "null" => events[e]'.vec # "null"]_vars
  BY StepGrows DEF Grows, Stored
<1> QED BY <1>1, InitShape, NextShape, PTL DEF Spec, LifeCycle

--------------------------------------------------------------------------------
(* The inductive invariant *)

Appending == {"session", "create", "recheck", "lookup", "probe", "store", "reprobe", "reply"}
Digesting == {"update", "narrative", "mark", "clear"}

\* Past the check of the session an operation works for the session's owner.
OwnsSession(j) ==
    j.pc \in {"lookup", "probe", "store", "reprobe", "reply", "read"} \cup Digesting =>
        sessions[j.session] = j.user

\* The message at position i of the batch is stored as this request sent it.
Matched(j, i) ==
    LET m == j.msgs[i]
    IN  Stored(m.id) /\ ExactReplay(events[m.id], j, m)

\* It has a vector, or the request will write one, unless its embedding failed.
Embedded(j, i) ==
    (j.pc \in {"store", "reprobe", "reply"} => j.emb) =>
        events[j.msgs[i].id].vec # "null" \/ i \in j.bare

\* What an append has established about its batch.
BatchSound(j) ==
    j.pc \in Appending =>
        /\ \A i \in 1 .. Len(j.msgs) : i \notin j.todo \cup j.fresh => Matched(j, i) /\ Embedded(j, i)
        /\ j.pc = "probe" => \A i \in j.todo : IsNext(j.todo, i) => Matched(j, i)
        /\ j.pc = "reprobe" => \A i \in j.fresh : IsNext(j.fresh, i) => Matched(j, i)
        /\ j.pc = "reprobe" => j.emb /\ j.bare = {}
        /\ j.pc \in {"store", "reprobe", "reply"} => j.todo = {}
        /\ j.pc = "reply" => j.fresh = {} /\ j.bare = {}

\* Events of one session and one owner, all stored.
Together(s, u, E) ==
    \A e \in E : Stored(e) /\ events[e].session = s /\ events[e].user = u

\* What a compaction has established about the events it took.
DigestSound(j) ==
    j.pc \in Digesting =>
        /\ j.taken # {}
        /\ Together(j.session, j.user, j.taken)
        /\ \A e \in j.taken \ j.left :
              (events[e].purified /\ events[e].vec # "null") \/ e \in used.unanswered
        /\ j.pc # "update" =>
              /\ j.left = {}
              /\ \E ep \in episodes : /\ ep.id = j.episode /\ ep.events = j.taken
                                      /\ ep.session = j.session /\ ep.user = j.user
        /\ j.pc \in {"mark", "clear"} =>
              \E n \in narratives : n.episode = j.episode /\ n.events = j.taken

JobSound(j) == OwnsSession(j) /\ BatchSound(j) /\ DigestSound(j)
JobsSound == \A w \in Workers : JobSound(job[w])

OwnedEvents == \A e \in EventIds : Stored(e) => sessions[events[e].session] = events[e].user
OwnedDigests ==
    \A d \in episodes \cup narratives :
        sessions[d.session] = d.user /\ Together(d.session, d.user, d.events)

TablesSound ==
    /\ OwnedEvents /\ OwnedDigests
    /\ ProcessedIsRemembered /\ ProcessedIsPurified
    /\ NoOrphanNarratives /\ AckedIsStored

Safe == Shape /\ JobsSound /\ TablesSound

--------------------------------------------------------------------------------
(* What an operation has established stays so while others run *)

LEMMA RowGrows ==
    ASSUME Shape, Grows, NEW e \in EventIds, Stored(e)
    PROVE  /\ Stored(e)' /\ events[e] \in Rows
           /\ events'[e].session = events[e].session
           /\ events'[e].user = events[e].user
           /\ events'[e].body = events[e].body
           /\ events[e].purified => events'[e].purified
           /\ events[e].processed => events'[e].processed
           /\ events[e].vec # "null" => events'[e].vec # "null"
  BY DEF Shape, TablesOK, Grows, Stored, ExactReplay

LEMMA TogetherGrows ==
    ASSUME Shape, Grows, NEW s, NEW u, NEW E \in SUBSET EventIds, Together(s, u, E)
    PROVE  Together(s, u, E)'
  BY RowGrows DEF Together

LEMMA MessageType ==
    ASSUME NEW j, JobOK(j), NEW i \in 1 .. Len(j.msgs)
    PROVE  j.msgs[i].id \in EventIds /\ j.msgs[i].body \in Bodies
<1>1. j.msgs \in Seq(Messages)
  BY DEF JobOK, JobType
<1>2. j.msgs[i] \in Messages
  BY <1>1, ElementOfSeq
<1> QED BY <1>2 DEF Messages

LEMMA MatchedGrows ==
    ASSUME Shape, Grows, NEW j, JobOK(j), NEW i \in 1 .. Len(j.msgs), Matched(j, i)
    PROVE  Matched(j, i)' /\ (Embedded(j, i) => Embedded(j, i)')
  BY MessageType, RowGrows DEF Matched, Embedded, ExactReplay

LEMMA BatchGrows ==
    ASSUME Shape, Grows, NEW j, JobOK(j), BatchSound(j)
    PROVE  BatchSound(j)'
<1>1. j.todo \subseteq 1 .. Len(j.msgs) /\ j.fresh \subseteq 1 .. Len(j.msgs)
  BY DEF JobOK
<1> QED BY <1>1, MatchedGrows DEF BatchSound, IsNext

LEMMA DigestGrows ==
    ASSUME Shape, Grows, NEW j, JobOK(j), DigestSound(j)
    PROVE  DigestSound(j)'
<1>1. j.taken \in SUBSET EventIds
  BY DEF JobOK, JobType
<1> SUFFICES ASSUME j.pc \in Digesting PROVE DigestSound(j)'
  BY DEF DigestSound
<1>2. Together(j.session, j.user, j.taken)'
  BY <1>1, TogetherGrows DEF DigestSound
<1>3. \A e \in j.taken \ j.left :
         (events'[e].purified /\ events'[e].vec # "null") \/ e \in used'.unanswered
  BY <1>1, RowGrows DEF DigestSound, Together, Grows
<1>4. j.pc # "update" =>
         /\ j.left = {}
         /\ \E ep \in episodes' : /\ ep.id = j.episode /\ ep.events = j.taken
                                  /\ ep.session = j.session /\ ep.user = j.user
  BY DEF DigestSound, Grows
<1>5. j.pc \in {"mark", "clear"} =>
         \E n \in narratives' : n.episode = j.episode /\ n.events = j.taken
  BY DEF DigestSound, Grows
<1> QED BY <1>2, <1>3, <1>4, <1>5 DEF DigestSound

LEMMA OwnerGrows ==
    ASSUME Grows, NEW j, JobOK(j), OwnsSession(j)
    PROVE  OwnsSession(j)'
  BY ConstantsAssumption DEF OwnsSession, JobOK, Grows, Digesting

LEMMA JobGrows ==
    ASSUME Shape, Grows, NEW j, JobOK(j), JobSound(j)
    PROVE  JobSound(j)'
  BY BatchGrows, DigestGrows, OwnerGrows DEF JobSound

\* A step of thread w that leaves a sound operation on its stack leaves all stacks sound.
LEMMA BecomesSound ==
    ASSUME Shape, JobsSound, Grows, NEW w \in Workers, NEW j, JobSound(j)', Becomes(w, j)
    PROVE  JobsSound'
<1>1. ASSUME NEW v \in Workers, v # w PROVE JobSound(job[v])'
  <2>1. PICK k : k = job[v]
    OBVIOUS
  <2>2. JobSound(k)'
    BY <2>1, JobGrows DEF JobsSound, Shape, JobsOK
  <2>3. job'[v] = k
    BY <1>1, <2>1 DEF Becomes, Shape, JobsOK
  <2> QED BY <2>2, <2>3 DEF JobSound
<1>2. job'[w] = j
  BY DEF Becomes, Shape, JobsOK
<1>3. JobSound(job[w])'
  BY <1>2
<1> QED BY <1>1, <1>3 DEF JobsSound

\* A step that stores at most new events of a session's owner, and processes, digests
\* and acknowledges nothing.
Quiet ==
    /\ \A e \in EventIds : Stored(e)' =>
          \/ Stored(e) /\ (events'[e].processed => events[e].processed)
          \/ ~events'[e].processed /\ sessions'[events'[e].session] = events'[e].user
    /\ UNCHANGED <<episodes, narratives, acked>>

LEMMA OwnedDigestsGrow ==
    ASSUME Shape, Grows, OwnedDigests,
           NEW d \in episodes \cup narratives
    PROVE  sessions'[d.session] = d.user /\ Together(d.session, d.user, d.events)'
<1>1. d.session \in Sessions /\ d.user \in Users /\ d.events \in SUBSET EventIds
  BY DEF Shape, TablesOK, EpisodeType, NarrativeType
<1>2. sessions[d.session] = d.user /\ Together(d.session, d.user, d.events)
  BY DEF OwnedDigests
<1>3. sessions'[d.session] = d.user
  BY <1>1, <1>2, ConstantsAssumption DEF Grows
<1> QED BY <1>1, <1>2, <1>3, TogetherGrows

LEMMA AckedGrow ==
    ASSUME Shape, Grows, AckedIsStored, NEW a \in acked
    PROVE  /\ Stored(a.id)' /\ ExactReplay(events'[a.id], a, a)
           /\ a.embedded => events'[a.id].vec # "null"
<1>1. a.id \in EventIds
  BY DEF Shape, HistoryOK, AckType
<1> QED BY <1>1, RowGrows DEF AckedIsStored, ExactReplay

LEMMA QuietTables ==
    ASSUME Shape, Grows, TablesSound, Quiet
    PROVE  TablesSound'
<1>1. OwnedEvents'
  <2> SUFFICES ASSUME NEW e \in EventIds, Stored(e)', Stored(e)
               PROVE  sessions'[events'[e].session] = events'[e].user
    BY DEF OwnedEvents, Quiet
  <2>1. events[e] \in Rows /\ events'[e].session = events[e].session
           /\ events'[e].user = events[e].user
    BY RowGrows
  <2> QED BY <2>1, ConstantsAssumption DEF TablesSound, OwnedEvents, Grows, Rows
<1>2. OwnedDigests'
  BY OwnedDigestsGrow DEF OwnedDigests, Quiet, TablesSound
<1>3. ProcessedIsRemembered'
  BY DEF ProcessedIsRemembered, Quiet, TablesSound
<1>4. ProcessedIsPurified'
  BY RowGrows DEF ProcessedIsPurified, Quiet, TablesSound, Grows
<1>5. NoOrphanNarratives'
  BY DEF NoOrphanNarratives, Quiet, TablesSound
<1>6. AckedIsStored'
  BY AckedGrow DEF AckedIsStored, Quiet, TablesSound, Stored
<1> QED BY <1>1, <1>2, <1>3, <1>4, <1>5, <1>6 DEF TablesSound

LEMMA UnchangedQuiet ==
    ASSUME UNCHANGED <<events, episodes, narratives, acked>>
    PROVE  Quiet
  BY DEF Quiet, Stored

LEMMA IdleSound == JobSound(Idle)'
  BY DEF Idle, JobSound, OwnsSession, BatchSound, DigestSound, Appending, Digesting

LEMMA ReturnSound ==
    ASSUME Shape, JobsSound, Grows, NEW w \in Workers, Return(w)
    PROVE  JobsSound'
  BY IdleSound, BecomesSound DEF Return

LEMMA QuietReturn ==
    ASSUME Safe, Grows, Quiet, NEW w \in Workers, Return(w)
    PROVE  JobsSound' /\ TablesSound'
  BY ReturnSound, QuietTables DEF Safe

LEMMA QuietBecomes ==
    ASSUME Safe, Grows, Quiet, NEW w \in Workers, NEW k, JobOK(k), JobSound(k), Becomes(w, k)
    PROVE  JobsSound' /\ TablesSound'
  BY JobGrows, BecomesSound, QuietTables DEF Safe

\* Only the label of an operation changes.
LEMMA Relabel ==
    ASSUME NEW j, JobOK(j), j.pc # "idle", NEW l \in Labels, NEW k, k = [j EXCEPT !.pc = l]
    PROVE  /\ JobOK(k)
           /\ k.pc = l /\ k.session = j.session /\ k.user = j.user /\ k.msgs = j.msgs
           /\ k.todo = j.todo /\ k.fresh = j.fresh /\ k.bare = j.bare /\ k.emb = j.emb
           /\ k.taken = j.taken /\ k.left = j.left /\ k.episode = j.episode
<1>1. /\ k.pc = l /\ k.session = j.session /\ k.user = j.user /\ k.msgs = j.msgs
      /\ k.todo = j.todo /\ k.fresh = j.fresh /\ k.bare = j.bare /\ k.emb = j.emb
      /\ k.taken = j.taken /\ k.left = j.left /\ k.episode = j.episode /\ k \in JobType
  BY DEF JobOK, JobType
<1> QED BY <1>1 DEF JobOK

--------------------------------------------------------------------------------
(* append_events *)

\* A request whose batch is stored may answer, whether or not its notes were appended.
LEMMA NotesSafe ==
    ASSUME Safe, Grows, Quiet, NEW w \in Workers, Goto(w, "reply"),
           job[w].pc = "store", job[w].bare = {}, job[w].fresh = {}
    PROVE  JobsSound' /\ TablesSound'
<1>1. JobOK(job[w]) /\ JobSound(job[w])
  BY DEF Safe, Shape, JobsOK, JobsSound
<1>2. PICK k : k = [job[w] EXCEPT !.pc = "reply"]
  OBVIOUS
<1>3. /\ JobOK(k)
      /\ k.pc = "reply" /\ k.session = job[w].session /\ k.user = job[w].user
      /\ k.msgs = job[w].msgs /\ k.todo = job[w].todo /\ k.fresh = job[w].fresh
      /\ k.bare = job[w].bare /\ k.emb = job[w].emb
  BY <1>1, <1>2, Relabel DEF Labels
<1>4. OwnsSession(k) /\ DigestSound(k)
  BY <1>1, <1>3 DEF JobSound, OwnsSession, DigestSound, Digesting
<1>5. BatchSound(k)
  <2>1. ASSUME NEW n \in 1 .. Len(k.msgs), n \notin k.todo \cup k.fresh
        PROVE  Matched(k, n) /\ Embedded(k, n)
    <3>1. Matched(job[w], n) /\ Embedded(job[w], n)
      BY <1>1, <1>3, <2>1 DEF JobSound, BatchSound, Appending
    <3> QED BY <1>3, <3>1 DEF Matched, Embedded, ExactReplay
  <2>2. k.todo = {}
    BY <1>1, <1>3 DEF JobSound, BatchSound, Appending
  <2> QED BY <1>3, <2>1, <2>2 DEF BatchSound
<1> QED BY <1>2, <1>3, <1>4, <1>5, QuietBecomes DEF Goto, JobSound

LEMMA AppendSafe ==
    ASSUME Safe, Shape', Grows, NEW w \in Workers, AppendStart(w) \/ AppendStep(w)
    PROVE  JobsSound' /\ TablesSound'
<1> USE DEF Safe
<1>0. JobOK(job[w]) /\ JobSound(job[w])
  BY DEF Shape, JobsOK, JobsSound
<1>1. CASE AppendStart(w)
  <2>1. PICK r \in Requests :
           Becomes(w, [Idle EXCEPT !.pc = "session", !.session = r.session, !.user = r.user,
                                   !.msgs = r.msgs, !.todo = 1 .. Len(r.msgs)])
    BY <1>1 DEF AppendStart
  <2> DEFINE j == [Idle EXCEPT !.pc = "session", !.session = r.session, !.user = r.user,
                               !.msgs = r.msgs, !.todo = 1 .. Len(r.msgs)]
  <2>2. JobSound(j)'
    BY DEF Idle, JobSound, OwnsSession, BatchSound, DigestSound, Digesting
  <2>3. JobsSound'
    BY <2>1, <2>2, BecomesSound
  <2>4. Quiet
    BY <1>1, UnchangedQuiet DEF AppendStart, table
  <2> QED BY <2>3, <2>4, QuietTables
<1>2. CASE AppendReadSession(w)
  <2>1. Quiet
    BY <1>2, UnchangedQuiet DEF AppendReadSession, ReadOnly
  <2>2. CASE Return(w)
    BY <2>1, <2>2, QuietReturn
  <2>3. ASSUME NEW l \in {"create", "lookup"}, Goto(w, l),
               l = "lookup" => SessionAdmits(job[w].session, job[w].user)
        PROVE  JobsSound' /\ TablesSound'
    <3>1. PICK k : k = [job[w] EXCEPT !.pc = l]
      OBVIOUS
    <3>2. /\ JobOK(k)
          /\ k.pc = l /\ k.session = job[w].session /\ k.user = job[w].user
          /\ k.msgs = job[w].msgs /\ k.todo = job[w].todo /\ k.fresh = job[w].fresh
          /\ k.bare = job[w].bare /\ k.emb = job[w].emb
      BY <1>0, <1>2, <3>1, Relabel DEF AppendReadSession, Labels
    <3>3. OwnsSession(k) /\ DigestSound(k)
      BY <2>3, <3>2 DEF OwnsSession, DigestSound, Digesting, SessionAdmits
    <3>4. BatchSound(k)
      BY <1>0, <1>2, <3>2, SMTT(30) DEF AppendReadSession, JobSound, BatchSound, Appending, Matched,
         Embedded, ExactReplay
    <3> QED BY <2>1, <2>3, <3>1, <3>2, <3>3, <3>4, QuietBecomes DEF Goto, JobSound
  <2> QED BY <1>2, <2>2, <2>3 DEF AppendReadSession
<1>3. CASE AppendCreateSession(w)
  <2>1. Quiet
    BY <1>3, UnchangedQuiet DEF AppendCreateSession
  <2>2. PICK k : k = [job[w] EXCEPT !.pc = "recheck"]
    OBVIOUS
  <2>3. /\ JobOK(k)
        /\ k.pc = "recheck" /\ k.session = job[w].session /\ k.user = job[w].user
        /\ k.msgs = job[w].msgs /\ k.todo = job[w].todo /\ k.fresh = job[w].fresh
        /\ k.bare = job[w].bare /\ k.emb = job[w].emb
    BY <1>0, <1>3, <2>2, Relabel DEF AppendCreateSession, Labels
  <2>4. OwnsSession(k) /\ DigestSound(k)
    BY <2>3 DEF OwnsSession, DigestSound, Digesting
  <2>5. BatchSound(k)
    BY <1>0, <1>3, <2>3, SMTT(30) DEF AppendCreateSession, JobSound, BatchSound, Appending, Matched,
       Embedded, ExactReplay
  <2> QED BY <1>3, <2>1, <2>2, <2>3, <2>4, <2>5, QuietBecomes
          DEF AppendCreateSession, Goto, JobSound
<1>4. CASE AppendRecheckSession(w)
  <2>1. Quiet
    BY <1>4, UnchangedQuiet DEF AppendRecheckSession, ReadOnly
  <2>2. CASE Return(w)
    BY <2>1, <2>2, QuietReturn
  <2>3. CASE SessionAdmits(job[w].session, job[w].user) /\ Goto(w, "lookup")
    <3>1. PICK k : k = [job[w] EXCEPT !.pc = "lookup"]
      OBVIOUS
    <3>2. /\ JobOK(k)
          /\ k.pc = "lookup" /\ k.session = job[w].session /\ k.user = job[w].user
          /\ k.msgs = job[w].msgs /\ k.todo = job[w].todo /\ k.fresh = job[w].fresh
          /\ k.bare = job[w].bare /\ k.emb = job[w].emb
      BY <1>0, <1>4, <3>1, Relabel DEF AppendRecheckSession, Labels
    <3>3. OwnsSession(k) /\ DigestSound(k)
      BY <2>3, <3>2 DEF OwnsSession, DigestSound, Digesting, SessionAdmits
    <3>4. BatchSound(k)
      BY <1>0, <1>4, <3>2, SMTT(30) DEF AppendRecheckSession, JobSound, BatchSound, Appending, Matched,
         Embedded, ExactReplay
    <3> QED BY <2>1, <2>3, <3>1, <3>2, <3>3, <3>4, QuietBecomes DEF Goto, JobSound
  <2> QED BY <1>4, <2>2, <2>3 DEF AppendRecheckSession
<1>5. CASE AppendLookup(w)
  <2>1. Quiet
    BY <1>5, UnchangedQuiet DEF AppendLookup, ReadOnly
  <2>2. PICK i \in job[w].todo :
           /\ IsNext(job[w].todo, i)
           /\ \/ Return(w)
              \/ Becomes(w, [job[w] EXCEPT !.fresh = @ \cup {i}, !.todo = @ \ {i}])
              \/ Matched(job[w], i) /\ Goto(w, "probe")
    BY <1>5 DEF AppendLookup, Matched, Stored
  <2>3. job[w].pc = "lookup"
    BY <1>5 DEF AppendLookup
  <2>4. CASE Becomes(w, [job[w] EXCEPT !.fresh = @ \cup {i}, !.todo = @ \ {i}])
    <3>1. PICK k : k = [job[w] EXCEPT !.fresh = @ \cup {i}, !.todo = @ \ {i}]
      OBVIOUS
    <3>2. JobOK(k)
      BY <1>0, <3>1, ZenonT(40) DEF JobOK, JobType
    <3>3. /\ k.pc = "lookup" /\ k.session = job[w].session /\ k.user = job[w].user
          /\ k.msgs = job[w].msgs /\ k.todo = job[w].todo \ {i}
          /\ k.fresh = job[w].fresh \cup {i} /\ k.bare = job[w].bare /\ k.emb = job[w].emb
      BY <1>0, <2>3, <3>1 DEF JobOK, JobType
    <3>4. OwnsSession(k) /\ DigestSound(k)
      BY <1>0, <2>3, <3>3 DEF JobSound, OwnsSession, DigestSound, Digesting
    <3>5. BatchSound(k)
      BY <1>0, <2>3, <3>3 DEF JobSound, BatchSound, Appending, Matched, Embedded, ExactReplay
    <3> QED BY <2>1, <2>4, <3>1, <3>2, <3>4, <3>5, QuietBecomes DEF JobSound
  <2>5. CASE Matched(job[w], i) /\ Goto(w, "probe")
    <3>1. PICK k : k = [job[w] EXCEPT !.pc = "probe"]
      OBVIOUS
    <3>2. /\ JobOK(k)
          /\ k.pc = "probe" /\ k.session = job[w].session /\ k.user = job[w].user
          /\ k.msgs = job[w].msgs /\ k.todo = job[w].todo /\ k.fresh = job[w].fresh
          /\ k.bare = job[w].bare /\ k.emb = job[w].emb
      BY <1>0, <2>3, <3>1, Relabel DEF Labels
    <3>3. OwnsSession(k) /\ DigestSound(k)
      BY <1>0, <2>3, <3>2 DEF JobSound, OwnsSession, DigestSound, Digesting
    <3>4. \A n \in k.todo : IsNext(k.todo, n) => n = i
      BY <1>0, <2>2, <3>2 DEF IsNext, JobOK, JobType
    <3>5. ASSUME NEW n \in 1 .. Len(k.msgs), n \notin k.todo \cup k.fresh
          PROVE  Matched(k, n) /\ Embedded(k, n)
      BY <1>0, <2>3, <3>2, <3>5
         DEF JobSound, BatchSound, Appending, Matched, Embedded, ExactReplay
    <3>6. Matched(k, i)
      BY <2>5, <3>2 DEF Matched, ExactReplay
    <3>7. BatchSound(k)
      BY <3>2, <3>4, <3>5, <3>6 DEF BatchSound
    <3> QED BY <2>1, <2>5, <3>1, <3>2, <3>3, <3>7, QuietBecomes DEF Goto, JobSound
  <2> QED BY <2>1, <2>2, <2>4, <2>5, QuietReturn
<1>6. CASE AppendProbe(w)
  <2>1. Quiet
    BY <1>6, UnchangedQuiet DEF AppendProbe, ReadOnly
  <2>2. PICK i \in job[w].todo :
           /\ IsNext(job[w].todo, i)
           /\ \/ Return(w)
              \/ Becomes(w, [job[w] EXCEPT !.pc = "lookup", !.todo = @ \ {i},
                                !.bare = IF events[job[w].msgs[i].id].vec = "null"
                                           THEN @ \cup {i} ELSE @])
    BY <1>6 DEF AppendProbe
  <2> DEFINE nulls == IF events[job[w].msgs[i].id].vec = "null"
                        THEN job[w].bare \cup {i} ELSE job[w].bare
  <2>3. PICK k : k = [job[w] EXCEPT !.pc = "lookup", !.todo = @ \ {i}, !.bare = nulls]
    OBVIOUS
  <2>4. JobOK(k)
    BY <1>0, <1>6, <2>3, ZenonT(40) DEF JobOK, JobType, Labels, AppendProbe
  <2>5. /\ k.pc = "lookup" /\ k.session = job[w].session /\ k.user = job[w].user
        /\ k.msgs = job[w].msgs /\ k.todo = job[w].todo \ {i}
        /\ k.fresh = job[w].fresh /\ k.bare = nulls /\ k.emb = job[w].emb
    BY <1>0, <2>3 DEF JobOK, JobType
  <2>6. OwnsSession(k) /\ DigestSound(k)
    BY <1>0, <1>6, <2>5 DEF AppendProbe, JobSound, OwnsSession, DigestSound, Digesting
  <2>7. Matched(job[w], i)
    BY <1>0, <1>6, <2>2 DEF AppendProbe, JobSound, BatchSound, Appending
  <2>8. ASSUME NEW n \in 1 .. Len(k.msgs), n \notin k.todo \cup k.fresh
        PROVE  Matched(k, n) /\ Embedded(k, n)
    <3>1. CASE n = i
      BY <2>5, <2>7, <3>1 DEF Matched, Embedded, ExactReplay
    <3>2. CASE n # i
      <4>1. Matched(job[w], n) /\ Embedded(job[w], n)
        BY <1>0, <1>6, <2>5, <2>8, <3>2 DEF AppendProbe, JobSound, BatchSound, Appending
      <4> QED BY <1>6, <2>5, <4>1 DEF AppendProbe, Matched, Embedded, ExactReplay
    <3> QED BY <3>1, <3>2
  <2>9. BatchSound(k)
    BY <2>5, <2>8 DEF BatchSound
  <2>10. Return(w) \/ Becomes(w, k)
    BY <2>2, <2>3
  <2> QED BY <2>1, <2>4, <2>6, <2>9, <2>10, QuietBecomes, QuietReturn DEF JobSound
<1>7. CASE AppendEmbed(w)
  <2>1. Quiet
    BY <1>7, UnchangedQuiet DEF AppendEmbed, ReadOnly
  <2>2. PICK ok \in BOOLEAN :
           Becomes(w, [job[w] EXCEPT !.pc = "store", !.emb = ok,
                                     !.bare = IF ok THEN @ ELSE {}])
    BY <1>7 DEF AppendEmbed
  <2>3. PICK k : k = [job[w] EXCEPT !.pc = "store", !.emb = ok,
                                    !.bare = IF ok THEN @ ELSE {}]
    OBVIOUS
  <2>4. JobOK(k)
    BY <1>0, <1>7, <2>3 DEF JobOK, JobType, Labels, AppendEmbed
  <2>5. /\ k.pc = "store" /\ k.session = job[w].session /\ k.user = job[w].user
        /\ k.msgs = job[w].msgs /\ k.todo = {} /\ k.fresh = job[w].fresh
        /\ k.emb = ok /\ (ok => k.bare = job[w].bare)
    BY <1>0, <1>7, <2>3 DEF JobOK, JobType, AppendEmbed
  <2>6. OwnsSession(k) /\ DigestSound(k)
    BY <1>0, <1>7, <2>5 DEF AppendEmbed, JobSound, OwnsSession, DigestSound, Digesting
  <2>7. BatchSound(k)
    <3>1. ASSUME NEW n \in 1 .. Len(k.msgs), n \notin k.todo \cup k.fresh
          PROVE  Matched(k, n) /\ Embedded(k, n)
      <4>1. Matched(job[w], n) /\ Embedded(job[w], n)
        BY <1>0, <1>7, <2>5, <3>1 DEF AppendEmbed, JobSound, BatchSound, Appending
      <4> QED BY <1>7, <2>5, <4>1 DEF AppendEmbed, Matched, Embedded, ExactReplay
    <3> QED BY <2>5, <3>1 DEF BatchSound
  <2> QED BY <2>1, <2>2, <2>3, <2>4, <2>6, <2>7, QuietBecomes DEF JobSound
<1>8. CASE AppendBackfill(w)
  <2>1. PICK i \in job[w].bare :
           \/ Return(w) /\ UNCHANGED events
           \/ /\ Stored(job[w].msgs[i].id)
              /\ events' = [events EXCEPT ![job[w].msgs[i].id].vec = "raw"]
              /\ Becomes(w, [job[w] EXCEPT !.bare = @ \ {i}])
    BY <1>8 DEF AppendBackfill
  <2>2. job[w].pc = "store" /\ UNCHANGED <<sessions, episodes, narratives, acked>>
    BY <1>8 DEF AppendBackfill
  <2>3. CASE Return(w) /\ UNCHANGED events
    BY <2>2, <2>3, UnchangedQuiet, QuietReturn
  <2>4. CASE /\ Stored(job[w].msgs[i].id)
             /\ events' = [events EXCEPT ![job[w].msgs[i].id].vec = "raw"]
             /\ Becomes(w, [job[w] EXCEPT !.bare = @ \ {i}])
    <3>1. PICK j : j = job[w]
      OBVIOUS
    <3>2. JobOK(j) /\ JobSound(j)' /\ i \in 1 .. Len(j.msgs)
      BY <1>0, <3>1, JobGrows DEF JobOK
    <3>3. j.msgs[i].id \in EventIds
      BY <3>2, MessageType
    <3>4. events[j.msgs[i].id] \in Rows
      BY <2>4, <3>1, <3>3 DEF Stored, Shape, TablesOK
    <3>5. /\ events' = [events EXCEPT ![j.msgs[i].id] = [events[j.msgs[i].id] EXCEPT !.vec = "raw"]]
          /\ events'[j.msgs[i].id] = [events[j.msgs[i].id] EXCEPT !.vec = "raw"]
      BY <2>4, <3>1, <3>3 DEF Shape, TablesOK
    <3>6. /\ events'[j.msgs[i].id].vec = "raw"
          /\ events'[j.msgs[i].id].processed = events[j.msgs[i].id].processed
      BY <3>4, <3>5 DEF Rows
    <3>7. Quiet
      BY <2>2, <2>4, <3>1, <3>3, <3>5, <3>6 DEF Quiet, Stored, Shape, TablesOK
    <3>8. PICK k : k = [j EXCEPT !.bare = @ \ {i}]
      OBVIOUS
    <3>9. /\ k.pc = "store" /\ k.session = j.session /\ k.user = j.user
          /\ k.msgs = j.msgs /\ k.todo = j.todo /\ k.fresh = j.fresh /\ k.emb = j.emb
          /\ k.bare = j.bare \ {i} /\ j.pc = "store"
      BY <2>2, <3>1, <3>2, <3>8 DEF JobOK, JobType
    <3>10. OwnsSession(k)' /\ DigestSound(k)'
      BY <3>2, <3>9 DEF JobSound, OwnsSession, DigestSound, Digesting
    <3>11. ASSUME NEW n \in 1 .. Len(k.msgs), n \notin k.todo \cup k.fresh
           PROVE  Matched(k, n)' /\ Embedded(k, n)'
      <4>1. Matched(j, n)' /\ Embedded(j, n)'
        BY <3>2, <3>9, <3>11 DEF JobSound, BatchSound, Appending
      <4> QED BY <3>6, <3>9, <4>1 DEF Matched, Embedded, ExactReplay
    <3>12. BatchSound(k)'
      BY <3>2, <3>9, <3>11 DEF JobSound, BatchSound, Appending
    <3>13. JobsSound'
      BY <2>4, <3>1, <3>8, <3>10, <3>12, BecomesSound DEF JobSound
    <3> QED BY <3>7, <3>13, QuietTables
  <2> QED BY <2>1, <2>3, <2>4
<1>9. CASE AppendInsert(w)
  <2> DEFINE row(m) == [session |-> job[w].session, user |-> job[w].user, body |-> m.body,
                        vec |-> IF job[w].emb THEN "raw" ELSE "null",
                        purified |-> FALSE, processed |-> FALSE]
  <2>1. PICK i \in job[w].fresh :
           /\ IsNext(job[w].fresh, i)
           /\ \/ /\ events' = [events EXCEPT ![job[w].msgs[i].id] = row(job[w].msgs[i])]
                 /\ ~Stored(job[w].msgs[i].id)
                 /\ Becomes(w, [job[w] EXCEPT !.fresh = @ \ {i},
                                              !.written = Append(@, job[w].msgs[i].id)])
              \/ Matched(job[w], i) /\ job[w].emb /\ Goto(w, "reprobe") /\ UNCHANGED events
              \/ /\ Matched(job[w], i) /\ ~job[w].emb /\ UNCHANGED events
                 /\ Becomes(w, [job[w] EXCEPT !.fresh = @ \ {i}])
              \/ Return(w) /\ UNCHANGED events
    BY <1>9 DEF AppendInsert, Matched, Stored
  <2>2. /\ job[w].pc = "store" /\ job[w].bare = {}
        /\ UNCHANGED <<sessions, episodes, narratives, acked>>
    BY <1>9 DEF AppendInsert
  <2>3. i \in 1 .. Len(job[w].msgs) /\ job[w].todo = {}
    BY <1>0, <2>2 DEF JobOK, JobSound, BatchSound, Appending
  <2>4. /\ job[w].msgs[i].id \in EventIds
        /\ Append(job[w].written, job[w].msgs[i].id) \in Seq(EventIds)
    BY <1>0, <2>3, MessageType, AppendProperties DEF JobOK, JobType
  <2>5. ASSUME events' = [events EXCEPT ![job[w].msgs[i].id] = row(job[w].msgs[i])],
               ~Stored(job[w].msgs[i].id),
               Becomes(w, [job[w] EXCEPT !.fresh = @ \ {i},
                                         !.written = Append(@, job[w].msgs[i].id)])
        PROVE  JobsSound' /\ TablesSound'
    <3>1. PICK j : j = job[w]
      OBVIOUS
    <3>2. JobOK(j) /\ JobSound(j)' /\ j.pc = "store" /\ j.bare = {}
      BY <1>0, <2>2, <3>1, JobGrows
    <3>3. events'[j.msgs[i].id] = [session |-> j.session, user |-> j.user,
             body |-> j.msgs[i].body, vec |-> IF j.emb THEN "raw" ELSE "null",
             purified |-> FALSE, processed |-> FALSE]
      BY <2>4, <2>5, <3>1 DEF Shape, TablesOK
    <3>4. /\ events'[j.msgs[i].id].session = j.session /\ events'[j.msgs[i].id].user = j.user
          /\ events'[j.msgs[i].id].body = j.msgs[i].body
          /\ (j.emb => events'[j.msgs[i].id].vec # "null")
          /\ ~events'[j.msgs[i].id].processed
      BY <3>3
    <3>5. sessions'[j.session] = j.user
      BY <3>2 DEF JobSound, OwnsSession
    <3>6. Quiet
      BY <2>2, <2>4, <2>5, <3>1, <3>4, <3>5 DEF Quiet, Stored, Shape, TablesOK
    <3>7. PICK k : k = [j EXCEPT !.fresh = @ \ {i}, !.written = Append(@, j.msgs[i].id)]
      OBVIOUS
    <3>8. /\ k.pc = "store" /\ k.session = j.session /\ k.user = j.user
          /\ k.msgs = j.msgs /\ k.todo = j.todo /\ k.fresh = j.fresh \ {i} /\ k.emb = j.emb
          /\ k.bare = {}
      BY <3>2, <3>7 DEF JobOK, JobType
    <3>9. OwnsSession(k)' /\ DigestSound(k)'
      BY <3>2, <3>8 DEF JobSound, OwnsSession, DigestSound, Digesting
    <3>10. events'[j.msgs[i].id] # NoRow
      <4>1. j.session \in Sessions /\ j.user \in Users /\ j.emb \in BOOLEAN
        BY <3>2 DEF JobOK, JobType
      <4>2. j.msgs[i].body \in Bodies
        BY <2>3, <3>1, <3>2, MessageType
      <4>3. events'[j.msgs[i].id] \in Rows
        BY <3>3, <4>1, <4>2 DEF Rows, Vectors
      <4> QED BY <4>3, ConstantsAssumption
    <3>11. ASSUME NEW n \in 1 .. Len(k.msgs), n \notin k.todo \cup k.fresh
           PROVE  Matched(k, n)' /\ Embedded(k, n)'
      <4>1. CASE n = i
        BY <3>4, <3>8, <3>10, <4>1 DEF Matched, Embedded, ExactReplay, Stored
      <4>2. CASE n # i
        <5>1. Matched(j, n)' /\ Embedded(j, n)'
          BY <3>2, <3>8, <3>11, <4>2 DEF JobSound, BatchSound, Appending
        <5> QED BY <3>2, <3>8, <5>1 DEF Matched, Embedded, ExactReplay
      <4> QED BY <4>1, <4>2
    <3>12. BatchSound(k)'
      BY <3>2, <3>8, <3>11 DEF JobSound, BatchSound, Appending
    <3>13. JobsSound'
      BY <2>5, <3>1, <3>7, <3>9, <3>12, BecomesSound DEF JobSound
    <3> QED BY <3>6, <3>13, QuietTables
  <2>6. ASSUME Matched(job[w], i), job[w].emb, Goto(w, "reprobe"), UNCHANGED events
        PROVE  JobsSound' /\ TablesSound'
    <3>1. PICK k : k = [job[w] EXCEPT !.pc = "reprobe"]
      OBVIOUS
    <3>2. /\ JobOK(k)
          /\ k.pc = "reprobe" /\ k.session = job[w].session /\ k.user = job[w].user
          /\ k.msgs = job[w].msgs /\ k.todo = job[w].todo /\ k.fresh = job[w].fresh
          /\ k.bare = job[w].bare /\ k.emb = job[w].emb
      BY <1>0, <2>2, <3>1, Relabel DEF Labels
    <3>3. OwnsSession(k) /\ DigestSound(k)
      BY <1>0, <2>2, <3>2 DEF JobSound, OwnsSession, DigestSound, Digesting
    <3>4. \A n \in k.fresh : IsNext(k.fresh, n) => n = i
      BY <1>0, <2>1, <3>2 DEF IsNext, JobOK, JobType
    <3>5. ASSUME NEW n \in 1 .. Len(k.msgs), n \notin k.todo \cup k.fresh
          PROVE  Matched(k, n) /\ Embedded(k, n)
      <4>1. Matched(job[w], n) /\ Embedded(job[w], n)
        BY <1>0, <2>2, <3>2, <3>5 DEF JobSound, BatchSound, Appending
      <4> QED BY <2>6, <3>2, <4>1 DEF Matched, Embedded, ExactReplay
    <3>6. Matched(k, i)
      BY <2>6, <3>2 DEF Matched, ExactReplay
    <3>7. BatchSound(k)
      BY <2>2, <2>3, <2>6, <3>2, <3>4, <3>5, <3>6 DEF BatchSound
    <3>8. Quiet
      BY <2>2, <2>6, UnchangedQuiet
    <3> QED BY <2>6, <3>1, <3>2, <3>3, <3>7, <3>8, QuietBecomes DEF Goto, JobSound
  <2>7. ASSUME Matched(job[w], i), ~job[w].emb, UNCHANGED events,
               Becomes(w, [job[w] EXCEPT !.fresh = @ \ {i}])
        PROVE  JobsSound' /\ TablesSound'
    <3>1. PICK k : k = [job[w] EXCEPT !.fresh = @ \ {i}]
      OBVIOUS
    <3>2. /\ k.pc = "store" /\ k.session = job[w].session /\ k.user = job[w].user
          /\ k.msgs = job[w].msgs /\ k.todo = {} /\ k.fresh = job[w].fresh \ {i}
          /\ k.bare = {} /\ ~k.emb
      BY <1>0, <2>2, <2>3, <2>7, <3>1 DEF JobOK, JobType
    <3>3. JobOK(k)
      BY <1>0, <3>1 DEF JobOK, JobType
    <3>4. OwnsSession(k) /\ DigestSound(k)
      BY <1>0, <2>2, <3>2 DEF JobSound, OwnsSession, DigestSound, Digesting
    <3>5. ASSUME NEW n \in 1 .. Len(k.msgs), n \notin k.todo \cup k.fresh
          PROVE  Matched(k, n) /\ Embedded(k, n)
      <4>1. Matched(job[w], n)
        BY <1>0, <2>2, <2>3, <2>7, <3>2, <3>5 DEF JobSound, BatchSound, Appending
      <4> QED BY <3>2, <4>1 DEF Matched, Embedded, ExactReplay
    <3>6. BatchSound(k)
      BY <3>2, <3>5 DEF BatchSound
    <3>7. Quiet
      BY <2>2, <2>7, UnchangedQuiet
    <3> QED BY <2>7, <3>1, <3>3, <3>4, <3>6, <3>7, QuietBecomes DEF JobSound
  <2>8. CASE Return(w) /\ UNCHANGED events
    BY <2>2, <2>8, UnchangedQuiet, QuietReturn
  <2> HIDE DEF row
  <2> QED BY <2>1, <2>5, <2>6, <2>7, <2>8
<1>10. CASE AppendReprobe(w)
  <2>1. Quiet
    BY <1>10, UnchangedQuiet DEF AppendReprobe, ReadOnly
  <2>2. PICK i \in job[w].fresh :
           /\ IsNext(job[w].fresh, i)
           /\ \/ Return(w)
              \/ Becomes(w, [job[w] EXCEPT !.pc = "store", !.fresh = @ \ {i},
                                !.bare = IF events[job[w].msgs[i].id].vec = "null"
                                           THEN {i} ELSE {}])
    BY <1>10 DEF AppendReprobe
  <2> DEFINE nulls == IF events[job[w].msgs[i].id].vec = "null" THEN {i} ELSE {}
  <2>3. PICK k : k = [job[w] EXCEPT !.pc = "store", !.fresh = @ \ {i}, !.bare = nulls]
    OBVIOUS
  <2>4. JobOK(k)
    BY <1>0, <1>10, <2>3, ZenonT(40) DEF JobOK, JobType, Labels, AppendReprobe
  <2>5. /\ k.pc = "store" /\ k.session = job[w].session /\ k.user = job[w].user
        /\ k.msgs = job[w].msgs /\ k.todo = job[w].todo
        /\ k.fresh = job[w].fresh \ {i} /\ k.bare = nulls /\ k.emb = job[w].emb
    BY <1>0, <2>3 DEF JobOK, JobType
  <2>6. OwnsSession(k) /\ DigestSound(k)
    BY <1>0, <1>10, <2>5 DEF AppendReprobe, JobSound, OwnsSession, DigestSound, Digesting
  <2>7. /\ Matched(job[w], i) /\ job[w].emb /\ job[w].bare = {} /\ job[w].todo = {}
        /\ job[w].pc = "reprobe"
    BY <1>0, <1>10, <2>2 DEF AppendReprobe, JobSound, BatchSound, Appending
  <2>8. ASSUME NEW n \in 1 .. Len(k.msgs), n \notin k.todo \cup k.fresh
        PROVE  Matched(k, n) /\ Embedded(k, n)
    <3>1. CASE n = i
      BY <2>5, <2>7, <3>1 DEF Matched, Embedded, ExactReplay
    <3>2. CASE n # i
      <4>1. Matched(job[w], n) /\ Embedded(job[w], n)
        BY <1>0, <2>5, <2>7, <2>8, <3>2 DEF JobSound, BatchSound, Appending
      <4> QED BY <2>5, <2>7, <4>1 DEF Matched, Embedded, ExactReplay
    <3> QED BY <3>1, <3>2
  <2>9. BatchSound(k)
    BY <2>5, <2>7, <2>8 DEF BatchSound
  <2>10. Return(w) \/ Becomes(w, k)
    BY <2>2, <2>3
  <2> QED BY <2>1, <2>4, <2>6, <2>9, <2>10, QuietBecomes, QuietReturn DEF JobSound
<1>11. CASE AppendNotes(w)
  <2>1. Quiet
    BY <1>11, UnchangedQuiet DEF AppendNotes
  <2>2. Goto(w, "reply") /\ job[w].pc = "store" /\ job[w].bare = {} /\ job[w].fresh = {}
    BY <1>11 DEF AppendNotes
  <2> QED BY <1>0, <2>1, <2>2, NotesSafe
<1>12. CASE AppendReply(w)
  <2>1. /\ job[w].pc = "reply" /\ Return(w)
        /\ UNCHANGED <<sessions, events, episodes, narratives>>
        /\ acked' = acked \cup {[session |-> job[w].session, user |-> job[w].user,
                                 id |-> m.id, body |-> m.body, embedded |-> job[w].emb]
                                 : m \in SetOf(job[w].msgs)}
    BY <1>12 DEF AppendReply, table
  <2>2. JobsSound'
    BY <2>1, ReturnSound
  <2>3. ASSUME NEW m \in SetOf(job[w].msgs)
        PROVE  /\ Stored(m.id) /\ ExactReplay(events[m.id], job[w], m)
               /\ job[w].emb => events[m.id].vec # "null"
    <3>1. PICK n \in 1 .. Len(job[w].msgs) : m = job[w].msgs[n]
      BY DEF SetOf
    <3>2. Matched(job[w], n) /\ Embedded(job[w], n) /\ job[w].bare = {}
      BY <1>0, <2>1, <3>1 DEF JobSound, BatchSound, Appending
    <3> QED BY <2>1, <3>1, <3>2 DEF Matched, Embedded
  <2>4. AckedIsStored'
    <3> SUFFICES ASSUME NEW a \in acked'
                 PROVE  /\ Stored(a.id)' /\ ExactReplay(events'[a.id], a, a)
                        /\ a.embedded => events'[a.id].vec # "null"
      BY DEF AckedIsStored
    <3>1. CASE a \in acked
      BY <3>1, AckedGrow DEF TablesSound
    <3>2. CASE a \notin acked
      <4>1. PICK m \in SetOf(job[w].msgs) :
               a = [session |-> job[w].session, user |-> job[w].user, id |-> m.id,
                    body |-> m.body, embedded |-> job[w].emb]
        BY <2>1, <3>2
      <4> QED BY <2>1, <2>3, <4>1 DEF ExactReplay, Stored
    <3> QED BY <3>1, <3>2
  <2>5. OwnedEvents' /\ OwnedDigests' /\ NoOrphanNarratives'
    BY <2>1 DEF TablesSound, OwnedEvents, OwnedDigests, NoOrphanNarratives, Together, Stored
  <2>6. ProcessedIsRemembered' /\ ProcessedIsPurified'
    BY <2>1 DEF TablesSound, ProcessedIsRemembered, ProcessedIsPurified, Stored, Grows
  <2> QED BY <2>2, <2>4, <2>5, <2>6 DEF TablesSound
<1> QED
  BY <1>1, <1>2, <1>3, <1>4, <1>5, <1>6, <1>7, <1>8, <1>9, <1>10, <1>11, <1>12 DEF AppendStep

--------------------------------------------------------------------------------
(* compact *)

LEMMA CompactSafe ==
    ASSUME Safe, Shape', Grows, NEW w \in Workers,
           CompactStep(w) \/ \E s \in Sessions : CompactStart(w, s)
    PROVE  JobsSound' /\ TablesSound'
<1> USE DEF Safe
<1>0. JobOK(job[w]) /\ JobSound(job[w])
  BY DEF Shape, JobsOK, JobsSound
<1>1. ASSUME NEW s \in Sessions, CompactStart(w, s) PROVE JobsSound' /\ TablesSound'
  <2>1. Becomes(w, [Idle EXCEPT !.pc = "read", !.session = s, !.user = sessions[s],
                                !.notes = notes[s]])
    BY <1>1 DEF CompactStart
  <2>2. UNCHANGED <<sessions, events, episodes, narratives, acked>>
    BY <1>1 DEF CompactStart, table
  <2>3. PICK k : k = [Idle EXCEPT !.pc = "read", !.session = s, !.user = sessions[s],
                                  !.notes = notes[s]]
    OBVIOUS
  <2>4. k.pc = "read" /\ k.session = s /\ k.user = sessions[s]
    BY <2>3 DEF Idle
  <2>5. JobSound(k)'
    BY <2>2, <2>4 DEF JobSound, OwnsSession, BatchSound, DigestSound, Appending, Digesting
  <2>6. JobsSound'
    BY <2>1, <2>3, <2>5, BecomesSound
  <2>7. Quiet
    BY <2>2, UnchangedQuiet
  <2> QED BY <2>6, <2>7, QuietTables
<1>2. CASE CompactRead(w)
  <2>1. Quiet
    BY <1>2, UnchangedQuiet DEF CompactRead, table
  <2>2. CASE Return(w)
    BY <2>1, <2>2, QuietReturn
  <2> DEFINE E == Unprocessed(job[w].session)
  <2>3. ASSUME NEW about \in Summaries(E, job[w].notes), NEW given \in SUBSET E,
               E # {}, used' = [used EXCEPT !.unanswered = @ \cup (E \ given)],
               Becomes(w, [job[w] EXCEPT !.pc = "update", !.taken = E, !.left = given,
                                         !.about = about])
        PROVE  JobsSound' /\ TablesSound'
    <3>1. PICK k : k = [job[w] EXCEPT !.pc = "update", !.taken = E, !.left = given,
                                      !.about = about]
      OBVIOUS
    <3>2. /\ k.pc = "update" /\ k.session = job[w].session /\ k.user = job[w].user
          /\ k.taken = E /\ k.left = given /\ job[w].pc = "read"
      BY <1>0, <1>2, <3>1 DEF JobOK, JobType, CompactRead
    <3>3. \A e \in E : Stored(e) /\ events[e].session = job[w].session /\ e \in EventIds
      BY DEF Unprocessed
    <3>4. sessions[job[w].session] = job[w].user
      BY <1>0, <3>2 DEF JobSound, OwnsSession
    <3>5. Together(k.session, k.user, k.taken)
      BY <3>2, <3>3, <3>4 DEF Together, TablesSound, OwnedEvents
    <3>6. OwnsSession(k)
      BY <3>2, <3>4 DEF OwnsSession
    <3>7. JobSound(k)'
      <4>1. k.session \in Sessions /\ k.user \in Users
        BY <1>0, <3>2 DEF JobOK
      <4>2. k.taken \in SUBSET EventIds
        BY <3>2, <3>3
      <4>3. Together(k.session, k.user, k.taken)'
        BY <3>5, <4>2, TogetherGrows
      <4>4. OwnsSession(k)'
        BY <3>2, <3>6, <4>1, ConstantsAssumption DEF OwnsSession, Grows
      <4>5. k.taken \ k.left \subseteq used'.unanswered
        BY <2>3, <3>2 DEF Shape, HistoryOK
      <4>6. DigestSound(k)'
        BY <2>3, <3>2, <4>3, <4>5 DEF DigestSound
      <4> QED BY <3>2, <4>4, <4>6 DEF JobSound, BatchSound, Appending
    <3> QED BY <2>1, <2>3, <3>1, <3>7, BecomesSound, QuietTables
  <2> QED BY <1>2, <2>2, <2>3 DEF CompactRead
<1>3. CASE CompactUpdate(w)
  <2>1. PICK e \in job[w].left :
           \/ Return(w) /\ UNCHANGED events
           \/ /\ Stored(e)
              /\ events' = [events EXCEPT ![e].vec = "purified", ![e].purified = TRUE]
              /\ Becomes(w, [job[w] EXCEPT !.left = @ \ {e}])
    BY <1>3 DEF CompactUpdate
  <2>2. job[w].pc = "update" /\ UNCHANGED <<sessions, episodes, narratives, acked>>
    BY <1>3 DEF CompactUpdate
  <2>3. CASE Return(w) /\ UNCHANGED events
    BY <2>2, <2>3, UnchangedQuiet, QuietReturn
  <2>4. ASSUME Stored(e), Becomes(w, [job[w] EXCEPT !.left = @ \ {e}]),
               events' = [events EXCEPT ![e].vec = "purified", ![e].purified = TRUE]
        PROVE  JobsSound' /\ TablesSound'
    <3>1. PICK j : j = job[w]
      OBVIOUS
    <3>2. JobOK(j) /\ JobSound(j)' /\ e \in EventIds
      BY <1>0, <3>1, JobGrows DEF JobOK, JobType
    <3>3. events[e] \in Rows
      BY <2>4, <3>2 DEF Stored, Shape, TablesOK
    <3>4. events'[e] = [events[e] EXCEPT !.vec = "purified", !.purified = TRUE]
      BY <2>4, <3>2 DEF Shape, TablesOK
    <3>5. /\ events'[e].vec = "purified" /\ events'[e].purified
          /\ events'[e].processed = events[e].processed
      BY <3>3, <3>4 DEF Rows
    <3>6. Quiet
      BY <2>2, <2>4, <3>2, <3>5 DEF Quiet, Stored, Shape, TablesOK
    <3>7. PICK k : k = [j EXCEPT !.left = @ \ {e}]
      OBVIOUS
    <3>8. /\ k.pc = "update" /\ j.pc = "update" /\ k.session = j.session /\ k.user = j.user
          /\ k.taken = j.taken /\ k.left = j.left \ {e}
      BY <2>2, <3>1, <3>2, <3>7 DEF JobOK, JobType
    <3>9. OwnsSession(k)' /\ BatchSound(k)'
      BY <3>2, <3>8 DEF JobSound, OwnsSession, BatchSound, Appending
    <3>10. DigestSound(k)'
      BY <3>2, <3>5, <3>8 DEF JobSound, DigestSound, Digesting
    <3>11. JobsSound'
      BY <2>4, <3>1, <3>7, <3>9, <3>10, BecomesSound DEF JobSound
    <3> QED BY <3>6, <3>11, QuietTables
  <2> QED BY <2>1, <2>3, <2>4
<1>4. CASE CompactInsertEpisode(w)
  <2>1. PICK j : j = job[w]
    OBVIOUS
  <2>2. PICK ep : ep = [id |-> used.episodes + 1, session |-> j.session, user |-> j.user,
                        events |-> j.taken, about |-> j.about]
    OBVIOUS
  <2>3. /\ j.pc = "update" /\ j.left = {} /\ episodes' = episodes \cup {ep}
        /\ UNCHANGED <<sessions, events, narratives, acked>>
        /\ Becomes(w, [j EXCEPT !.pc = "narrative", !.episode = used.episodes + 1])
    BY <1>4, <2>1, <2>2 DEF CompactInsertEpisode
  <2>4. JobOK(j) /\ JobSound(j)' /\ JobSound(j)
    BY <1>0, <2>1, JobGrows
  <2>5. PICK k : k = [j EXCEPT !.pc = "narrative", !.episode = used.episodes + 1]
    OBVIOUS
  <2>6. /\ k.pc = "narrative" /\ k.session = j.session /\ k.user = j.user
        /\ k.taken = j.taken /\ k.left = j.left /\ k.episode = used.episodes + 1
    BY <2>4, <2>5 DEF JobOK, JobType
  <2>7. /\ sessions'[ep.session] = ep.user /\ Together(ep.session, ep.user, ep.events)'
    BY <2>2, <2>3, <2>4 DEF JobSound, OwnsSession, DigestSound, Digesting
  <2>8. JobSound(k)'
    <3>1. OwnsSession(k)' /\ BatchSound(k)'
      BY <2>3, <2>4, <2>6 DEF JobSound, OwnsSession, BatchSound, Appending, Digesting
    <3>2. ep \in episodes' /\ ep.id = k.episode /\ ep.events = k.taken
             /\ ep.session = k.session /\ ep.user = k.user
      BY <2>2, <2>3, <2>6
    <3>3. DigestSound(k)'
      BY <2>3, <2>4, <2>6, <3>2 DEF JobSound, DigestSound, Digesting
    <3> QED BY <3>1, <3>3 DEF JobSound
  <2>9. JobsSound'
    BY <2>3, <2>5, <2>8, BecomesSound
  <2>10. OwnedDigests'
    BY <2>3, <2>7, OwnedDigestsGrow DEF OwnedDigests, TablesSound
  <2>11. OwnedEvents' /\ ProcessedIsPurified' /\ AckedIsStored'
    BY <2>3 DEF TablesSound, OwnedEvents, ProcessedIsPurified, AckedIsStored, Stored, Grows
  <2>12. ProcessedIsRemembered' /\ NoOrphanNarratives'
    BY <2>3 DEF TablesSound, ProcessedIsRemembered, NoOrphanNarratives, Stored
  <2> QED BY <2>9, <2>10, <2>11, <2>12 DEF TablesSound
<1>5. CASE CompactInsertNarrative(w)
  <2>1. PICK j : j = job[w]
    OBVIOUS
  <2>2. PICK n : n = [episode |-> j.episode, session |-> j.session, user |-> j.user,
                      events |-> j.taken]
    OBVIOUS
  <2>3. /\ j.pc = "narrative" /\ narratives' = narratives \cup {n}
        /\ UNCHANGED <<sessions, events, episodes, acked>>
        /\ Becomes(w, [j EXCEPT !.pc = "mark"])
    BY <1>5, <2>1, <2>2 DEF CompactInsertNarrative, Goto
  <2>4. JobOK(j) /\ JobSound(j)' /\ JobSound(j)
    BY <1>0, <2>1, JobGrows
  <2>5. PICK k : k = [j EXCEPT !.pc = "mark"]
    OBVIOUS
  <2>6. /\ k.pc = "mark" /\ k.session = j.session /\ k.user = j.user
        /\ k.taken = j.taken /\ k.left = j.left /\ k.episode = j.episode
    BY <2>3, <2>4, <2>5, Relabel DEF Labels
  <2>7. /\ sessions'[n.session] = n.user /\ Together(n.session, n.user, n.events)'
    BY <2>2, <2>3, <2>4 DEF JobSound, OwnsSession, DigestSound, Digesting
  <2>8. JobSound(k)'
    <3>1. OwnsSession(k)' /\ BatchSound(k)'
      BY <2>3, <2>4, <2>6 DEF JobSound, OwnsSession, BatchSound, Appending, Digesting
    <3>2. n \in narratives' /\ n.episode = k.episode /\ n.events = k.taken
      BY <2>2, <2>3, <2>6
    <3>3. DigestSound(k)'
      BY <2>3, <2>4, <2>6, <3>2 DEF JobSound, DigestSound, Digesting
    <3> QED BY <3>1, <3>3 DEF JobSound
  <2>9. JobsSound'
    BY <2>3, <2>5, <2>8, BecomesSound
  <2>10. OwnedDigests'
    BY <2>3, <2>7, OwnedDigestsGrow DEF OwnedDigests, TablesSound
  <2>11. OwnedEvents' /\ ProcessedIsPurified' /\ AckedIsStored'
    BY <2>3 DEF TablesSound, OwnedEvents, ProcessedIsPurified, AckedIsStored, Stored, Grows
  <2>12. ProcessedIsRemembered'
    BY <2>3 DEF TablesSound, ProcessedIsRemembered, Stored
  <2>13. \E ep \in episodes' : ep.id = n.episode /\ ep.events = n.events
    BY <2>2, <2>3, <2>4 DEF JobSound, DigestSound, Digesting
  <2>14. NoOrphanNarratives'
    BY <2>3, <2>13 DEF TablesSound, NoOrphanNarratives
  <2> QED BY <2>9, <2>10, <2>11, <2>12, <2>14 DEF TablesSound
<1>6. CASE CompactMark(w)
  <2>1. PICK j : j = job[w]
    OBVIOUS
  <2>2. /\ j.pc = "mark" /\ UNCHANGED <<sessions, episodes, narratives, acked>>
        /\ \A e \in EventIds : events'[e] = IF e \in j.taken /\ Stored(e)
                                            THEN [events[e] EXCEPT !.processed = TRUE]
                                            ELSE events[e]
        /\ Becomes(w, [j EXCEPT !.pc = "clear"])
    BY <1>6, <2>1 DEF CompactMark, Goto
  <2>3. JobOK(j) /\ JobSound(j)' /\ JobSound(j)
    BY <1>0, <2>1, JobGrows
  <2>4. PICK k : k = [j EXCEPT !.pc = "clear"]
    OBVIOUS
  <2>5. /\ k.pc = "clear" /\ k.session = j.session /\ k.user = j.user
        /\ k.taken = j.taken /\ k.left = j.left /\ k.episode = j.episode
    BY <2>2, <2>3, <2>4, Relabel DEF Labels
  <2>6. JobSound(k)'
    BY <2>2, <2>3, <2>5
       DEF JobSound, OwnsSession, BatchSound, DigestSound, Appending, Digesting
  <2>7. JobsSound'
    BY <2>2, <2>4, <2>6, BecomesSound
  <2>8. ASSUME NEW e \in EventIds, Stored(e)', events'[e].processed, e \notin j.taken
        PROVE  Stored(e) /\ events[e].processed
    BY <2>2, <2>8 DEF Stored
  <2>9. OwnedEvents'
    <3> SUFFICES ASSUME NEW e \in EventIds, Stored(e)'
                 PROVE  sessions'[events'[e].session] = events'[e].user
      BY DEF OwnedEvents
    <3>1. Stored(e)
      BY <2>2 DEF Stored
    <3> QED BY <2>2, <3>1, RowGrows DEF TablesSound, OwnedEvents
  <2>10. OwnedDigests'
    BY <2>2, OwnedDigestsGrow DEF OwnedDigests, TablesSound
  <2>11. ProcessedIsRemembered'
    <3> SUFFICES ASSUME NEW e \in EventIds, Stored(e)', events'[e].processed
                 PROVE  \E ep \in episodes, n \in narratives :
                           n.episode = ep.id /\ e \in ep.events /\ e \in n.events
      BY <2>2 DEF ProcessedIsRemembered
    <3>1. CASE e \notin j.taken
      BY <2>8, <3>1 DEF TablesSound, ProcessedIsRemembered
    <3>2. CASE e \in j.taken
      BY <2>2, <2>3, <3>2 DEF JobSound, DigestSound, Digesting
    <3> QED BY <3>1, <3>2
  <2>12. ProcessedIsPurified'
    <3> SUFFICES ASSUME NEW e \in EventIds, Stored(e)', events'[e].processed
                 PROVE  (events'[e].purified /\ events'[e].vec # "null") \/ e \in used'.unanswered
      BY DEF ProcessedIsPurified
    <3>1. CASE e \notin j.taken
      BY <2>8, <3>1, RowGrows DEF TablesSound, ProcessedIsPurified, Grows
    <3>2. CASE e \in j.taken
      BY <2>2, <2>3, <3>2 DEF JobSound, DigestSound, Digesting
    <3> QED BY <3>1, <3>2
  <2>13. NoOrphanNarratives' /\ AckedIsStored'
    BY <2>2, AckedGrow DEF TablesSound, NoOrphanNarratives, AckedIsStored
  <2> QED BY <2>7, <2>9, <2>10, <2>11, <2>12, <2>13 DEF TablesSound
<1>7. CASE CompactClear(w)
  BY <1>7, UnchangedQuiet, QuietReturn DEF CompactClear
<1> QED
  BY <1>1, <1>2, <1>3, <1>4, <1>5, <1>6, <1>7 DEF CompactStep

--------------------------------------------------------------------------------
(* The theorems *)

LEMMA FaultSafe ==
    ASSUME Safe, Grows, Crash \/ \E w \in Workers : StepFails(w) \/ NotesStepFails(w)
    PROVE  JobsSound' /\ TablesSound'
<1>1. Quiet
  BY UnchangedQuiet DEF Crash, StepFails, NotesStepFails, table
<1>2. ASSUME NEW w \in Workers, StepFails(w) PROVE JobsSound' /\ TablesSound'
  BY <1>1, <1>2, QuietReturn DEF StepFails
<1>3. ASSUME NEW w \in Workers, NotesStepFails(w) PROVE JobsSound' /\ TablesSound'
  BY <1>1, <1>3, NotesSafe, QuietReturn DEF NotesStepFails
<1>4. CASE Crash
  <2>1. \A w \in Workers : job'[w] = Idle
    BY <1>4 DEF Crash
  <2>2. JobsSound'
    BY <2>1, IdleSound DEF JobsSound
  <2> QED BY <1>1, <2>2, QuietTables DEF Safe
<1> QED BY <1>2, <1>3, <1>4

LEMMA InitSafe == Init => Safe
<1> SUFFICES ASSUME Init PROVE Safe
  OBVIOUS
<1>1. JobsSound
  BY DEF Init, JobsSound, Idle, JobSound, OwnsSession, BatchSound, DigestSound, Appending,
     Digesting
<1>2. TablesSound
  BY DEF Init, TablesSound, OwnedEvents, OwnedDigests, ProcessedIsRemembered,
     ProcessedIsPurified, NoOrphanNarratives, AckedIsStored, Stored
<1> QED BY <1>1, <1>2, InitShape DEF Safe

LEMMA NextSafe == Safe /\ [Next]_vars => Safe'
<1> SUFFICES ASSUME Safe, [Next]_vars PROVE Safe'
  OBVIOUS
<1>1. Shape' /\ Grows
  BY NextShape, StepGrows DEF Safe
<1>2. CASE UNCHANGED vars
  <2>1. TablesSound'
    BY <1>1, <1>2, UnchangedQuiet, QuietTables DEF Safe, vars
  <2>2. JobsSound'
    <3> SUFFICES ASSUME NEW w \in Workers PROVE JobSound(job[w])'
      BY DEF JobsSound
    <3>1. PICK j : j = job[w]
      OBVIOUS
    <3>2. JobSound(j)' /\ job'[w] = j
      BY <1>1, <1>2, <3>1, JobGrows DEF Safe, JobsSound, Shape, JobsOK, vars
    <3> QED BY <3>2
  <2> QED BY <1>1, <2>1, <2>2 DEF Safe
<1>3. CASE Next
  BY <1>1, <1>3, AppendSafe, CompactSafe, FaultSafe DEF Next, Safe
<1> QED BY <1>2, <1>3

LEMMA AlwaysSafe == Spec => []Safe
  BY InitSafe, NextSafe, PTL DEF Spec

\* Whichever appends race to create a session, and whatever compactions run, every event,
\* episode and narrative of a session belongs to the session's owner.
THEOREM OwnershipHolds == Spec => []OneOwnerPerSession
<1>1. Safe => OneOwnerPerSession
  BY DEF Safe, TablesSound, OwnedEvents, OwnedDigests, Together, OneOwnerPerSession
<1> QED BY <1>1, AlwaysSafe, PTL

\* An event that mark_events_processed hides from compact is in an episode and in that
\* episode's narrative, through every crash and every overlap of compactions.
THEOREM NothingProcessedIsLost == Spec => []ProcessedIsRemembered
<1>1. Safe => ProcessedIsRemembered
  BY DEF Safe, TablesSound
<1> QED BY <1>1, AlwaysSafe, PTL

\* compact marks only events it has purified (compact_ops.rs:325), whatever fails, overlaps or is
\* appended meanwhile, but for those that an embedder's answer has left out.
THEOREM ProcessedOnlyPurified == Spec => []ProcessedIsPurified
<1>1. Safe => ProcessedIsPurified
  BY DEF Safe, TablesSound
<1> QED BY <1>1, AlwaysSafe, PTL

\* compact never leaves a narrative without the episode it tells of.
THEOREM EveryNarrativeHasItsEpisode == Spec => []NoOrphanNarratives
<1>1. Safe => NoOrphanNarratives
  BY DEF Safe, TablesSound
<1> QED BY <1>1, AlwaysSafe, PTL

\* What an Ok(AppendEventsResult) accepted stays stored as that request sent it, and has
\* a vector if the reply said so, whichever of several concurrent requests stored it.
THEOREM AckedAreStored == Spec => []AckedIsStored
<1>1. Safe => AckedIsStored
  BY DEF Safe, TablesSound
<1> QED BY <1>1, AlwaysSafe, PTL

--------------------------------------------------------------------------------
(* Where an operation goes *)

\* What a step leaves of the operation of thread w, when no other thread moves: nothing, or
\* the same operation for the same user at one of the labels.
MovesTo(w, labels) ==
    /\ \A v \in Workers \ {w} : job'[v] = job[v]
    /\ \/ job'[w] = Idle
       \/ /\ job'[w].pc \in labels
          /\ job[w].pc # "idle" => /\ job'[w].session = job[w].session
                                   /\ job'[w].user = job[w].user

LEMMA BecomesMoves ==
    ASSUME Shape, NEW w \in Workers, NEW labels, NEW j, Becomes(w, j), j.pc \in labels,
           job[w].pc # "idle" => j.session = job[w].session /\ j.user = job[w].user
    PROVE  MovesTo(w, labels)
  BY DEF Becomes, MovesTo, Shape, JobsOK

LEMMA ReturnMoves ==
    ASSUME Shape, NEW w \in Workers, NEW labels, Return(w)
    PROVE  MovesTo(w, labels)
  BY DEF Return, Becomes, MovesTo, Shape, JobsOK

LEMMA GotoMoves ==
    ASSUME Shape, NEW w \in Workers, NEW labels, NEW l \in labels, Goto(w, l)
    PROVE  MovesTo(w, labels)
<1>1. LET j == [job[w] EXCEPT !.pc = l]
      IN  j.pc = l /\ j.session = job[w].session /\ j.user = job[w].user
  BY DEF Shape, JobsOK, JobType
<1> QED BY <1>1, BecomesMoves DEF Goto

LEMMA AppendPlace ==
    ASSUME Shape, NEW w \in Workers, AppendStart(w) \/ AppendStep(w)
    PROVE  MovesTo(w, Appending) /\ job[w].pc \in Appending \cup {"idle"}
<1>0. job \in [Workers -> JobType]
  BY DEF Shape, JobsOK
<1>1. AppendStart(w) => MovesTo(w, Appending)
  <2>1. \A s, u, m, d : [Idle EXCEPT !.pc = "session", !.session = s, !.user = u,
                                     !.msgs = m, !.todo = d].pc \in Appending
    BY DEF Idle, Appending
  <2> QED BY <2>1, BecomesMoves DEF AppendStart
<1>2. AppendReadSession(w) \/ AppendCreateSession(w) \/ AppendRecheckSession(w)
         => MovesTo(w, Appending)
  BY ReturnMoves, GotoMoves
     DEF AppendReadSession, AppendCreateSession, AppendRecheckSession, Appending
<1>3. ASSUME AppendLookup(w) PROVE MovesTo(w, Appending)
  <2>1. \A i : LET j == [job[w] EXCEPT !.fresh = @ \cup {i}, !.todo = @ \ {i}]
               IN  j.pc \in Appending /\ j.session = job[w].session /\ j.user = job[w].user
    BY <1>0, <1>3 DEF JobType, AppendLookup, Appending
  <2> QED BY <1>3, <2>1, BecomesMoves, ReturnMoves, GotoMoves DEF AppendLookup, Appending
<1>4. ASSUME AppendProbe(w) PROVE MovesTo(w, Appending)
  <2>1. \A i, B : LET j == [job[w] EXCEPT !.pc = "lookup", !.todo = @ \ {i}, !.bare = B]
                  IN  j.pc \in Appending /\ j.session = job[w].session /\ j.user = job[w].user
    BY <1>0 DEF JobType, Appending
  <2> QED BY <1>4, <2>1, BecomesMoves, ReturnMoves DEF AppendProbe
<1>5. ASSUME AppendEmbed(w) PROVE MovesTo(w, Appending)
  <2>1. \A b, B : LET j == [job[w] EXCEPT !.pc = "store", !.emb = b, !.bare = B]
                  IN  j.pc \in Appending /\ j.session = job[w].session /\ j.user = job[w].user
    BY <1>0 DEF JobType, Appending
  <2> QED BY <1>5, <2>1, BecomesMoves DEF AppendEmbed
<1>6. ASSUME AppendBackfill(w) PROVE MovesTo(w, Appending)
  <2>1. \A i : LET j == [job[w] EXCEPT !.bare = @ \ {i}]
               IN  j.pc \in Appending /\ j.session = job[w].session /\ j.user = job[w].user
    BY <1>0, <1>6 DEF JobType, AppendBackfill, Appending
  <2> QED BY <1>6, <2>1, BecomesMoves, ReturnMoves DEF AppendBackfill
<1>7. ASSUME AppendInsert(w) PROVE MovesTo(w, Appending)
  <2>1. \A i, s : LET j == [job[w] EXCEPT !.fresh = @ \ {i}, !.written = s]
                      k == [job[w] EXCEPT !.fresh = @ \ {i}]
                  IN  /\ j.pc \in Appending /\ j.session = job[w].session /\ j.user = job[w].user
                      /\ k.pc \in Appending /\ k.session = job[w].session /\ k.user = job[w].user
    BY <1>0, <1>7 DEF JobType, AppendInsert, Appending
  <2>2. \/ Return(w) \/ Goto(w, "reprobe")
        \/ \E i, s : \/ Becomes(w, [job[w] EXCEPT !.fresh = @ \ {i}, !.written = s])
                     \/ Becomes(w, [job[w] EXCEPT !.fresh = @ \ {i}])
    BY <1>7 DEF AppendInsert
  <2>3. ASSUME NEW i, NEW s,
               \/ Becomes(w, [job[w] EXCEPT !.fresh = @ \ {i}, !.written = s])
               \/ Becomes(w, [job[w] EXCEPT !.fresh = @ \ {i}])
        PROVE  MovesTo(w, Appending)
    BY <2>1, <2>3, BecomesMoves
  <2> QED BY <2>2, <2>3, ReturnMoves, GotoMoves DEF Appending
<1>8. ASSUME AppendReprobe(w) PROVE MovesTo(w, Appending)
  <2>1. \A i, B : LET j == [job[w] EXCEPT !.pc = "store", !.fresh = @ \ {i}, !.bare = B]
                  IN  j.pc \in Appending /\ j.session = job[w].session /\ j.user = job[w].user
    BY <1>0 DEF JobType, Appending
  <2> QED BY <1>8, <2>1, BecomesMoves, ReturnMoves DEF AppendReprobe
<1>9. AppendNotes(w) \/ AppendReply(w) => MovesTo(w, Appending)
  <2>1. AppendNotes(w) \/ AppendReply(w) => Goto(w, "reply") \/ Return(w)
    BY DEF AppendNotes, AppendReply
  <2> QED BY <2>1, ReturnMoves, GotoMoves DEF Appending
<1>10. job[w].pc \in Appending \cup {"idle"}
  BY DEF AppendStart, AppendStep, AppendReadSession, AppendCreateSession, AppendRecheckSession,
     AppendLookup, AppendProbe, AppendEmbed, AppendBackfill, AppendInsert, AppendReprobe,
     AppendNotes, AppendReply, Appending
<1> QED
  BY <1>1, <1>2, <1>3, <1>4, <1>5, <1>6, <1>7, <1>8, <1>9, <1>10 DEF AppendStep

\* Only insert_episode brings an operation to where its narrative is next.
LEMMA CompactPlace ==
    ASSUME Shape, NEW w \in Workers, CompactStep(w)
    PROVE  /\ MovesTo(w, Digesting) /\ job[w].pc \in {"read"} \cup Digesting
           /\ ~CompactInsertEpisode(w) => MovesTo(w, Digesting \ {"narrative"})
<1>0. job \in [Workers -> JobType]
  BY DEF Shape, JobsOK
<1> DEFINE Others == Digesting \ {"narrative"}
<1>1. ASSUME CompactRead(w) PROVE MovesTo(w, Others)
  <2>2. ASSUME NEW E, NEW given, NEW about,
               Becomes(w, [job[w] EXCEPT !.pc = "update", !.taken = E, !.left = given,
                                         !.about = about])
        PROVE  MovesTo(w, Others)
    <3>1. PICK j : j = [job[w] EXCEPT !.pc = "update", !.taken = E, !.left = given,
                                      !.about = about]
      OBVIOUS
    <3>2. j.pc = "update" /\ j.session = job[w].session /\ j.user = job[w].user
      BY <1>0, <3>1 DEF JobType
    <3>3. j.pc \in Others
      BY <3>2 DEF Digesting
    <3> HIDE DEF Others
    <3> QED BY <2>2, <3>1, <3>2, <3>3, BecomesMoves
  <2> HIDE DEF Others
  <2> QED BY <1>1, <2>2, ReturnMoves DEF CompactRead
<1>2. ASSUME CompactUpdate(w) PROVE MovesTo(w, Others)
  <2>1. \A e : LET j == [job[w] EXCEPT !.left = @ \ {e}]
               IN  j.pc \in Others /\ j.session = job[w].session /\ j.user = job[w].user
    BY <1>0, <1>2 DEF JobType, CompactUpdate, Digesting
  <2> QED BY <1>2, <2>1, BecomesMoves, ReturnMoves DEF CompactUpdate
<1>3. ASSUME CompactInsertEpisode(w) PROVE MovesTo(w, Digesting)
  <2>1. \A id : LET j == [job[w] EXCEPT !.pc = "narrative", !.episode = id]
                IN  j.pc \in Digesting /\ j.session = job[w].session /\ j.user = job[w].user
    BY <1>0 DEF JobType, Digesting
  <2> QED BY <1>3, <2>1, BecomesMoves DEF CompactInsertEpisode
<1>4. CompactInsertNarrative(w) \/ CompactMark(w) \/ CompactClear(w) => MovesTo(w, Others)
  BY ReturnMoves, GotoMoves DEF CompactInsertNarrative, CompactMark, CompactClear, Digesting
<1>5. MovesTo(w, Others) => MovesTo(w, Digesting)
  BY DEF MovesTo
<1>6. job[w].pc \in {"read"} \cup Digesting
  BY DEF CompactStep, CompactRead, CompactUpdate, CompactInsertEpisode, CompactInsertNarrative,
     CompactMark, CompactClear, Digesting
<1> QED BY <1>1, <1>2, <1>3, <1>4, <1>5, <1>6 DEF CompactStep

LEMMA FaultPlace ==
    ASSUME Shape, NEW w \in Workers, StepFails(w) \/ NotesStepFails(w)
    PROVE  MovesTo(w, {"reply"})
  BY ReturnMoves, GotoMoves DEF StepFails, NotesStepFails

--------------------------------------------------------------------------------
(* Nothing is digested twice *)

\* What DigestedOnce rests on: no two compactions of a session are in progress, no event of an
\* episode is among those a compaction is about to put into one, and an event of an episode is
\* processed or in the hands of the compaction that will mark it.
DisjointEpisodes == \A d1, d2 \in episodes : d1.id # d2.id => d1.events \cap d2.events = {}
OneAtATime ==
    \A v, w \in Workers :
        Compacting(v) /\ Compacting(w) /\ job[v].session = job[w].session => v = w
TakenIsFresh ==
    \A w \in Workers : job[w].pc = "update" => \A ep \in episodes : ep.events \cap job[w].taken = {}
DigestedIsCovered ==
    \A ep \in episodes : \A e \in ep.events :
        \/ events[e].processed
        \/ \E w \in Workers : job[w].pc \in {"narrative", "mark"} /\ e \in job[w].taken

Once == DisjointEpisodes /\ OneAtATime /\ TakenIsFresh /\ DigestedIsCovered
Calm == ~overlap /\ used.faults = 0

\* A step that moves no compaction and adds no episode.
LEMMA OnceStays ==
    ASSUME Safe, Grows, Once, UNCHANGED episodes,
           \A v \in Workers : Compacting(v) \/ Compacting(v)' => job'[v] = job[v]
    PROVE  Once'
<1>1. DisjointEpisodes'
  BY DEF Once, DisjointEpisodes
<1>2. OneAtATime'
  BY DEF Once, OneAtATime, Compacting
<1>3. TakenIsFresh'
  BY DEF Once, TakenIsFresh, Compacting
<1>4. DigestedIsCovered'
  <2> SUFFICES ASSUME NEW ep \in episodes, NEW e \in ep.events
               PROVE  \/ events'[e].processed
                      \/ \E w \in Workers : job'[w].pc \in {"narrative", "mark"} /\ e \in job'[w].taken
    BY DEF DigestedIsCovered
  <2>1. e \in EventIds /\ Stored(e)
    BY DEF Safe, TablesSound, OwnedDigests, Together, Shape, TablesOK, EpisodeType
  <2>2. CASE events[e].processed
    BY <2>1, <2>2 DEF Grows
  <2>3. CASE ~events[e].processed
    <3>1. PICK w \in Workers : job[w].pc \in {"narrative", "mark"} /\ e \in job[w].taken
      BY <2>3 DEF Once, DigestedIsCovered
    <3> QED BY <3>1 DEF Compacting
  <2> QED BY <2>2, <2>3
<1> QED BY <1>1, <1>2, <1>3, <1>4 DEF Once

LEMMA CompactOnce ==
    ASSUME Safe, Safe', Grows, Once, NEW w \in Workers, CompactStep(w)
    PROVE  Once'
<1>0. /\ job \in [Workers -> JobType] /\ \A v \in Workers : JobOK(job[v]) /\ JobSound(job[v])
      /\ \A v \in Workers : JobSound(job[v])'
  BY DEF Safe, Shape, JobsOK, JobsSound
<1>1. /\ \A v \in Workers \ {w} : job'[v] = job[v]
      /\ Compacting(w) /\ (Compacting(w)' => job'[w].session = job[w].session)
  BY CompactPlace DEF MovesTo, Compacting, Digesting, Safe, Idle
<1>2. OneAtATime'
  BY <1>1 DEF Once, OneAtATime, Compacting
<1>3. \A ep \in episodes : \A e \in ep.events : e \in EventIds /\ Stored(e)
  BY DEF Safe, TablesSound, OwnedDigests, Together, Shape, TablesOK, EpisodeType
<1>4. ASSUME NEW v \in Workers, job[v].pc \in Digesting, NEW e \in job[v].taken
      PROVE  e \in EventIds /\ Stored(e) /\ events[e].session = job[v].session
  BY <1>0, <1>4 DEF JobSound, DigestSound, Together, JobOK, JobType
\* The rest goes by the step: who is covered, and what is fresh.
<1>5. ASSUME UNCHANGED episodes,
             \/ ~Compacting(w)'
             \/ job'[w].pc = job[w].pc /\ job'[w].taken = job[w].taken
             \/ job[w].pc = "narrative" /\ job'[w].pc = "mark" /\ job'[w].taken = job[w].taken,
             job[w].pc \notin {"narrative", "mark"} \/ job'[w].pc \in {"narrative", "mark"}
      PROVE  Once'
  <2>1. DisjointEpisodes' /\ TakenIsFresh'
    BY <1>1, <1>5 DEF Once, DisjointEpisodes, TakenIsFresh, Compacting
  <2>2. ASSUME NEW ep \in episodes, NEW e \in ep.events
        PROVE  \/ events'[e].processed
               \/ \E v \in Workers : job'[v].pc \in {"narrative", "mark"} /\ e \in job'[v].taken
    <3>1. CASE events[e].processed
      BY <1>3, <3>1 DEF Grows
    <3>2. ASSUME NEW v \in Workers, job[v].pc \in {"narrative", "mark"}, e \in job[v].taken
          PROVE  job'[v].pc \in {"narrative", "mark"} /\ e \in job'[v].taken
      BY <1>1, <1>5, <3>2 DEF Compacting
    <3> QED BY <3>1, <3>2 DEF Once, DigestedIsCovered
  <2> QED BY <1>2, <1>5, <2>1, <2>2 DEF Once, DigestedIsCovered
<1>6. CASE CompactRead(w)
  <2>1. CASE Return(w)
    <3>1. job'[w] = Idle /\ UNCHANGED episodes /\ job[w].pc = "read"
      BY <1>0, <1>6, <2>1 DEF CompactRead, Return, Becomes, table
    <3> QED BY <1>5, <3>1 DEF Compacting, Idle
  <2> DEFINE E == Unprocessed(job[w].session)
  <2>2. ASSUME NEW given, NEW about,
               Becomes(w, [job[w] EXCEPT !.pc = "update", !.taken = E, !.left = given,
                                         !.about = about])
        PROVE  Once'
    <3>0. PICK k : k = [job[w] EXCEPT !.pc = "update", !.taken = E, !.left = given,
                                      !.about = about]
      OBVIOUS
    <3>00. k.pc = "update" /\ k.taken = E /\ job'[w] = k
      BY <1>0, <2>2, <3>0 DEF Becomes, JobType
    <3>1. /\ job'[w].pc = "update" /\ job'[w].taken = E /\ job[w].pc = "read"
          /\ UNCHANGED <<episodes, events>>
      BY <1>6, <3>00 DEF CompactRead, table
    <3>2. DisjointEpisodes'
      BY <3>1 DEF Once, DisjointEpisodes
    <3>3. ASSUME NEW ep \in episodes, NEW e \in ep.events, e \in E PROVE FALSE
      <4>1. ~events[e].processed /\ events[e].session = job[w].session
        BY <3>3 DEF Unprocessed
      <4>2. PICK v \in Workers : job[v].pc \in {"narrative", "mark"} /\ e \in job[v].taken
        BY <4>1 DEF Once, DigestedIsCovered
      <4>3. job[v].session = job[w].session
        BY <1>4, <4>1, <4>2 DEF Digesting
      <4>4. v = w
        BY <3>1, <4>2, <4>3 DEF Once, OneAtATime, Compacting
      <4> QED BY <3>1, <4>2, <4>4
    <3>4. TakenIsFresh'
      BY <1>1, <3>1, <3>3 DEF Once, TakenIsFresh
    <3>5. DigestedIsCovered'
      BY <1>1, <3>1 DEF Once, DigestedIsCovered
    <3> QED BY <1>2, <3>2, <3>4, <3>5 DEF Once
  <2> QED BY <1>6, <2>1, <2>2 DEF CompactRead
<1>7. CASE CompactUpdate(w)
  <2>1. UNCHANGED episodes /\ job[w].pc = "update"
    BY <1>7 DEF CompactUpdate
  <2>2. CASE Return(w)
    <3>1. job'[w] = Idle
      BY <1>0, <2>2 DEF Return, Becomes
    <3> QED BY <1>5, <2>1, <3>1 DEF Compacting, Idle
  <2>3. ASSUME NEW e, Becomes(w, [job[w] EXCEPT !.left = @ \ {e}]) PROVE Once'
    <3>1. job'[w].pc = "update" /\ job'[w].taken = job[w].taken
      BY <1>0, <2>1, <2>3 DEF Becomes, JobType
    <3> QED BY <1>5, <2>1, <3>1
  <2> QED BY <1>7, <2>2, <2>3 DEF CompactUpdate
<1>8. CASE CompactInsertEpisode(w)
  <2>1. PICK new : new = [id |-> used.episodes + 1, session |-> job[w].session,
                          user |-> job[w].user, events |-> job[w].taken, about |-> job[w].about]
    OBVIOUS
  <2>2. /\ episodes' = episodes \cup {new} /\ job[w].pc = "update" /\ UNCHANGED events
        /\ job'[w] = [job[w] EXCEPT !.pc = "narrative", !.episode = used.episodes + 1]
    BY <1>0, <1>8, <2>1 DEF CompactInsertEpisode, Becomes
  <2>3. job'[w].pc = "narrative" /\ job'[w].taken = job[w].taken /\ new.events = job[w].taken
    BY <1>0, <2>1, <2>2 DEF JobType
  <2>4. \A ep \in episodes : ep.events \cap new.events = {}
    BY <2>2, <2>3 DEF Once, TakenIsFresh
  <2>5. DisjointEpisodes'
    BY <2>2, <2>4 DEF Once, DisjointEpisodes
  <2>6. ASSUME NEW v \in Workers, v # w, job[v].pc = "update", NEW e \in job[v].taken,
               e \in job[w].taken
        PROVE  FALSE
    BY <1>4, <2>2, <2>6 DEF Once, OneAtATime, Compacting, Digesting
  <2>7. TakenIsFresh'
    <3> SUFFICES ASSUME NEW v \in Workers, job'[v].pc = "update", NEW ep \in episodes'
                 PROVE  ep.events \cap job'[v].taken = {}
      BY DEF TakenIsFresh
    <3>1. v # w /\ job'[v] = job[v]
      BY <1>1, <2>3
    <3>2. CASE ep = new
      BY <2>3, <2>6, <3>1, <3>2
    <3>3. CASE ep \in episodes
      BY <3>1, <3>3 DEF Once, TakenIsFresh
    <3> QED BY <2>2, <3>2, <3>3
  <2>8. DigestedIsCovered'
    <3> SUFFICES ASSUME NEW ep \in episodes', NEW e \in ep.events, ~events'[e].processed
                 PROVE  \E v \in Workers : job'[v].pc \in {"narrative", "mark"} /\ e \in job'[v].taken
      BY DEF DigestedIsCovered
    <3>1. CASE ep = new
      BY <2>3, <3>1
    <3>2. CASE ep \in episodes
      BY <1>1, <2>2, <3>2 DEF Once, DigestedIsCovered
    <3> QED BY <2>2, <3>1, <3>2
  <2> QED BY <1>2, <2>5, <2>7, <2>8 DEF Once
<1>9. CASE CompactInsertNarrative(w)
  <2>1. /\ UNCHANGED episodes /\ job[w].pc = "narrative" /\ job'[w].pc = "mark"
        /\ job'[w].taken = job[w].taken
    BY <1>0, <1>9 DEF CompactInsertNarrative, Goto, Becomes, JobType
  <2> QED BY <1>5, <2>1
<1>10. CASE CompactMark(w)
  <2>1. /\ UNCHANGED episodes /\ job[w].pc = "mark" /\ job'[w].pc = "clear"
        /\ \A e \in EventIds : e \in job[w].taken /\ Stored(e) =>
              events'[e] = [events[e] EXCEPT !.processed = TRUE]
    BY <1>0, <1>10 DEF CompactMark, Goto, Becomes, JobType
  <2>2. DisjointEpisodes' /\ TakenIsFresh'
    BY <1>1, <2>1 DEF Once, DisjointEpisodes, TakenIsFresh
  <2>3. ASSUME NEW e \in job[w].taken PROVE events'[e].processed
    <3>1. e \in EventIds /\ Stored(e) /\ events[e] \in Rows
      BY <1>4, <2>1 DEF Digesting, Safe, Shape, TablesOK, Stored
    <3> QED BY <2>1, <3>1 DEF Rows
  <2>4. ASSUME NEW ep \in episodes, NEW e \in ep.events, ~events'[e].processed
        PROVE  \E v \in Workers : job'[v].pc \in {"narrative", "mark"} /\ e \in job'[v].taken
    <3>1. ~events[e].processed
      BY <1>3, <2>4 DEF Grows
    <3>2. PICK v \in Workers : job[v].pc \in {"narrative", "mark"} /\ e \in job[v].taken
      BY <3>1 DEF Once, DigestedIsCovered
    <3>3. v # w
      BY <2>3, <2>4, <3>2
    <3> QED BY <1>1, <3>2, <3>3
  <2> QED BY <1>2, <2>1, <2>2, <2>4 DEF Once, DigestedIsCovered
<1>11. CASE CompactClear(w)
  <2>1. UNCHANGED episodes /\ job[w].pc = "clear" /\ job'[w] = Idle
    BY <1>0, <1>11 DEF CompactClear, Return, Becomes
  <2> QED BY <1>5, <2>1 DEF Compacting, Idle
<1> QED BY <1>6, <1>7, <1>8, <1>9, <1>10, <1>11 DEF CompactStep

\* overlap and the count of faults only grow, so what held while all was calm held before.
LEMMA NextOnce == Safe /\ (Calm => Once) /\ [Next]_vars => (Calm => Once)'
<1> SUFFICES ASSUME Safe, Calm => Once, [Next]_vars, Calm' PROVE Once'
  OBVIOUS
<1>0. Safe' /\ Grows /\ Shape
  BY NextSafe, StepGrows DEF Safe
<1>1. Idle.pc = "idle" /\ used.faults \in Nat
  BY <1>0 DEF Idle, Shape, HistoryOK
<1>10. ASSUME NEW n PROVE /\ [used EXCEPT !.appends = n].faults = used.faults
                          /\ [used EXCEPT !.unanswered = n].faults = used.faults
                          /\ [used EXCEPT !.compacts = n].faults = used.faults
                          /\ [used EXCEPT !.episodes = n].faults = used.faults
  BY <1>0 DEF Shape, HistoryOK
<1>2. CASE UNCHANGED vars
  BY <1>0, <1>2, OnceStays DEF vars, Calm
<1>3. ASSUME NEW w \in Workers, AppendStart(w) \/ AppendStep(w) PROVE Once'
  <2>1. Calm /\ UNCHANGED episodes
    <3>1. AppendStep(w) => UNCHANGED <<episodes, overlap, used>>
      BY DEF AppendStep, AppendReadSession, AppendCreateSession, AppendRecheckSession,
         AppendLookup, AppendProbe, AppendEmbed, AppendBackfill, AppendInsert, AppendReprobe,
         AppendNotes, AppendReply, ReadOnly, table
    <3>2. AppendStart(w) => UNCHANGED <<episodes, overlap>> /\ used'.faults = used.faults
      BY <1>10 DEF AppendStart, table
    <3> QED BY <1>3, <3>1, <3>2 DEF Calm
  <2>2. \A v \in Workers : Compacting(v) \/ Compacting(v)' => job'[v] = job[v]
    BY <1>0, <1>1, <1>3, AppendPlace DEF MovesTo, Appending, Compacting
  <2> QED BY <1>0, <2>1, <2>2, OnceStays
<1>4. ASSUME NEW w \in Workers, NEW s \in Sessions, CompactStart(w, s) PROVE Once'
  <2>1. /\ Calm /\ UNCHANGED <<events, episodes>> /\ job[w].pc = "idle"
        /\ \A v \in Workers : Compacting(v) => job[v].session # s
    BY <1>4, <1>10 DEF CompactStart, Calm, table
  <2>2. /\ \A v \in Workers \ {w} : job'[v] = job[v]
        /\ job'[w].pc = "read" /\ job'[w].session = s
    BY <1>0, <1>4 DEF CompactStart, Becomes, Idle, Shape, JobsOK
  <2>3. OneAtATime'
    BY <2>1, <2>2 DEF Once, OneAtATime, Compacting
  <2>4. DisjointEpisodes' /\ TakenIsFresh' /\ DigestedIsCovered'
    BY <2>1, <2>2 DEF Once, DisjointEpisodes, TakenIsFresh, DigestedIsCovered
  <2> QED BY <2>3, <2>4 DEF Once
<1>5. ASSUME NEW w \in Workers, CompactStep(w) PROVE Once'
  <2>1. Calm
    <3>1. CompactInsertEpisode(w) => UNCHANGED overlap /\ used'.faults = used.faults
      BY <1>10 DEF CompactInsertEpisode
    <3>2. CompactRead(w) => UNCHANGED overlap /\ used'.faults = used.faults
      BY <1>10 DEF CompactRead
    <3>3. CompactStep(w) =>
            CompactInsertEpisode(w) \/ CompactRead(w) \/ UNCHANGED <<overlap, used>>
      BY DEF CompactStep, CompactUpdate, CompactInsertNarrative, CompactMark, CompactClear
    <3> QED BY <1>5, <3>1, <3>2, <3>3 DEF Calm
  <2> QED BY <1>0, <1>5, <2>1, CompactOnce
<1>6. Crash \/ (\E w \in Workers : StepFails(w) \/ NotesStepFails(w)) => FALSE
  <2>1. Fault => used'.faults = used.faults + 1
    BY <1>0 DEF Fault, Shape, HistoryOK
  <2> QED BY <1>1, <2>1 DEF Crash, StepFails, NotesStepFails, Calm
<1> QED BY <1>2, <1>3, <1>4, <1>5, <1>6 DEF Next

\* While no two compactions of a session overlap and nothing fails, no event is told of by two
\* episodes.
THEOREM EachEventDigestedOnce == Spec => []DigestedOnce
<1>1. Init => (Calm => Once)
  BY DEF Init, Once, DisjointEpisodes, OneAtATime, TakenIsFresh, DigestedIsCovered, Compacting,
     Idle
<1>2. (Calm => Once) => DigestedOnce
  BY DEF Calm, Once, DisjointEpisodes, DigestedOnce
<1> QED BY <1>1, <1>2, NextOnce, AlwaysSafe, PTL DEF Spec

--------------------------------------------------------------------------------
(***************************************************************************)
(* SessionPipeline implements EventLog: insert_event_idempotent accepts,   *)
(* insert_episode digests, mark_events_processed retires, and every other  *)
(* statement leaves what the event log shows alone.                        *)
(***************************************************************************)

View == <<AcceptedLog, Digests, Retired>>

\* A step that stores no new event, processes none and adds no episode.
Silent ==
    /\ \A e \in EventIds : Stored(e)' => Stored(e)
    /\ \A e \in EventIds : Stored(e) => (events'[e].processed => events[e].processed)
    /\ UNCHANGED episodes

LEMMA LogStays ==
    ASSUME Shape, Grows, \A e \in EventIds : Stored(e)' => Stored(e)
    PROVE  AcceptedLog' = AcceptedLog
<1>1. \A e \in EventIds : Stored(e)' <=> Stored(e)
  BY DEF Grows, Stored
<1>2. \A e \in EventIds : Stored(e) =>
         /\ events'[e].session = events[e].session
         /\ events'[e].user = events[e].user
         /\ events'[e].body = events[e].body
  BY DEF Grows, ExactReplay
<1> QED BY <1>1, <1>2 DEF AcceptedLog, Payload

LEMMA StoredIsAccepted ==
    ASSUME Shape, NEW e \in EventIds, Stored(e)
    PROVE  /\ AcceptedLog[e] # NoRow
           /\ AcceptedLog[e].session = events[e].session
           /\ AcceptedLog[e].user = events[e].user
<1>1. events[e] \in Rows
  BY DEF Shape, TablesOK, Stored
<1>2. Payload(events[e]) \in Payloads
  BY <1>1 DEF Payload, Payloads, Rows
<1> QED BY <1>2, ConstantsAssumption DEF AcceptedLog, Payload

LEMMA SilentStutters ==
    ASSUME Shape, Shape', Grows, Silent
    PROVE  UNCHANGED View
<1>1. AcceptedLog' = AcceptedLog
  BY LogStays DEF Silent
<1>2. Retired' = Retired
  <2>1. \A e \in EventIds : Stored(e) => events[e].processed \in BOOLEAN
    BY DEF Shape, TablesOK, Stored, Rows
  <2>2. \A e \in EventIds : Stored(e)' => events'[e].processed \in BOOLEAN
    BY DEF Shape, TablesOK, Stored, Rows
  <2>3. \A e \in EventIds : Stored(e)' /\ events'[e].processed <=> Stored(e) /\ events[e].processed
    BY <2>1, <2>2 DEF Silent, Grows, Stored
  <2> QED BY <2>3 DEF Retired
<1> QED BY <1>1, <1>2 DEF Silent, Digests, View

LEMMA UnchangedStutters ==
    ASSUME UNCHANGED <<events, episodes>>
    PROVE  UNCHANGED View
  BY DEF View, AcceptedLog, Digests, Retired, Stored

\* insert_event_idempotent accepts the message or finds the id taken.
LEMMA InsertAccepts ==
    ASSUME Shape, Shape', Grows, NEW w \in Workers, AppendInsert(w)
    PROVE  [Abstract!Next]_View
<1>0. JobOK(job[w])
  BY DEF Shape, JobsOK
<1>1. PICK i \in job[w].fresh :
        LET m == job[w].msgs[i]
        IN  \/ UNCHANGED events
            \/ /\ events[m.id] = NoRow
               /\ events' = [events EXCEPT ![m.id] =
                     [session |-> job[w].session, user |-> job[w].user, body |-> m.body,
                      vec |-> IF job[w].emb THEN "raw" ELSE "null",
                      purified |-> FALSE, processed |-> FALSE]]
  BY DEF AppendInsert
<1> DEFINE m == job[w].msgs[i]
           r == [session |-> job[w].session, user |-> job[w].user, body |-> m.body,
                 vec |-> IF job[w].emb THEN "raw" ELSE "null",
                 purified |-> FALSE, processed |-> FALSE]
           p == [session |-> job[w].session, user |-> job[w].user, body |-> m.body]
<1>2. UNCHANGED episodes
  BY DEF AppendInsert
<1>3. CASE UNCHANGED events
  BY <1>2, <1>3, UnchangedStutters
<1>4. CASE events[m.id] = NoRow /\ events' = [events EXCEPT ![m.id] = r]
  <2>1. i \in 1 .. Len(job[w].msgs)
    BY <1>0 DEF JobOK
  <2>2. m.id \in EventIds /\ m.body \in Bodies
    BY <1>0, <2>1, MessageType
  <2>3. job[w].session \in Sessions /\ job[w].user \in Users
    BY <1>0 DEF JobOK, AppendInsert
  <2>4. p \in Abstract!Payloads
    BY <2>2, <2>3 DEF Abstract!Payloads
  <2>5. events'[m.id] = r /\ r # NoRow
    <3>1. r \in Rows
      BY <2>2, <2>3 DEF Rows, Vectors
    <3> HIDE DEF r
    <3> QED BY <1>4, <2>2, <3>1, ConstantsAssumption DEF Shape, TablesOK
  <2>6. \A e \in EventIds : e # m.id => events'[e] = events[e]
    BY <1>4 DEF Shape, TablesOK
  <2>7. AcceptedLog[m.id] = NoRow
    BY <1>4, <2>2 DEF AcceptedLog, Stored
  <2>8. AcceptedLog' = [AcceptedLog EXCEPT ![m.id] = p]
    <3>1. r.session = p.session /\ r.user = p.user /\ r.body = p.body
      OBVIOUS
    <3>2. p = [session |-> p.session, user |-> p.user, body |-> p.body]
      OBVIOUS
    <3> HIDE DEF p, r
    <3>3. events'[m.id] # NoRow /\ Payload(events'[m.id]) = p
      BY <2>5, <3>1, <3>2 DEF Payload
    <3>4. \A e \in EventIds : AcceptedLog'[e] = IF e = m.id THEN p ELSE AcceptedLog[e]
      BY <2>6, <3>3 DEF AcceptedLog, Stored, Payload
    <3>5. DOMAIN AcceptedLog' = EventIds /\ DOMAIN AcceptedLog = EventIds
      BY DEF AcceptedLog
    <3> QED BY <2>2, <3>4, <3>5 DEF AcceptedLog
  <2>9. Digests' = Digests
    BY <1>2 DEF Digests
  <2>10. Retired' = Retired
    BY <1>4, <2>2, <2>5, <2>6 DEF Retired, Stored
  <2>11. Abstract!Accept(m.id, p)
    BY <2>7, <2>8, <2>9, <2>10 DEF Abstract!Accept
  <2> QED BY <2>2, <2>4, <2>11 DEF Abstract!Next
<1> QED BY <1>1, <1>3, <1>4

\* insert_episode digests the events taken, all of the session and its owner.
LEMMA EpisodeDigests ==
    ASSUME Safe, Shape', Grows, NEW w \in Workers, CompactInsertEpisode(w)
    PROVE  [Abstract!Next]_View
<1> DEFINE s == job[w].session
           u == job[w].user
           E == job[w].taken
<1>0. JobOK(job[w]) /\ DigestSound(job[w])
  BY DEF Safe, Shape, JobsOK, JobsSound, JobSound
<1>1. job[w].pc = "update"
  BY DEF CompactInsertEpisode
<1>2. s \in Sessions /\ u \in Users /\ E \in SUBSET EventIds
  BY <1>0, <1>1 DEF JobOK, JobType
<1>3. E # {} /\ Together(s, u, E)
  BY <1>0, <1>1 DEF DigestSound, Digesting
<1>4. \A e \in E : /\ AcceptedLog[e] # NoRow
                   /\ AcceptedLog[e].session = s /\ AcceptedLog[e].user = u
  BY <1>2, <1>3, StoredIsAccepted DEF Together, Safe
<1>5. Digests' = Digests \cup {[session |-> s, user |-> u, events |-> E]}
  <2> DEFINE x == [id |-> used.episodes + 1, session |-> job[w].session,
                   user |-> job[w].user, events |-> job[w].taken, about |-> job[w].about]
  <2>1. episodes' = episodes \cup {x}
    BY Zenon DEF CompactInsertEpisode
  <2> DEFINE D(ep) == [session |-> ep.session, user |-> ep.user, events |-> ep.events]
  <2>2. D(x) = [session |-> s, user |-> u, events |-> E]
    OBVIOUS
  <2>3. \A d : d \in Digests <=> \E ep \in episodes : d = D(ep)
    BY DEF Digests
  <2>4. \A d : d \in Digests' <=> \E ep \in episodes' : d = D(ep)
    BY DEF Digests
  <2> HIDE DEF D, x
  <2> QED BY <2>1, <2>2, <2>3, <2>4
<1>6. AcceptedLog' = AcceptedLog /\ Retired' = Retired
  BY DEF CompactInsertEpisode, AcceptedLog, Retired, Stored
<1>7. Abstract!Digest(s, u, E)
  BY <1>3, <1>4, <1>5, <1>6 DEF Abstract!Digest
<1> QED BY <1>2, <1>7 DEF Abstract!Next

\* mark_events_processed retires the events of the episode that covers them.
LEMMA MarkRetires ==
    ASSUME Safe, Shape', Grows, NEW w \in Workers, CompactMark(w)
    PROVE  [Abstract!Next]_View
<1> DEFINE E == job[w].taken
<1>0. JobOK(job[w]) /\ DigestSound(job[w])
  BY DEF Safe, Shape, JobsOK, JobsSound, JobSound
<1>1. job[w].pc = "mark"
  BY DEF CompactMark
<1>2. E \in SUBSET EventIds /\ \A e \in E : Stored(e)
  BY <1>0, <1>1 DEF JobOK, JobType, DigestSound, Digesting, Together
<1>3. PICK ep \in episodes : ep.events = E
  BY <1>0, <1>1 DEF DigestSound, Digesting
<1> DEFINE d == [session |-> ep.session, user |-> ep.user, events |-> ep.events]
<1>4. d \in Digests /\ d.events = E
  BY <1>3 DEF Digests
<1> HIDE DEF d
<1>5. \A e \in EventIds : events'[e] = IF e \in E THEN [events[e] EXCEPT !.processed = TRUE]
                                                  ELSE events[e]
  BY <1>2 DEF CompactMark
<1>6. \A e \in EventIds : Stored(e) => events[e] \in Rows
  BY DEF Safe, Shape, TablesOK, Stored
<1>7. \A e \in EventIds : Stored(e)' <=> Stored(e)
  <2>1. \A e \in EventIds : Stored(e) => Stored(e)'
    BY DEF Grows, Stored
  <2> QED BY <1>2, <1>5, <2>1 DEF Stored
<1>8. AcceptedLog' = AcceptedLog
  BY <1>7, LogStays DEF Safe
<1>9. Retired' = Retired \cup E
  <2>1. \A e \in E : events'[e].processed
    BY <1>2, <1>5, <1>6 DEF Rows
  <2>2. \A e \in EventIds \ E : events'[e] = events[e]
    BY <1>5
  <2> QED BY <1>2, <1>7, <2>1, <2>2 DEF Retired
<1>10. Digests' = Digests
  BY DEF CompactMark, Digests
<1>11. Abstract!Retire(d)
  BY <1>4, <1>8, <1>9, <1>10 DEF Abstract!Retire
<1> QED BY <1>4, <1>11 DEF Abstract!Next

\* The two statements that write vectors change nothing the event log shows.
LEMMA VectorsStutter ==
    ASSUME Shape, Shape', Grows, NEW w \in Workers, AppendBackfill(w) \/ CompactUpdate(w)
    PROVE  UNCHANGED View
<1>1. UNCHANGED episodes
  BY DEF AppendBackfill, CompactUpdate
<1>2. CASE UNCHANGED events
  BY <1>1, <1>2, UnchangedStutters
<1>3. ASSUME NEW x, Stored(x),
             \/ events' = [events EXCEPT ![x].vec = "raw"]
             \/ events' = [events EXCEPT ![x].vec = "purified", ![x].purified = TRUE]
      PROVE  UNCHANGED View
  <2>1. \A e \in EventIds : e # x => events'[e] = events[e]
    BY <1>3 DEF Shape, TablesOK
  <2>2. \A e \in EventIds : Stored(e) => events[e] \in Rows
    BY DEF Shape, TablesOK, Stored
  <2>3. x \in EventIds => events'[x].processed = events[x].processed
    BY <1>3, <2>2 DEF Shape, TablesOK, Rows
  <2>4. Silent
    BY <1>1, <1>3, <2>1, <2>3 DEF Silent, Stored
  <2> QED BY <2>4, SilentStutters
<1> QED BY <1>2, <1>3 DEF AppendBackfill, CompactUpdate

LEMMA InitRefines == Init => Abstract!Init
  BY DEF Init, Abstract!Init, AcceptedLog, Digests, Retired, Stored

LEMMA StepRefines == Safe /\ Shape' /\ [Next]_vars => [Abstract!Next]_View
<1> SUFFICES ASSUME Safe, Shape', [Next]_vars PROVE [Abstract!Next]_View
  OBVIOUS
<1>1. Shape /\ Grows
  BY StepGrows DEF Safe
<1>2. CASE UNCHANGED <<events, episodes>>
  BY <1>2, UnchangedStutters
<1>3. ASSUME NEW w \in Workers, AppendStart(w) \/ AppendStep(w) PROVE [Abstract!Next]_View
  <2>1. CASE AppendInsert(w)
    BY <1>1, <2>1, InsertAccepts
  <2>2. CASE AppendBackfill(w)
    BY <1>1, <2>2, VectorsStutter
  <2>3. ~AppendInsert(w) /\ ~AppendBackfill(w) => UNCHANGED <<events, episodes>>
    BY <1>3 DEF AppendStart, AppendStep, AppendReadSession, AppendCreateSession,
       AppendRecheckSession, AppendLookup, AppendProbe, AppendEmbed, AppendReprobe,
       AppendNotes, AppendReply, ReadOnly, table
  <2> QED BY <1>2, <2>1, <2>2, <2>3
<1>4. ASSUME NEW w \in Workers, CompactStep(w) \/ \E s \in Sessions : CompactStart(w, s)
      PROVE  [Abstract!Next]_View
  <2>1. CASE CompactUpdate(w)
    BY <1>1, <2>1, VectorsStutter
  <2>2. CASE CompactInsertEpisode(w)
    BY <1>1, <2>2, EpisodeDigests
  <2>3. CASE CompactMark(w)
    BY <1>1, <2>3, MarkRetires
  <2>4. ~CompactUpdate(w) /\ ~CompactInsertEpisode(w) /\ ~CompactMark(w) =>
           UNCHANGED <<events, episodes>>
    BY <1>4 DEF CompactStart, CompactStep, CompactRead, CompactInsertNarrative, CompactClear,
       ReadOnly, table
  <2> QED BY <1>2, <2>1, <2>2, <2>3, <2>4
<1>5. ASSUME Crash \/ \E w \in Workers : StepFails(w) \/ NotesStepFails(w)
      PROVE  [Abstract!Next]_View
  BY <1>2, <1>5 DEF Crash, StepFails, NotesStepFails, table
<1>6. UNCHANGED vars => UNCHANGED <<events, episodes>>
  BY DEF vars
<1> QED BY <1>2, <1>3, <1>4, <1>5, <1>6 DEF Next

\* Every behaviour of the pipeline, for any number of threads, requests and faults, is a
\* behaviour of the event log: an id is accepted once, a digest covers accepted events of
\* one session and owner, and only what a digest covers is retired.
THEOREM PipelineImplementsEventLog == Spec => ImplementsEventLog
<1>1. Safe /\ [Next]_vars /\ Safe' => [Abstract!Next]_View
  BY StepRefines DEF Safe
<1> QED BY <1>1, InitRefines, AlwaysSafe, PTL DEF Spec, ImplementsEventLog, Abstract!Spec, View
================================================================================
