------------------------------- MODULE Meditation -------------------------------
(* meditate (memory/meditation_ops.rs): episodes are turned into memories and into the  *)
(* entity graph, by any number of callers at once, in statements any of which may fail    *)
(* and between any two of which the process may die.  What a language model answers is    *)
(* any outcome, any number of times.  How a fact becomes a memory is in MemoryFeed: here  *)
(* an episode has one fact, and its memory is there or not.                              *)
EXTENDS Naturals, Sequences, FiniteSets

CONSTANTS
    Callers, Episodes,
    Gone,          \* the episodes none of whose events is left
    Mentions,      \* per episode: the names in it, in the model's order, the first related to the last
    BatchSize,     \* tuning.meditation_batch_size
    NoEpisode,
    MaxRuns, MaxErrors   \* bounds of the model

Mentioned == UNION {{Mentions[e][i] : i \in 1..Len(Mentions[e])} : e \in Episodes}

\* When no entity is named process returns at once (graph.rs:121): such an episode goes the way
\* of a disabled graph, and each of these has a name.
ASSUME MeditationAssumption ==
    /\ IsFiniteSet(Callers)
    /\ Gone \subseteq Episodes /\ NoEpisode \notin Episodes
    /\ Mentions \in [Episodes -> Seq(Mentioned) \ {<<>>}]
    /\ BatchSize \in Nat \ {0}
    /\ MaxRuns \in Nat /\ MaxErrors \in Nat

VARIABLES
    meditated,    \* the episodes with last_meditated_at set
    facts,        \* the episodes whose fact is a memory
    entities,     \* the name of each entity, by id
    relations,    \* the rows of the relations, pairs of ids
    links,        \* memory_entities
    record,       \* the status of the meditation records, by start
    aged,         \* the runs up to this one started longer ago than the cooldown
    caller,       \* per caller: how far its call of meditate has come
    excused,      \* history: episodes whose fact was given up, and the log alone knows
    again,        \* history: episodes that a run had in hand and left unmarked, or two shared
    digests,      \* history: how often each episode went to the model
    saw,          \* history: the records that were there when the caller's run was let in
    spent         \* history: runs, and failed statements and crashes, so far

store == <<meditated, facts, entities, relations, links, record, aged>>
tale == <<excused, again, digests, saw>>
medVars == <<store, caller, tale, spent>>

Resting == [pc |-> "idle", run |-> 0, todo |-> {}, marks |-> {}, at |-> NoEpisode, ids |-> <<>>, found |-> 0]

MedInit ==
    /\ meditated = {} /\ facts = {} /\ entities = <<>> /\ relations = <<>> /\ links = {}
    /\ record = [r \in 1..MaxRuns |-> "none"] /\ aged = 0
    /\ caller = [c \in Callers |-> Resting]
    /\ excused = {} /\ again = {} /\ digests = [e \in Episodes |-> 0]
    /\ saw = [c \in Callers |-> {}]
    /\ spent = [runs |-> 0, errors |-> 0]

Fine == UNCHANGED spent
Errs == spent.errors < MaxErrors /\ spent' = [spent EXCEPT !.errors = @ + 1]
At(c, pc) == caller[c].pc = pc
Goes(c, pc) == caller' = [caller EXCEPT ![c].pc = pc]

\* The episodes a run has fetched and has yet to mark.
InHand(c) == caller[c].todo \cup caller[c].marks

--------------------------------------------------------------------------------
(* The record of a run *)

Recorded == {r \in DOMAIN record : record[r] # "none"}

\* Mutant: a run that is still in progress does not count.
CompletedRecently ==
    \E last \in Recorded :
        /\ \A r \in Recorded : r <= last
        /\ record[last] = "completed" /\ last > aged

\* Only the latest record counts, by its start.
WithinCooldown ==
    \E last \in Recorded :
        /\ \A r \in Recorded : r <= last
        /\ record[last] \in {"completed", "running"} /\ last > aged

\* is_within_cooldown; a failing read lets the run in.  A run that is not let in changes nothing.
MedEnter(c) ==
    /\ At(c, "idle")
    /\ spent.runs < MaxRuns
    /\ caller' = [caller EXCEPT ![c].pc = "begin", ![c].run = spent.runs + 1]
    /\ \/ /\ ~WithinCooldown
          /\ saw' = [saw EXCEPT ![c] = Recorded]
          /\ spent' = [spent EXCEPT !.runs = @ + 1]
       \/ /\ spent.errors < MaxErrors
          /\ saw' = [saw EXCEPT ![c] = {}]
          /\ spent' = [spent EXCEPT !.runs = @ + 1, !.errors = @ + 1]
    /\ UNCHANGED <<store, excused, again, digests>>

\* insert_meditation, whose error ends the call, and consolidate, whose error ends it as well
\* and leaves the record running.
MedBegin(c) ==
    LET begun == record' = [record EXCEPT ![caller[c].run] = "running"]
    IN  /\ At(c, "begin")
        /\ \/ Fine /\ begun /\ Goes(c, "next")
           \/ Errs /\ (begun \/ UNCHANGED record) /\ caller' = [caller EXCEPT ![c] = Resting]
        /\ UNCHANGED <<meditated, facts, entities, relations, links, aged, tale>>

\* The record is completed or failed; when that fails it stays running.
MedFinish(c) ==
    /\ caller[c].pc \in {"completed", "failed"}
    /\ \/ Fine /\ record' = [record EXCEPT ![caller[c].run] = caller[c].pc]
       \/ Errs /\ UNCHANGED record
    /\ caller' = [caller EXCEPT ![c] = Resting]
    /\ UNCHANGED <<meditated, facts, entities, relations, links, aged, tale>>

\* The cooldown of the runs up to r passes.
CooldownPasses(r) ==
    /\ aged < r /\ r <= spent.runs
    /\ aged' = r
    /\ UNCHANGED <<meditated, facts, entities, relations, links, record, caller, tale, spent>>

--------------------------------------------------------------------------------
(* meditate_with_llm *)

\* An error that ends the run; the marks it has collected are not written.
Fails(c) ==
    /\ Errs
    /\ caller' = [caller EXCEPT ![c] = [Resting EXCEPT !.pc = "failed", !.run = caller[c].run]]
    /\ again' = again \cup InHand(c)

\* list_episodes_for_meditation
Fetchable == Episodes \ meditated

MedFetch(c) ==
    /\ At(c, "next") /\ InHand(c) = {}
    /\ \/ Fetchable = {} /\ Fine /\ Goes(c, "completed") /\ UNCHANGED again
       \/ /\ Fine
          /\ \E batch \in SUBSET Fetchable \ {{}} :
              /\ \/ batch = Fetchable /\ Cardinality(batch) <= BatchSize
                 \/ Cardinality(batch) = BatchSize
              /\ caller' = [caller EXCEPT ![c].todo = batch]
              /\ again' = again \cup (batch \cap UNION {InHand(d) : d \in Callers})
       \/ Fails(c)
    /\ UNCHANGED <<store, excused, digests, saw>>

\* An episode without events is marked at once, and an error of that is ignored; one of the look for them is not.
MedSkip(c) ==
    /\ At(c, "next")
    /\ \E e \in caller[c].todo \cap Gone :
        \/ /\ caller' = [caller EXCEPT ![c].todo = @ \ {e}]
           /\ \/ Fine /\ meditated' = meditated \cup {e}
              \/ Errs /\ UNCHANGED meditated
           /\ UNCHANGED again
        \/ Fails(c) /\ UNCHANGED meditated
    /\ UNCHANGED <<facts, entities, relations, links, record, aged, excused, digests, saw>>

\* Mutant: an episode whose extraction fails is passed over and not put down.
MedRetries(c) ==
    /\ At(c, "next")
    /\ \E e \in caller[c].todo \ Gone :
        \/ /\ Fine
           /\ digests' = [digests EXCEPT ![e] = IF @ < 2 THEN @ + 1 ELSE @]
           /\ UNCHANGED again
           /\ \/ caller' = [caller EXCEPT ![c].pc = "store", ![c].at = e] /\ UNCHANGED excused
              \/ caller' = [caller EXCEPT ![c].todo = @ \ {e}] /\ excused' = excused \cup {e}
        \/ Fails(c) /\ UNCHANGED <<digests, excused>>
    /\ UNCHANGED <<store, saw>>

\* Mutant: the episode is marked before its facts are stored.
MedMarksEarly(c) ==
    /\ At(c, "next")
    /\ \E e \in caller[c].todo \ Gone :
        /\ Fine
        /\ digests' = [digests EXCEPT ![e] = @ + 1]
        /\ caller' = [caller EXCEPT ![c].pc = "store", ![c].at = e]
        /\ meditated' = meditated \cup {e}
    /\ UNCHANGED <<facts, entities, relations, links, record, aged, again, excused, saw>>

\* The events are read and the model is asked for facts.  With none, with an error and after
\* the timeout alike the episode is put down to be marked.
MedExtract(c) ==
    /\ At(c, "next")
    /\ \E e \in caller[c].todo \ Gone :
        \/ /\ Fine
           /\ digests' = [digests EXCEPT ![e] = @ + 1]
           /\ UNCHANGED again
           /\ \/ caller' = [caller EXCEPT ![c].pc = "store", ![c].at = e] /\ UNCHANGED excused
              \/ /\ caller' = [caller EXCEPT ![c].todo = @ \ {e}, ![c].marks = @ \cup {e}]
                 /\ excused' = excused \cup {e}
        \/ Fails(c) /\ UNCHANGED <<digests, excused>>
    /\ UNCHANGED <<store, saw>>

\* The episode is put down to be marked, and the next one follows.
EpisodeDone(c) ==
    LET k == caller[c]
    IN  caller' = [caller EXCEPT ![c] = [Resting EXCEPT !.pc = "next", !.run = k.run,
                                                        !.todo = k.todo \ {k.at}, !.marks = k.marks \cup {k.at}]]

\* add_batch, and add of each when that fails; an add that fails as well is logged.  The graph
\* follows unless it is disabled, the time is up or the model fails.
MedStore(c) ==
    /\ At(c, "store")
    /\ \/ Fine /\ facts' = facts \cup {caller[c].at} /\ UNCHANGED excused
       \/ Errs /\ excused' = excused \cup {caller[c].at} /\ UNCHANGED facts
    /\ Goes(c, "look") \/ EpisodeDone(c)
    /\ UNCHANGED <<meditated, entities, relations, links, record, aged, again, digests, saw>>

--------------------------------------------------------------------------------
(* GraphProcessor::process *)

TheName(c) == Mentions[caller[c].at][Len(caller[c].ids) + 1]

\* find_entity_by_name: any entity of that name.
MedLook(c) ==
    /\ At(c, "look")
    /\ \/ /\ Fine
          /\ \E id \in 0..Len(entities) :
              /\ IF id = 0 THEN \A i \in DOMAIN entities : entities[i] # TheName(c) ELSE entities[id] = TheName(c)
              /\ caller' = [caller EXCEPT ![c].pc = "put", ![c].found = id]
       \/ Errs /\ EpisodeDone(c)
    /\ UNCHANGED <<store, tale>>

\* upsert_entity, in a statement of its own: the entity that was found, or a new one.
MedPut(c) ==
    LET new == caller[c].found = 0
        id == IF new THEN Len(entities) + 1 ELSE caller[c].found
        last == Len(caller[c].ids) + 1 = Len(Mentions[caller[c].at])
    IN  /\ At(c, "put")
        /\ \/ /\ Fine
              /\ entities' = IF new THEN Append(entities, TheName(c)) ELSE entities
              /\ caller' = [caller EXCEPT ![c].pc = IF last THEN "relate" ELSE "look",
                                          ![c].ids = Append(@, id), ![c].found = 0]
           \/ Errs /\ EpisodeDone(c) /\ UNCHANGED entities
        /\ UNCHANGED <<meditated, facts, relations, links, record, aged, tale>>

TheRelation(c) == <<caller[c].ids[1], caller[c].ids[Len(caller[c].ids)]>>

\* insert_relationship: the check, and the insert in a statement of its own.
MedRelate(c) ==
    /\ At(c, "relate")
    /\ \/ Fine /\ Goes(c, IF \E i \in DOMAIN relations : relations[i] = TheRelation(c) THEN "link" ELSE "insert")
       \/ Errs /\ EpisodeDone(c)
    /\ UNCHANGED <<store, tale>>

MedInsert(c) ==
    /\ At(c, "insert")
    /\ \/ Fine /\ relations' = Append(relations, TheRelation(c)) /\ Goes(c, "link")
       \/ Errs /\ EpisodeDone(c) /\ UNCHANGED relations
    /\ UNCHANGED <<meditated, facts, entities, links, record, aged, tale>>

\* link_memory_entity of the run's new memories; a link that fails is passed over.
MedLink(c) ==
    LET new == IF caller[c].at \in facts \ excused
               THEN {<<caller[c].at, caller[c].ids[i]>> : i \in DOMAIN caller[c].ids} ELSE {}
    IN  /\ At(c, "link")
        /\ \/ Fine /\ links' = links \cup new
           \/ Errs /\ \E L \in SUBSET new \ {new} : links' = links \cup L
        /\ EpisodeDone(c)
        /\ UNCHANGED <<meditated, facts, entities, relations, record, aged, tale>>

\* mark_episode_meditated of each episode put down; one that fails is logged.
MedMark(c) ==
    /\ At(c, "next") /\ caller[c].todo = {}
    /\ \E e \in caller[c].marks :
        /\ caller' = [caller EXCEPT ![c].marks = @ \ {e}]
        /\ \/ Fine /\ meditated' = meditated \cup {e} /\ UNCHANGED again
           \/ Errs /\ again' = again \cup {e} /\ UNCHANGED meditated
    /\ UNCHANGED <<facts, entities, relations, links, record, aged, excused, digests, saw>>

\* The process dies.
MedCrash ==
    /\ Errs
    /\ \E c \in Callers : ~At(c, "idle")
    /\ again' = again \cup UNION {InHand(c) : c \in Callers}
    /\ caller' = [c \in Callers |-> Resting]
    /\ UNCHANGED <<store, excused, digests, saw>>

--------------------------------------------------------------------------------
MedStep(c) ==
    \/ MedBegin(c) \/ MedFetch(c) \/ MedSkip(c) \/ MedExtract(c) \/ MedStore(c)
    \/ MedLook(c) \/ MedPut(c) \/ MedRelate(c) \/ MedInsert(c) \/ MedLink(c)
    \/ MedMark(c) \/ MedFinish(c)

MedNext ==
    \/ \E c \in Callers : MedEnter(c) \/ MedStep(c)
    \/ \E r \in 1..MaxRuns : CooldownPasses(r)
    \/ MedCrash

MedSpec == MedInit /\ [][MedNext]_medVars /\ \A c \in Callers : WF_medVars(MedStep(c))

--------------------------------------------------------------------------------
(* Properties *)

\* Looking a name up and inserting it are two statements: each caller may add an entity of a
\* name that has one, but no run adds two, however often the model names it, and once a name has
\* an entity no later run adds another.  Likewise for the rows of a relation between two entities.
TwinsAreFew ==
    LET few(N) == Cardinality(N) <= Cardinality(Callers) /\ Cardinality(N) <= spent.runs
    IN  /\ \A n \in Mentioned : few({i \in DOMAIN entities : entities[i] = n})
        /\ \A i \in DOMAIN relations : few({j \in DOMAIN relations : relations[j] = relations[i]})

\* An episode goes to the model a second time only if a run could not write its mark, or a
\* second run fetched it while a first had it in hand.
DigestedAgain == \A e \in Episodes : digests[e] > 1 => e \in again

\* An episode is marked only after its fact is a memory or was given up in the log, and is marked
\* so that it is not digested again: neither overlapping runs nor an error or a crash anywhere turn
\* an episode off whose fact is neither.  And what the episodes tell of is in the graph once, or as
\* often as looks for it overlapped.
MeditatedIsStored ==
    /\ meditated \subseteq Gone \cup facts \cup excused
    /\ DigestedAgain
    /\ TwinsAreFew

\* Two runs of the cooldown's length are in progress together only if the later one looked before
\* the earlier had its record, or a failed run between them hides the earlier one.
OneMeditation ==
    \A a, b \in Callers :
        LET r == caller[a].run s == caller[b].run
        IN  (0 < r /\ r < s /\ r > aged) =>
                r \notin saw[b] \/ \E f \in (r + 1)..(s - 1) : record[f] = "failed"

\* A call of meditate ends, whatever the model answers: an episode whose extraction fails is not
\* fetched for ever.
MeditationEnds == \A c \in Callers : caller[c].pc # "idle" ~> caller[c].pc = "idle"
================================================================================
