------------------------------ MODULE SessionReads ------------------------------
(* What is read of the session pipeline: the pages of the lists of events, sessions and       *)
(* episodes and of an episode's messages, beside rows that come and go; the context of a       *)
(* session within a budget; and the search for episodes, whose channels read the store one     *)
(* after the other.                                                                           *)
EXTENDS Naturals, Sequences, FiniteSets, SequencesExt

CONSTANTS
    Stocks,       \* the numbers of rows that there may be at first, of a list or a session
    MaxRows,      \* bound: rows that there are or that appear
    MaxDeleted,   \* bound: rows that are deleted meanwhile
    PageSizes, Budgets

ASSUME SessionReadsAssumption ==
    /\ Stocks \subseteq Nat /\ MaxRows \in Nat /\ MaxDeleted \in Nat
    /\ PageSizes \subseteq Nat \ {0} /\ Budgets \subseteq Nat

VARIABLES
    wanted,      \* the read that this behaviour is about
    line,        \* the rows by their time, oldest first; the episodes of a search by their distance
    appeared,    \* the number of rows so far
    removed,     \* rows deleted since the read began
    purified,    \* the events with purified content
    large,       \* the events of two tokens; the others have one
    mentioned,   \* the episodes that name an entity of the query, by their significance
    reading      \* the read, the rows it has returned so far, and what its caller could expect

readsVars == <<wanted, line, appeared, removed, purified, large, mentioned, reading>>

Unread == [at |-> "idle", size |-> 0, offset |-> 0, rows |-> << >>, told |-> << >>, named |-> << >>, grown |-> 0]
Paged == {"events", "sessions", "episodes", "messages"}

ReadsInit ==
    /\ wanted \in Paged \cup {"context", "search"}
    /\ \E n \in IF wanted = "search" THEN {4} ELSE Stocks : line = [i \in 1..n |-> i]
    /\ appeared = Len(line) /\ removed = {}
    /\ purified \in IF wanted = "context" THEN SUBSET Range(line) ELSE {{}}
    /\ large \in IF wanted = "context" THEN SUBSET Range(line) ELSE {{}}
    /\ mentioned \in IF wanted = "search" THEN SetToAllKPermutations(Range(line)) ELSE {<<>>}
    /\ reading = Unread

FirstOf(list, n) == IF n < Len(list) THEN SubSeq(list, 1, n) ELSE list
Skip(list, n) == SubSeq(list, n + 1, Len(list))
\* Those of the list that are in S, in their order
Kept(list, S) ==
    LET kept[n \in 0..Len(list)] ==
            IF n = 0 THEN << >> ELSE IF list[n] \in S THEN Append(kept[n - 1], list[n]) ELSE kept[n - 1]
    IN  kept[Len(list)]

\* A row comes at any place of the order: an event may be told with a timestamp of its own.
Appears ==
    /\ reading.at = "walk" /\ appeared < MaxRows
    /\ appeared' = appeared + 1
    /\ \E i \in 1..(Len(line) + 1) : line' = InsertAt(line, i, appeared + 1)
    /\ reading' = [reading EXCEPT !.grown = @ + 1]
    /\ UNCHANGED <<wanted, removed, purified, large, mentioned>>

\* delete_session, delete_episode, or delete_user_data for the events
Disappears ==
    /\ wanted # "context" /\ reading.at \in {"walk", "vectors"} /\ Cardinality(removed) < MaxDeleted
    /\ \E i \in DOMAIN line : line' = RemoveAt(line, i) /\ removed' = removed \cup {line[i]}
    /\ UNCHANGED <<wanted, appeared, purified, large, mentioned, reading>>

--------------------------------------------------------------------------------
(* Pages *)

\* list_events: the newest first, up to a limit
EventList(limit) == FirstOf(Reverse(line), limit)
\* get_events_by_ids_for_user: those that are left, by their time
ByIds(ids) == Kept(line, Range(ids))
\* list_sessions and list_episodes_paged, with LIMIT and OFFSET
ListSessions(size, offset) == FirstOf(Skip(Reverse(line), offset), size)
ListEpisodes(size, offset) == FirstOf(Skip(Reverse(line), offset), size)

\* Mutant: the events before the offset are not asked for.
PageOfLimit(size, offset) ==
    CASE wanted = "events" -> FirstOf(Skip(EventList(size), offset), size)
      [] wanted = "messages" -> ByIds(FirstOf(Skip(reading.told, offset), size))
      [] wanted = "sessions" -> ListSessions(size, offset)
      [] wanted = "episodes" -> ListEpisodes(size, offset)

\* get_session_events asks for the events before the offset too and skips them; get_episode_messages takes
\* a page of the episode's list of events, and then their rows.
PageOf(size, offset) ==
    CASE wanted = "events" -> FirstOf(Skip(EventList(size + offset), offset), size)
      [] wanted = "messages" -> ByIds(FirstOf(Skip(reading.told, offset), size))
      [] wanted = "sessions" -> ListSessions(size, offset)
      [] wanted = "episodes" -> ListEpisodes(size, offset)

\* A walk begins; an episode's list of events is its own and does not change.
WalkPages ==
    /\ wanted \in Paged /\ reading.at = "idle"
    /\ \E size \in PageSizes : reading' = [Unread EXCEPT !.at = "walk", !.size = size, !.told = line]
    /\ UNCHANGED <<wanted, line, appeared, removed, purified, large, mentioned>>

\* It ends at the first page that is not full, of an episode's messages at the end of its list.
NextPage ==
    /\ reading.at = "walk"
    /\ LET page == PageOf(reading.size, reading.offset)
           offset == reading.offset + reading.size
           over == IF wanted = "messages" THEN offset >= Len(reading.told) ELSE Len(page) < reading.size
       IN  reading' = [reading EXCEPT !.rows = @ \o page, !.offset = offset, !.at = IF over THEN "done" ELSE "walk"]
    /\ UNCHANGED <<wanted, line, appeared, removed, purified, large, mentioned>>

--------------------------------------------------------------------------------
(* get_session_context *)

Tokens(x) == IF x \in large THEN 2 ELSE 1
TokensOf(list) == Len(list) + Cardinality(Range(list) \cap large)

\* The events as they are walked, the newest first: one is taken if it fits, and the first that does not ends it.
Taken(budget, event, context) ==
    IF context.full THEN context
    ELSE IF context.tokens + Tokens(event) <= budget
    THEN [context EXCEPT !.tokens = @ + Tokens(event), !.events = <<event>> \o @]
    ELSE [context EXCEPT !.full = TRUE]

\* The oldest events up to max_events, and of these the newest that fit.  The session has no summary: the
\* query looks for another spelling of "narrative" than is stored.
EventsRead(most, alsoRaw) == Kept(FirstOf(line, most), IF alsoRaw THEN Range(line) ELSE purified)
Context(events, budget) ==
    LET after[n \in 0..Len(events)] ==
            IF n = 0 THEN [tokens |-> 0, events |-> << >>, full |-> FALSE]
            ELSE Taken(budget, events[Len(events) + 1 - n], after[n - 1])
    IN  after[Len(events)]

ReadContext ==
    /\ wanted = "context" /\ reading.at = "idle"
    /\ \E most \in PageSizes, budget \in Budgets, alsoRaw \in BOOLEAN :
          reading' = [Unread EXCEPT !.at = "done", !.size = budget,
                                    !.told = EventsRead(most, alsoRaw),
                                    !.rows = Context(EventsRead(most, alsoRaw), budget).events]
    /\ UNCHANGED <<wanted, line, appeared, removed, purified, large, mentioned>>

--------------------------------------------------------------------------------
(* search_episodes *)

Rank(list, x) == CHOOSE i \in DOMAIN list : list[i] = x
\* bound: a search looks at four episodes, for which the ranks' product below makes the shares exact.
\* rrf_fuse_episodes: ten times the weights 0.4 and 0.3, over the rank and 60, times the ranks' product
Parts == 61 * 62 * 63 * 64
Share(list, x, weight) == IF x \in Range(list) THEN weight * (Parts \div (60 + Rank(list, x))) ELSE 0
Score(near, named, x) == Share(near, x, 4) + Share(named, x, 3)

\* Equal scores come in any order.
FuseEpisodes(near, named) ==
    {list \in SetToSeqs(Range(near) \cup Range(named)) :
        \A i, j \in DOMAIN list : i < j => Score(near, named, list[i]) >= Score(near, named, list[j])}

\* search_episodes_by_vector: three candidates for each result.  Dates and significance are not looked at.
SearchVectors ==
    /\ wanted = "search" /\ reading.at = "idle"
    /\ \E limit \in PageSizes : reading' = [Unread EXCEPT !.at = "vectors", !.size = limit, !.told = FirstOf(line, 3 * limit)]
    /\ UNCHANGED <<wanted, line, appeared, removed, purified, large, mentioned>>

\* The full-text channel has no index that its query names, and its error is logged, as one of the lookup of
\* the entities' episodes would be; an error of the spread to the entities ends the search.
SearchEntities ==
    /\ reading.at = "vectors"
    /\ LET named == FirstOf(Kept(mentioned, Range(line)), 3 * reading.size)
       IN  \/ \E entities \in {named, << >>} :
              \E fused \in FuseEpisodes(reading.told, entities) :
                 reading' = [reading EXCEPT !.at = "done", !.named = entities, !.rows = FirstOf(fused, reading.size)]
           \/ reading' = [Unread EXCEPT !.at = "failed"]
    /\ UNCHANGED <<wanted, line, appeared, removed, purified, large, mentioned>>

ReadsNext == Appears \/ Disappears \/ WalkPages \/ NextPage \/ ReadContext \/ SearchVectors \/ SearchEntities

ReadsSpec == ReadsInit /\ [][ReadsNext]_readsVars

--------------------------------------------------------------------------------
(* Properties *)

\* A walk over the pages gives each row that was there all the while, but for one that each deletion before
\* its page moves to the page before, and repeats a row only if another one came in meanwhile; the messages
\* of an episode are neither missed nor repeated, whatever comes and goes.
PagesMissNothing ==
    LET rows == reading.rows
        missed == (Range(reading.told) \ removed) \ Range(rows)
    IN  reading.at = "done" /\ wanted \in Paged =>
            /\ Cardinality(missed) <= IF wanted = "messages" THEN 0 ELSE Cardinality(removed)
            /\ Len(rows) - Cardinality(Range(rows)) <= IF wanted = "messages" THEN 0 ELSE reading.grown

\* The context of a session leaves no gap: it is the end of what was read, in order, it keeps to its budget,
\* and one event more would not.
ContextHasNoGap ==
    reading.at = "done" /\ wanted = "context" =>
        LET events == reading.rows
            n == Len(reading.told) - Len(events)
        IN  /\ n >= 0 /\ events = Skip(reading.told, n)
            /\ TokensOf(events) <= reading.size
            /\ n > 0 => TokensOf(Skip(reading.told, n - 1)) > reading.size

\* An episode that each channel ranks at least as high as another one, and one of them higher, comes first
\* and is not left out for it, although the channels read the store at different times.
BetterEpisodesFirst ==
    reading.at = "done" /\ wanted = "search" =>
        LET channels == {reading.told, reading.named}
            Higher(list, x, y) == x \in Range(list) /\ (y \in Range(list) => Rank(list, x) < Rank(list, y))
        IN  \A x \in UNION {Range(list) : list \in channels}, y \in Range(reading.rows) :
                (/\ \A list \in channels : Higher(list, x, y) \/ {x, y} \cap Range(list) = {}
                 /\ \E list \in channels : Higher(list, x, y))
                    => x \in Range(reading.rows) /\ Rank(reading.rows, x) < Rank(reading.rows, y)

\* What is read of sessions and episodes is whole: pages beside rows that come and go, the context within
\* its budget, the episodes in the order of what each channel says of them.
ReadsAreWhole == PagesMissNothing /\ ContextHasNoGap /\ BetterEpisodesFirst
================================================================================
