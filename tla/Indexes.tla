-------------------------------- MODULE Indexes --------------------------------
(* Opening a database (storage/mod.rs) and keeping its derived indexes: the vector      *)
(* index, the full-text index and the scope columns of old events.  The source tables     *)
(* are authoritative; the process may die between any two statements that are not in one   *)
(* transaction.  SQLite's DDL and each statement commit on their own otherwise.            *)
(*                                                                                     *)
(* A row is there with the number of its latest edit as its content, or not at all (0).     *)
EXTENDS Integers, FiniteSets

CONSTANTS
    RowIds,
    Columns,         \* the scope columns that events had only in their metadata once
    Rebuilders,      \* callers of rebuild_fts_index
    MaxEdits, MaxDeaths   \* bounds of the model

Tables == {"memories", "events"}

\* What open is at; while it fills a column or a table, it is at that.
Stages == {"down", "drop", "make", "migrate", "words", "open"}

ASSUME IndexesAssumption ==
    /\ Columns # {} /\ Columns \cap (Tables \cup Stages) = {}
    /\ MaxEdits \in Nat /\ MaxDeaths \in Nat

VARIABLES
    source,      \* the source tables, as the content of each row
    vectors,     \* per table: whether its vector index is there, its layout, and its entries
    words,       \* per table: whether its full-text index is there, and its entries
    columns,     \* the scope columns that events have
    scoped,      \* per scope column: the events that carry their scope in it
    config,      \* memme_config: the version and the backend of the vector index
    opening,     \* how far open has come, "down" to "open": or the column or the table to be filled next
    existed,     \* open: vector_tables_existed
    rebuilding,  \* per rebuilder of the events' full-text index: its next statement
    hurt,        \* history: tables whose full-text index was dropped and not filled again
    halved,      \* history: columns added by a process that died before it filled them
    spentHere    \* history: edits and deaths so far

indexVars == <<source, vectors, words, columns, scoped, config, opening, existed, rebuilding, hurt, halved, spentHere>>
past == <<hurt, halved>>

There(t) == {id \in RowIds : source[t][id] # 0}
Entries(t) == {<<id, source[t][id]>> : id \in There(t)}
NoIndex == [there |-> FALSE, layout |-> "none", has |-> {}]
First(T) == IF "memories" \in T THEN "memories" ELSE "events"

\* The databases that earlier versions leave: with sqlite-vec data or with a vector index of an
\* earlier layout, with or without the scope columns and the full-text index; or none yet.
IndexInit ==
    /\ source \in [Tables -> [RowIds -> {0, 1}]]
    /\ \E layout \in {"none", "old", "current"} :
        /\ vectors = [t \in Tables |-> IF layout = "none" THEN NoIndex
                                       ELSE [there |-> TRUE, layout |-> layout, has |-> Entries(t)]]
        /\ config = [version |-> layout, backend |-> layout # "none"]
    /\ \E there \in BOOLEAN :
          words = [t \in Tables |-> [there |-> there, has |-> IF there THEN Entries(t) ELSE {}]]
    /\ columns \in SUBSET Columns
    /\ scoped = [c \in Columns |-> IF c \in columns THEN There("events") ELSE {}]
    /\ opening = "down" /\ existed = FALSE
    /\ rebuilding = [r \in Rebuilders |-> "idle"]
    /\ hurt = {} /\ halved = {}
    /\ spentHere = [edits |-> 1, deaths |-> 0]

--------------------------------------------------------------------------------
(* open_with_vexdb_lite, statement by statement *)

\* The vector tables are kept when both are there with the current layout; otherwise whatever is
\* there is dropped.
OpenCheck ==
    LET there == {t \in Tables : vectors[t].there}
        keeps == there = Tables /\ config.version = "current"
    IN  /\ opening = "down"
        /\ existed' = keeps
        /\ opening' = IF keeps \/ there = {} THEN "make" ELSE "drop"
        /\ UNCHANGED <<source, vectors, words, columns, scoped, config, rebuilding, past, spentHere>>

OpenDrop ==
    LET there == {t \in Tables : vectors[t].there}
    IN  /\ opening = "drop"
        /\ vectors' = [vectors EXCEPT ![First(there)] = NoIndex]
        /\ opening' = IF Cardinality(there) = 1 THEN "make" ELSE "drop"
        /\ UNCHANGED <<source, words, columns, scoped, config, existed, rebuilding, past, spentHere>>

\* create_vector_index_sql, IF NOT EXISTS
OpenMake ==
    LET missing == {t \in Tables : ~vectors[t].there}
    IN  /\ opening = "make"
        /\ IF missing = {} THEN opening' = "migrate" /\ UNCHANGED vectors
           ELSE /\ vectors' = [vectors EXCEPT ![First(missing)] = [there |-> TRUE, layout |-> "current", has |-> {}]]
                /\ UNCHANGED opening
        /\ UNCHANGED <<source, words, columns, scoped, config, existed, rebuilding, past, spentHere>>

\* run_migrations: a column that is missing is added and then, in a statement of its own, filled.
OpenAddColumn ==
    /\ opening = "migrate"
    /\ \E c \in Columns \ columns :
        /\ columns' = columns \cup {c}
        /\ halved' = halved \cup {c}
        /\ opening' = c
    /\ UNCHANGED <<source, vectors, words, scoped, config, existed, rebuilding, hurt, spentHere>>

OpenBackfill ==
    /\ opening \in Columns
    /\ scoped' = [scoped EXCEPT ![opening] = There("events")]
    /\ halved' = halved \ {opening}
    /\ opening' = "migrate"
    /\ UNCHANGED <<source, vectors, words, columns, config, existed, rebuilding, hurt, spentHere>>

\* Mutant: the index that open has just created is taken for a filled one.
OpenTrusts ==
    /\ opening = "migrate" /\ columns = Columns
    /\ vectors' = IF config.backend THEN vectors
                  ELSE [t \in Tables |-> [vectors[t] EXCEPT !.has = Entries(t)]]
    /\ config' = [version |-> "current", backend |-> TRUE]
    /\ opening' = "words"
    /\ UNCHANGED <<source, words, columns, scoped, existed, rebuilding, past, spentHere>>

\* ensure_vector_index: the entries and the version they have, in one transaction.
OpenIndex ==
    /\ opening = "migrate" /\ columns = Columns
    /\ vectors' = IF existed /\ config.backend THEN vectors
                  ELSE [t \in Tables |-> [vectors[t] EXCEPT !.has = Entries(t)]]
    /\ config' = [version |-> "current", backend |-> TRUE]
    /\ opening' = "words"
    /\ UNCHANGED <<source, words, columns, scoped, existed, rebuilding, past, spentHere>>

\* ensure_fts_indexes: an index that is missing is created, and filled in a statement of its own.
OpenWords ==
    LET missing == {t \in Tables : ~words[t].there}
    IN  /\ opening = "words"
        /\ IF missing = {} THEN opening' = "open" /\ UNCHANGED <<words, hurt>>
           ELSE /\ words' = [words EXCEPT ![First(missing)].there = TRUE]
                /\ hurt' = hurt \cup {First(missing)}
                /\ opening' = First(missing)
        /\ UNCHANGED <<source, vectors, columns, scoped, config, existed, rebuilding, halved, spentHere>>

OpenFill(t) ==
    /\ opening = t
    /\ words' = [words EXCEPT ![t].has = Entries(t)]
    /\ hurt' = hurt \ {t}
    /\ opening' = "words"
    /\ UNCHANGED <<source, vectors, columns, scoped, config, existed, rebuilding, halved, spentHere>>

--------------------------------------------------------------------------------
(* An open database: each write is one transaction over the row and its indexes *)

Edits == opening = "open" /\ spentHere.edits < MaxEdits /\ spentHere' = [spentHere EXCEPT !.edits = @ + 1]
NewText == spentHere.edits + 1

\* A full-text index is written only while it is there.
Wrote(t, has) == words' = IF words[t].there THEN [words EXCEPT ![t].has = has] ELSE words

\* insert_memory, insert_event_idempotent
RowInsert(t, id) ==
    /\ Edits
    /\ source[t][id] = 0
    /\ source' = [source EXCEPT ![t][id] = NewText]
    /\ vectors' = [vectors EXCEPT ![t].has = @ \cup {<<id, NewText>>}]
    /\ Wrote(t, words[t].has \cup {<<id, NewText>>})
    /\ scoped' = IF t = "events" THEN [c \in Columns |-> scoped[c] \cup {id}] ELSE scoped
    /\ UNCHANGED <<columns, config, opening, existed, rebuilding, past>>

\* update_memory, update_event_embedding: the vector is replaced.  The INSERT OR REPLACE of the
\* full-text index finds no row to replace, for its id is a column like any other.
RowUpdate(t, id) ==
    /\ Edits
    /\ source[t][id] # 0
    /\ source' = [source EXCEPT ![t][id] = NewText]
    /\ vectors' = [vectors EXCEPT ![t].has = {v \in @ : v[1] # id} \cup {<<id, NewText>>}]
    /\ Wrote(t, words[t].has \cup {<<id, NewText>>})
    /\ UNCHANGED <<columns, scoped, config, opening, existed, rebuilding, past>>

\* delete_memory, delete_memories_where, delete_user_events, delete_user_data and reset: the rows
\* and all their entries.
RowsDelete(gone) ==
    /\ Edits
    /\ source' = [t \in Tables |-> [id \in RowIds |-> IF id \in gone[t] THEN 0 ELSE source[t][id]]]
    /\ vectors' = [t \in Tables |-> [vectors[t] EXCEPT !.has = {v \in @ : v[1] \notin gone[t]}]]
    /\ words' = [t \in Tables |-> [words[t] EXCEPT !.has = {v \in @ : v[1] \notin gone[t]}]]
    /\ scoped' = [c \in Columns |-> scoped[c] \ gone["events"]]
    /\ UNCHANGED <<columns, config, opening, existed, rebuilding, past>>

\* rebuild_fts_index: the memories' index in one batch, under the connection's lock, and then the
\* events' index in three statements, with writes in between.
RebuildMemories(r) ==
    /\ opening = "open" /\ rebuilding[r] = "idle"
    /\ words' = [words EXCEPT !["memories"] = [there |-> TRUE, has |-> Entries("memories")]]
    /\ hurt' = hurt \ {"memories"}
    /\ rebuilding' = [rebuilding EXCEPT ![r] = "drop"]
    /\ UNCHANGED <<source, vectors, columns, scoped, config, opening, existed, halved, spentHere>>

RebuildDrop(r) ==
    /\ rebuilding[r] = "drop"
    /\ words' = [words EXCEPT !["events"] = [there |-> FALSE, has |-> {}]]
    /\ hurt' = hurt \cup {"events"}
    /\ rebuilding' = [rebuilding EXCEPT ![r] = "create"]
    /\ UNCHANGED <<source, vectors, columns, scoped, config, opening, existed, halved, spentHere>>

\* CREATE and INSERT fail when another rebuilder has come in between.
RebuildCreate(r) ==
    /\ rebuilding[r] = "create"
    /\ words' = [words EXCEPT !["events"].there = TRUE]
    /\ rebuilding' = [rebuilding EXCEPT ![r] = IF words["events"].there THEN "idle" ELSE "fill"]
    /\ UNCHANGED <<source, vectors, columns, scoped, config, opening, existed, past, spentHere>>

RebuildFill(r) ==
    /\ rebuilding[r] = "fill"
    /\ rebuilding' = [rebuilding EXCEPT ![r] = "idle"]
    /\ IF words["events"].there
       THEN /\ words' = [words EXCEPT !["events"].has = @ \cup Entries("events")]
            /\ hurt' = hurt \ {"events"}
       ELSE UNCHANGED <<words, hurt>>
    /\ UNCHANGED <<source, vectors, columns, scoped, config, opening, existed, halved, spentHere>>

\* The process dies, at any step or inside the batch that rebuilds the memories' index.
IndexDeath ==
    /\ opening # "down"
    /\ spentHere.deaths < MaxDeaths
    /\ spentHere' = [spentHere EXCEPT !.deaths = @ + 1]
    /\ opening' = "down" /\ existed' = FALSE
    /\ rebuilding' = [r \in Rebuilders |-> "idle"]
    /\ \/ UNCHANGED <<words, hurt>>
       \/ /\ \E r \in Rebuilders : opening = "open" /\ rebuilding[r] = "idle"
          /\ \E there \in BOOLEAN : words' = [words EXCEPT !["memories"] = [there |-> there, has |-> {}]]
          /\ hurt' = hurt \cup {"memories"}
    /\ UNCHANGED <<source, vectors, columns, scoped, config, halved>>

--------------------------------------------------------------------------------
IndexNext ==
    \/ OpenCheck \/ OpenDrop \/ OpenMake \/ OpenAddColumn \/ OpenBackfill \/ OpenIndex \/ OpenWords
    \/ \E t \in Tables : OpenFill(t)
    \/ \E t \in Tables, id \in RowIds : RowInsert(t, id) \/ RowUpdate(t, id)
    \/ \E gone \in [Tables -> SUBSET RowIds] :
          gone # [t \in Tables |-> {}] /\ (\A t \in Tables : gone[t] \subseteq There(t)) /\ RowsDelete(gone)
    \/ \E r \in Rebuilders : RebuildMemories(r) \/ RebuildDrop(r) \/ RebuildCreate(r) \/ RebuildFill(r)
    \/ IndexDeath

IndexSpec == IndexInit /\ [][IndexNext]_indexVars

--------------------------------------------------------------------------------
(* Properties *)

\* A vector for every row, of the row's own content and in the current layout, and for no other.
VectorsFollow == \A t \in Tables : vectors[t] = [there |-> TRUE, layout |-> "current", has |-> Entries(t)]
\* Unless a process died or a rebuild gave up between the statements that drop a full-text index and fill
\* it, for an index that is there is never filled again by opening: every row with its present content.
WordsFollow == \A t \in Tables \ hurt : words[t].there /\ Entries(t) \subseteq words[t].has
\* Unless a process died between adding a scope column and filling it, for the column's presence is taken
\* for the finished migration: the events of an old database carry their scope in it.
ScopeIsBackfilled == \A c \in Columns \ halved : There("events") \subseteq scoped[c]

\* "The source tables are authoritative" (storage/mod.rs:73): wherever earlier processes died, whichever
\* version left the database and whatever is rebuilt beside the writes, what an open database derives from
\* its tables is what they hold.
IndexesFollow == opening = "open" => VectorsFollow /\ WordsFollow /\ ScopeIsBackfilled

\* "maintained incrementally by normal memory and event writes" (query.rs:484): the full-text
\* index finds a row by its present content alone.
WordsAreCurrent == opening = "open" => \A t \in Tables : words[t].has \subseteq Entries(t)
================================================================================
