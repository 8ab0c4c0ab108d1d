------------------------------- MODULE Portability -------------------------------
(* Full export and full import (storage/portable_import.rs, storage/export.rs,        *)
(* memory/sync.rs): what one store's calls leave is read as a bundle, and another      *)
(* store, or the same one, takes all of the bundle or nothing.                        *)
(*                                                                                 *)
(* A store is a set of rows of the layers; a row has its key, its owner and the keys    *)
(* it refers to.  A call of a store is one step here, what happens inside of it is in    *)
(* SessionPipeline, SessionErasure and MemoryFeed.  The importer works in the steps of   *)
(* full_import, and calls of both stores come in between.  Associations are left out: no  *)
(* call inserts any.  Sources, procedures, meditations and recalls, which refer to        *)
(* nothing, are the records here.                                                       *)
EXTENDS Integers, FiniteSets

CONSTANTS
    Stores, Users,
    SessionIds, EventIds,   \* ids that callers choose, alike in every store
    NoSession,
    MaxCalls, MaxImports    \* bounds of the model

ASSUME PortabilityAssumption == MaxCalls \in Nat /\ MaxImports \in Nat /\ NoSession \notin SessionIds

VARIABLES
    rows,       \* per store: its rows, of all layers
    fresh,      \* the next uuid
    importer,   \* the bundle in hand, its target and how far full_import has come
    loose,      \* history: per store, keys that rows may refer to in vain, and why
    calls       \* history: calls and imports so far

portVars == <<rows, fresh, importer, loose, calls>>

K(layer, id) == <<layer, id>>
Layer(r) == r.key[1]
NewRow(k, u, refs) == [key |-> k, user |-> u, refs |-> refs, scope |-> "same", marks |-> {}]
Keys(R) == {r.key : r \in R}
Of(R, layer) == {r \in R : Layer(r) = layer}

\* The rows that a reference finds, in the same ownership.
Owned(R, k, u) == \E r \in R : r.key = k /\ r.user = u

PortInit ==
    /\ rows = [st \in Stores |-> {}]
    /\ fresh = 1
    /\ importer = [pc |-> "idle", bundle |-> {}, user |-> Users, target |-> CHOOSE st \in Stores : TRUE]
    /\ loose = [st \in Stores |-> {}]
    /\ calls = [live |-> 0, imports |-> 0]

--------------------------------------------------------------------------------
(* The calls of a store that add and remove rows *)

Called == calls.live < MaxCalls /\ calls' = [calls EXCEPT !.live = @ + 1] /\ UNCHANGED importer

Adds(st, new, n) ==
    /\ rows' = [rows EXCEPT ![st] = @ \cup new]
    /\ fresh' = fresh + n

Unchecked(st, ks) == loose' = [loose EXCEPT ![st] = @ \cup {<<k, "unchecked">> : k \in ks}]

\* append_events: the session is the caller's own or is created, the event id is new.
CallAppend(st, u, s, e) ==
    /\ Called
    /\ \A r \in rows[st] : r.key = K("session", s) => r.user = u
    /\ K("event", e) \notin Keys(rows[st])
    /\ Adds(st, {NewRow(K("event", e), u, {K("session", s)})} \cup
                (IF K("session", s) \in Keys(rows[st]) THEN {} ELSE {NewRow(K("session", s), u, {})}), 0)
    /\ UNCHANGED loose

\* ingest_event: nothing is asked of the session it names, nor of that session's scope; a
\* compaction of the session's owner digests the event all the same.
CallIngest(st, u, s) ==
    /\ Called
    /\ Adds(st, {[NewRow(K("event", fresh), u, {K("session", s)}) EXCEPT !.scope = "other"]}, 1)
    /\ Unchecked(st, {K("session", s), K("event", fresh)})

\* compact: an episode of the session's undigested events, and its immutable narrative.
CallCompact(st, s) ==
    LET digested == UNION {r.refs : r \in Of(rows[st], "episode")}
        events == {r.key : r \in {v \in Of(rows[st], "event") : K("session", s) \in v.refs /\ v.key \notin digested}}
    IN  /\ Called
        /\ events # {}
        /\ \E session \in rows[st] :
            /\ session.key = K("session", s)
            /\ Adds(st, {NewRow(K("episode", fresh), session.user, events \cup {session.key}),
                         [NewRow(K("memory", fresh + 1), session.user, {session.key}) EXCEPT !.marks = {"immutable"}]}, 2)
        /\ UNCHANGED loose

\* add: the memory, its ADD event, and the mark on a memory it contradicts.  The session id
\* is an option nothing checks.
CallAdd(st, u, s, old) ==
    LET refs == IF s = NoSession THEN {} ELSE {K("session", s)}
        memory == NewRow(K("memory", fresh), u, refs)
        event == NewRow(K("history", fresh + 1), u, {memory.key})
        marked == {[r EXCEPT !.refs = @ \cup {memory.key}, !.marks = @ \cup {"superseded"}] : r \in old}
    IN  /\ Called
        /\ old \subseteq {r \in Of(rows[st], "memory") : r.user = u /\ r.marks = {}}
        /\ Cardinality(old) <= 1
        /\ rows' = [rows EXCEPT ![st] = (@ \ old) \cup marked \cup {memory, event}]
        /\ fresh' = fresh + 2
        /\ Unchecked(st, refs)

\* add_internal, of an operation that was deferred: the memory and no event.
CallAddDeferred(st, u) ==
    Called /\ Adds(st, {NewRow(K("memory", fresh), u, {})}, 1) /\ UNCHANGED loose

\* import_memories: the memories of a user's export and nothing they refer to; any taken key
\* refuses all.
CallImportMemories(st, u, from) ==
    LET B == {r \in Of(rows[from], "memory") : r.user = u}
    IN  /\ Called
        /\ B # {} /\ Keys(B) \cap Keys(rows[st]) = {}
        /\ Adds(st, B, 0)
        /\ Unchecked(st, UNION {r.refs : r \in B})

\* add_identity_trait: the evidence is the caller's list of ids.
CallLearn(st, u, m) ==
    /\ Called
    /\ Adds(st, {NewRow(K("identity", fresh), u, {m})}, 1)
    /\ Unchecked(st, {m})

\* register_source, learn_procedure, meditate and a recall: a row that refers to nothing.
CallRecord(st, u) ==
    Called /\ Adds(st, {NewRow(K("record", fresh), u, {})}, 1) /\ UNCHANGED loose

\* smart_graph of a memory: an entity, a relation from it and a link.
CallExtract(st, m) ==
    LET entity == NewRow(K("entity", fresh), m.user, {})
        mates == {r \in Of(rows[st], "entity") : r.user = m.user} \cup {entity}
    IN  /\ Called
        /\ \E mate \in mates :
            Adds(st, {entity, NewRow(K("relation", fresh + 1), m.user, {entity.key, mate.key}),
                      NewRow(K("link", <<m.key[2], fresh>>), m.user, {m.key, entity.key})}, 2)
        /\ UNCHANGED loose

\* Takes memories out with the links of theirs.
Drops(st, gone, why, new) ==
    LET ks == Keys(gone)
        ties == {r \in Of(rows[st], "link") : r.refs \cap ks # {}}
    IN  /\ rows' = [rows EXCEPT ![st] = ((@ \ gone) \ ties) \cup new]
        /\ loose' = [loose EXCEPT ![st] = @ \cup {<<k, why>> : k \in ks}]

\* delete_trace: of a mutable memory, with a DELETE event.
CallDelete(st, m) ==
    /\ Called
    /\ "immutable" \notin m.marks
    /\ Drops(st, {m}, "deleted",
             {[NewRow(K("history", fresh), m.user, {m.key}) EXCEPT !.marks = {"delete"}]})
    /\ fresh' = fresh + 1

\* consolidate, prune_memories and the expiry: no event, and immutable ones too.
CallForget(st, m) == Called /\ Drops(st, {m}, "forgotten", {}) /\ UNCHANGED fresh

\* delete_session and delete_episode: the row alone.  A session's events are left, and whoever makes the
\* session again digests them with their own.
CallDeleteOne(st, r) ==
    LET stray == Keys({v \in Of(rows[st], "event") : r.key \in v.refs})
    IN  /\ Called
        /\ rows' = [rows EXCEPT ![st] = @ \ {r}]
        /\ loose' = [loose EXCEPT ![st] = @ \cup {<<r.key, "removed">>} \cup {<<k, "stray">> : k \in stray}]
        /\ UNCHANGED fresh

\* delete_all_user_data.
CallErase(st, u) ==
    LET mine == {r \in rows[st] : r.user = u}
    IN  /\ Called /\ mine # {}
        /\ rows' = [rows EXCEPT ![st] = @ \ mine]
        /\ loose' = [loose EXCEPT ![st] = @ \cup {<<k, "removed">> : k \in Keys(mine)}]
        /\ UNCHANGED fresh

--------------------------------------------------------------------------------
(* Export *)

\* Mutant: the memories that a search would show.
ExportActive(R, users) == {r \in Of(R, "memory") : r.user \in users /\ "superseded" \notin r.marks}

\* export_memories_with_privacy_on: local-only, superseded and expired ones too.
ExportMemories(R, users) == {r \in Of(R, "memory") : r.user \in users}

ExportStream(R, users) ==
    {r \in Of(R, "session") \cup Of(R, "event") \cup Of(R, "episode") : r.user \in users}

\* Relations are joined with the entities at their ends.
ExportGraph(R, users) ==
    {r \in Of(R, "entity") \cup Of(R, "link") \cup Of(R, "relation") :
        r.user \in users /\ (Layer(r) = "relation" => r.refs \subseteq Keys(R))}

ExportIdentity(R, users) == {r \in Of(R, "identity") : r.user \in users}
ExportHistory(R, users) == {r \in Of(R, "history") : r.user \in users}
ExportRecords(R, users) == {r \in Of(R, "record") : r.user \in users}

\* full_export: one read transaction over all layers.
FullExport(R, users) ==
    UNION {ExportMemories(R, users), ExportStream(R, users), ExportGraph(R, users),
           ExportIdentity(R, users), ExportHistory(R, users), ExportRecords(R, users)}

\* Of one user or of all.
ExportBundle(st, users) ==
    /\ importer.pc \in {"idle", "done", "refused"}
    /\ calls.imports < MaxImports
    /\ FullExport(rows[st], users) # {}
    /\ importer' = [importer EXCEPT !.pc = "exported", !.bundle = FullExport(rows[st], users), !.user = users]
    /\ UNCHANGED <<rows, fresh, loose, calls>>

--------------------------------------------------------------------------------
(* Import *)

\* require_owned_export_reference: a reference finds a row of the bundle and of its user; a
\* DELETE event may tell of a memory that is not there, and of no other user's.
RefersWell(B, r, k) ==
    \/ Owned(B, k, r.user)
    \/ Layer(r) = "history" /\ "delete" \in r.marks /\ k \notin Keys(B)

\* validate_event_session: an event in a session is of the session's scope.
ScopeAgrees(B, r) ==
    Layer(r) = "event" => \A s \in B : s.key \in r.refs => s.scope = r.scope

\* validate_full_import_envelope: the owner of every row, then the references layer by layer.
OwnersAgree(B, users) == \A r \in B : r.user \in users
Envelope(B, users) ==
    OwnersAgree(B, users) /\ \A r \in B : ScopeAgrees(B, r) /\ \A k \in r.refs : RefersWell(B, r, k)

\* preflight_full_import_target: no key of the bundle is taken, and no memory that a DELETE
\* event of an omitted one would come to belong to.
TargetIsFree(R, B) ==
    /\ Keys(R) \cap Keys(B) = {}
    /\ \A r \in B : "delete" \in r.marks => \A k \in r.refs \ Keys(B) : k \notin Keys(R)

\* Everything full_import asks before it calls the embedder.
Preflight(st) ==
    /\ importer.pc \in {"exported", "refused"} /\ calls.imports < MaxImports
    /\ calls' = [calls EXCEPT !.imports = @ + 1]
    /\ importer' = [importer EXCEPT !.target = st,
                        !.pc = IF Envelope(importer.bundle, importer.user) /\ TargetIsFree(rows[st], importer.bundle)
                               THEN "embedding" ELSE "refused"]
    /\ UNCHANGED <<rows, fresh, loose>>

\* The embedder has answered for every layer, with as many vectors and dimensions as asked.
ImportEmbeds ==
    /\ importer.pc = "embedding"
    /\ \E pc \in {"embedded", "refused"} : importer' = [importer EXCEPT !.pc = pc]
    /\ UNCHANGED <<rows, fresh, loose, calls>>

\* Mutant: ON CONFLICT DO NOTHING without the rejection.
CommitSkipping ==
    /\ importer.pc = "embedded"
    /\ LET st == importer.target
           new == {r \in importer.bundle : r.key \notin Keys(rows[st])}
       IN  /\ rows' = [rows EXCEPT ![st] = @ \cup new]
           /\ importer' = [importer EXCEPT !.pc = "done"]
    /\ UNCHANGED <<fresh, loose, calls>>

\* The rows of a layer are inserted one after the other, and one whose key is taken fails.
FreeKeys(R, B, layer) == Keys(Of(B, layer)) \cap Keys(R) = {}

\* The references that the transaction looks up again, among the target's rows and its own;
\* those of episodes, traits and history it does not.
FindsOwned(R, B, r) == \A k \in r.refs : Owned(R \cup B, k, r.user)

ImportRecords(R, B) == FreeKeys(R, B, "record")
ImportSessions(R, B) == FreeKeys(R, B, "session")
ImportEvents(R, B) ==
    FreeKeys(R, B, "event") /\ \A r \in Of(B, "event") : FindsOwned(R, B, r) /\ ScopeAgrees(R \cup B, r)
ImportEpisodes(R, B) == FreeKeys(R, B, "episode")
ImportMemories(R, B) == FreeKeys(R, B, "memory") /\ \A r \in Of(B, "memory") : FindsOwned(R, B, r)
ImportEntities(R, B) == FreeKeys(R, B, "entity")
ImportRelations(R, B) == FreeKeys(R, B, "relation") /\ \A r \in Of(B, "relation") : FindsOwned(R, B, r)
ImportIdentity(R, B) == FreeKeys(R, B, "identity")
ImportHistory(R, B) == FreeKeys(R, B, "history")
ImportLinks(R, B) == FreeKeys(R, B, "link") /\ \A r \in Of(B, "link") : FindsOwned(R, B, r)

\* import_full_atomic: one transaction, that a taken key or a lost reference rolls back.
\* What preflight asks about DELETE events is not asked again.
ImportCommit ==
    LET R == rows[importer.target]
        B == importer.bundle
        fine == /\ Envelope(B, importer.user)
                /\ ImportSessions(R, B) /\ ImportEvents(R, B) /\ ImportEpisodes(R, B) /\ ImportMemories(R, B)
                /\ ImportEntities(R, B) /\ ImportRelations(R, B) /\ ImportIdentity(R, B)
                /\ ImportHistory(R, B) /\ ImportRecords(R, B) /\ ImportLinks(R, B)
    IN  /\ importer.pc = "embedded"
        /\ importer' = [importer EXCEPT !.pc = IF fine THEN "done" ELSE "refused"]
        /\ rows' = IF fine THEN [rows EXCEPT ![importer.target] = R \cup B] ELSE rows
        /\ UNCHANGED <<fresh, loose, calls>>

--------------------------------------------------------------------------------

LiveCall(st) ==
    \/ \E u \in Users :
        \/ \E s \in SessionIds, e \in EventIds : CallAppend(st, u, s, e)
        \/ \E s \in SessionIds : CallIngest(st, u, s)
        \/ \E s \in SessionIds \cup {NoSession}, old \in SUBSET Of(rows[st], "memory") : CallAdd(st, u, s, old)
        \/ CallAddDeferred(st, u) \/ CallRecord(st, u)
        \/ \E from \in Stores : CallImportMemories(st, u, from)
        \/ \E m \in Keys(Of(rows[st], "memory")) : CallLearn(st, u, m)
        \/ CallErase(st, u)
    \/ \E s \in SessionIds : CallCompact(st, s)
    \/ \E m \in Of(rows[st], "memory") : CallExtract(st, m) \/ CallDelete(st, m) \/ CallForget(st, m)
    \/ \E r \in Of(rows[st], "session") \cup Of(rows[st], "episode") : CallDeleteOne(st, r)

PortNext ==
    \/ \E st \in Stores : LiveCall(st) \/ Preflight(st)
    \/ \E st \in Stores, users \in {{u} : u \in Users} \cup {Users} : ExportBundle(st, users)
    \/ ImportEmbeds \/ ImportCommit

PortSpec == PortInit /\ [][PortNext]_portVars

--------------------------------------------------------------------------------
(* Properties *)

Scopes == {{u} : u \in Users} \cup {Users}

\* What keeps a store's full export, of a user or of all, from being accepted anywhere is a
\* reference to a row that a call has removed or that the caller named unchecked, or to an event whose
\* session was deleted under it: never what appends, compactions, additions or an import (whose bundle
\* may be older than the target's latest deletions) have left (validate_full_import_envelope,
\* portable_import.rs:201).
Portable ==
    \A st \in Stores : \A users \in Scopes :
        LET B == FullExport(rows[st], users)
            away == {l[1] : l \in loose[st]}
        IN  \A r \in B : /\ \A k \in r.refs \ away : RefersWell(B, r, k)
                         /\ r.refs \cap away = {} => ScopeAgrees(B, r)

\* An import brings its whole bundle beside rows it leaves as they are, or brings nothing,
\* whatever calls came between its checks and its transaction (memory/sync.rs:80-87).
ImportIsWhole ==
    [][importer.pc = "embedded" =>
        \/ importer'.pc # "done" /\ (importer' # importer => rows' = rows)
        \/ LET st == importer.target
           IN  /\ Cardinality(rows'[st]) = Cardinality(rows[st]) + Cardinality(importer.bundle)
               /\ Keys(rows'[st]) = Keys(rows[st]) \cup Keys(importer.bundle)
               /\ importer.bundle \cup rows[st] \subseteq rows'[st]]_portVars

\* "full_export() / full_import() move every user-data layer" (README.md:342): the export of
\* a store in which nothing but delete_trace has removed anything is accepted.
DeletedMemoriesMove ==
    \A st \in Stores : (\A l \in loose[st] : l[2] = "deleted") =>
        \A users \in Scopes : Envelope(FullExport(rows[st], users), users)
================================================================================
