------------------------------- MODULE MemoryFeed -------------------------------
(***************************************************************************)
(* Writing memories and the sync feed (memme-core memory/mod.rs, dedup.rs, *)
(* memory/battery.rs, memory/lifecycle.rs, storage/crud.rs, util.rs,       *)
(* history.rs, sync.rs): several threads add, update and delete memories   *)
(* of one user and agent scope, one SQL statement or transaction at a      *)
(* time, and a follower reads export_changes_since, three queries at a     *)
(* time, and keeps a copy.                                                 *)
(*                                                                         *)
(* Contents are model values; what the embedder and the contradiction      *)
(* heuristics say of two of them is given by Near and Corrects.  Memories  *)
(* are numbered in the order they are inserted.                            *)
(***************************************************************************)
EXTENDS Naturals, Sequences, FiniteSets, FiniteSetsExt, Functions

CONSTANTS
    Threads, Contents,
    Batches,      \* the sequences of contents that are added at once
    Near,         \* pairs of contents whose vectors are closer than dedup_threshold
    Corrects,     \* <<new, old>>: new has an override marker and contradicts old
    EventTexts,   \* contents for which the event index holds a vector
    Locked,       \* contents that are added with immutable
    LocalOnly,    \* contents that are added with privacy local_only
    MaxMemories,  \* max_memories_per_user, with auto_prune
    None,
    MaxOps, MaxPolls, MaxFaults, MaxIds, MaxTime    \* bounds

Ids == 1 .. MaxIds

ASSUME FeedAssumption ==
    /\ Near \subseteq Contents \X Contents
    /\ Corrects \subseteq Contents \X Contents
    /\ Batches \subseteq Seq(Contents) \ {<<>>}
    /\ EventTexts \cup Locked \cup LocalOnly \subseteq Contents
    /\ None \notin Contents \cup Nat /\ IsFiniteSet(Threads)
    /\ {MaxOps, MaxPolls, MaxFaults, MaxIds, MaxTime, MaxMemories} \subseteq Nat

VARIABLES
    mem,       \* the memories table: id -> row
    last,      \* the last id given out
    tombs,     \* history: the DELETE events of memories that are gone: id -> created_at
    clock,     \* the database's clock, in its seconds
    deferred,  \* deferred_ops
    op,        \* what each thread is doing
    follower,  \* the reader of the feed
    slipped,   \* ghost: ids with a change the feed need not carry
    late,      \* ghost: ids added while another add of the same content was under way
    crossed,   \* ghost: ids added while another add had yet to look for contradictions
    merged,    \* ghost: ids whose text was rewritten
    count      \* ghost: operations, faults, and the adds deferred and accounted for

feedVars == <<mem, last, tombs, clock, deferred, op, follower, slipped, late,
              crossed, merged, count>>

Quiet == [pc |-> "idle", kind |-> "none", todo |-> <<>>, hit |-> None, id |-> 0, draw |-> 0,
          met |-> FALSE]

FeedInit ==
    /\ mem = [i \in {} |-> 0] /\ last = 0
    /\ tombs = [i \in {} |-> 0]
    /\ clock = 0 /\ deferred = <<>>
    /\ op = [t \in Threads |-> Quiet]
    /\ follower = [pc |-> "idle", cursor |-> 0, changes |-> {}, dead |-> {}, copy |-> [i \in {} |-> 0]]
    /\ slipped = {} /\ late = {} /\ crossed = {} /\ merged = {}
    /\ count = [ops |-> 0, polls |-> 0, faults |-> 0, highest |-> 0, queued |-> 0, done |-> 0, dropped |-> 0]

--------------------------------------------------------------------------------
(* Queries *)

Live == DOMAIN mem

\* find_by_hash: any row of the scope with the content, superseded ones included.
HashHits(c) == {i \in Live : mem[i].text = c}

Distance(c, d) == IF c = d THEN 0 ELSE IF <<c, d>> \in Near \/ <<d, c>> \in Near THEN 1 ELSE 2

Active(i) == mem[i].sup = 0

\* vector_search with limit 1: the closest of the active memories and of the events; an
\* event that wins is returned as if it were a memory.
ClosestHits(c) ==
    LET dist == {Distance(c, mem[i].text) : i \in {j \in Live : Active(j)}}
                    \cup {Distance(c, e) : e \in EventTexts}
    IN  IF dist = {} \/ Min(dist) = 2
        THEN {}
        ELSE {i \in Live : Active(i) /\ Distance(c, mem[i].text) = Min(dist)}
                \cup {None : e \in {f \in EventTexts : Distance(c, f) = Min(dist)}}

\* Mutant: the slow path does not look for duplicates.
NeverDuplicate(c) == {0}

\* check_dedup: 0 for a new memory, an id, or None for an event's id.
DedupVerdicts(c) ==
    IF HashHits(c) # {} THEN HashHits(c)
    ELSE IF ClosestHits(c) # {} THEN ClosestHits(c) ELSE {0}

MaxVersion == IF Live = {} THEN 0 ELSE Max({mem[i].ver : i \in Live})

\* The horizon of get_changes_since: the last stamp of the memories at the version.
Horizon(v) == LET at == {mem[i].at : i \in {j \in Live : mem[j].ver = v}}
              IN  IF at = {} THEN None ELSE Max(at)
Beyond(stamp, v) == Horizon(v) = None \/ stamp > Horizon(v)

--------------------------------------------------------------------------------
(* Helpers *)

Forget(f, S) == [x \in DOMAIN f \ S |-> f[x]]

Unheard == DOMAIN follower.copy \ Live

\* Stamping the memory at the follower's version moves its horizon.
SlipsAtStamp(i) == IF mem[i].ver = follower.cursor THEN Unheard ELSE {}

\* Rows a deletion takes with it; vectors, links and associations go in the same transaction.
RemoveRow(S) == mem' = Forget(mem, S)

Fault == count.faults < MaxFaults
Spend(c) == [c EXCEPT !.faults = @ + 1]

Item(t) == Head(op[t].todo)

\* The rest of a batch, or nothing.
NextItem(t, o, c) ==
    /\ op' = [o EXCEPT ![t] = IF Len(op[t].todo) > 1
                               THEN [Quiet EXCEPT !.pc = "dedup", !.kind = op[t].kind,
                                                  !.todo = Tail(op[t].todo)]
                               ELSE Quiet]
    /\ count' = [c EXCEPT !.done = @ + (IF op[t].kind = "deferred" THEN 1 ELSE 0)]

\* An item fails: add and add_batch return the error, process_deferred logs it and goes on.
Abandon(t, c) ==
    IF op[t].kind = "deferred"
    THEN /\ op' = [op EXCEPT ![t] = IF Len(op[t].todo) > 1
                                    THEN [Quiet EXCEPT !.pc = "dedup", !.kind = "deferred",
                                                       !.todo = Tail(op[t].todo)]
                                    ELSE Quiet]
         /\ count' = [c EXCEPT !.dropped = @ + 1]
    ELSE op' = [op EXCEPT ![t] = Quiet] /\ count' = c

\* The others that are between their lookup and their insert of the content.
Meet(o, t, c) == [u \in Threads |->
    IF u # t /\ o[u].pc \in {"dedup", "write"} /\ c \in Range(o[u].todo)
    THEN [o[u] EXCEPT !.met = TRUE] ELSE o[u]]

Begin(t) == op[t].pc = "idle" /\ count.ops < MaxOps

Started == [count EXCEPT !.ops = @ + 1]

--------------------------------------------------------------------------------
(* add, add_batch and process_deferred *)

\* The battery is critical and defer_when_critical is set; the level is whatever the caller
\* last told the store.
AddDefer(t) == \E c \in Contents :
    /\ Begin(t)
    /\ deferred' = Append(deferred, c)
    /\ count' = [Started EXCEPT !.queued = @ + 1]
    /\ UNCHANGED <<mem, last, tombs, clock, op, follower, slipped, late, crossed, merged>>

\* The fast path of add: the content is known, only the metadata and the stamp change.
AddKnown(t) == \E c \in Contents : \E i \in HashHits(c) :
    /\ Begin(t)
    /\ mem' = [mem EXCEPT ![i].at = clock]
    /\ op' = [op EXCEPT ![t] = [Quiet EXCEPT !.pc = "draw", !.kind = "known", !.todo = <<c>>, !.id = i]]
    /\ slipped' = slipped \cup SlipsAtStamp(i)
    /\ count' = Started
    /\ UNCHANGED <<last, tombs, clock, deferred, follower, late, crossed, merged>>

AddUnknown(t) == \E c \in Contents :
    /\ Begin(t) /\ HashHits(c) = {}
    /\ op' = [op EXCEPT ![t] = [Quiet EXCEPT !.pc = "dedup", !.kind = "add", !.todo = <<c>>]]
    /\ count' = Started
    /\ UNCHANGED <<mem, last, tombs, clock, deferred, follower, slipped, late, crossed, merged>>

\* Each item counts as an operation.
AddBatch(t) == \E batch \in Batches :
    /\ Begin(t) /\ count.ops + Len(batch) <= MaxOps
    /\ op' = [op EXCEPT ![t] = [Quiet EXCEPT !.pc = "dedup", !.kind = "batch", !.todo = batch]]
    /\ count' = [count EXCEPT !.ops = @ + Len(batch)]
    /\ UNCHANGED <<mem, last, tombs, clock, deferred, follower, slipped, late, crossed, merged>>

\* Mutant: process_deferred works on a copy of the queue.
ProcessCopy(t) ==
    /\ Begin(t) /\ deferred # <<>>
    /\ op' = [op EXCEPT ![t] = [Quiet EXCEPT !.pc = "dedup", !.kind = "deferred", !.todo = deferred]]
    /\ count' = Started
    /\ UNCHANGED <<mem, last, tombs, clock, deferred, follower, slipped, late, crossed, merged>>

\* process_deferred takes the whole queue; what is deferred meanwhile waits for the next call.
ProcessDeferred(t) ==
    /\ Begin(t) /\ deferred # <<>>
    /\ op' = [op EXCEPT ![t] = [Quiet EXCEPT !.pc = "dedup", !.kind = "deferred", !.todo = deferred]]
    /\ deferred' = <<>>
    /\ count' = Started
    /\ UNCHANGED <<mem, last, tombs, clock, follower, slipped, late, crossed, merged>>

\* embed is called without a lock before, so the tables may have changed since the fast path.
CheckDedup(t) ==
    /\ op[t].pc = "dedup"
    /\ \E hit \in DedupVerdicts(Item(t)) :
           op' = [op EXCEPT ![t] = [@ EXCEPT !.pc = "write", !.hit = hit]]
    /\ UNCHANGED <<mem, last, tombs, clock, deferred, follower, slipped, late, crossed, merged, count>>

\* A duplicate is updated in one transaction; an event, a row that is gone or an immutable
\* one is an error.
WriteDuplicate(t) ==
    /\ op[t].pc = "write" /\ op[t].hit # 0
    /\ LET i == op[t].hit IN
       IF i \notin Live \/ (i \in Live /\ mem[i].locked)
       THEN Abandon(t, count) /\ UNCHANGED <<mem, slipped, late, merged>>
       ELSE /\ late' = IF op[t].met THEN late \cup {i} ELSE late
            /\ merged' = merged \cup {i}
            /\ mem' = [mem EXCEPT ![i].text = Item(t), ![i].at = clock]
            /\ slipped' = slipped \cup SlipsAtStamp(i)
                            \cup (IF op[t].kind = "deferred" THEN {i} ELSE {})
            /\ IF op[t].kind = "deferred"
               THEN NextItem(t, Meet(op, t, Item(t)), count)
               ELSE /\ op' = Meet([op EXCEPT ![t] = [@ EXCEPT !.pc = "draw", !.id = i, !.hit = None, !.met = FALSE]], t, Item(t))
                    /\ UNCHANGED count
    /\ UNCHANGED <<last, tombs, clock, deferred, follower, crossed>>

\* insert_memory: the row, its vector and its FTS row in one transaction.  The deferred
\* path ends here, without history and without a version.
WriteNew(t) ==
    /\ op[t].pc = "write" /\ op[t].hit = 0 /\ last < MaxIds
    /\ LET c == Item(t)
           i == last + 1
           row == [text |-> c, locked |-> c \in Locked, private |-> c \in LocalOnly, ver |-> 0,
                   at |-> clock, sup |-> 0]
           hid == IF follower.cursor = 0 THEN Unheard ELSE {}
       IN  /\ mem' = [j \in Live \cup {i} |-> IF j = i THEN row ELSE mem[j]]
           /\ last' = i
           /\ late' = IF op[t].met THEN late \cup {i} ELSE late
           /\ crossed' = IF \E u \in Threads : op[u].pc \in {"draw", "bump", "finish"} /\ op[u].hit = 0
                         THEN crossed \cup {i} ELSE crossed
           /\ IF op[t].kind = "deferred"
              THEN slipped' = slipped \cup {i} \cup hid /\ NextItem(t, Meet(op, t, c), count)
              ELSE /\ op' = Meet([op EXCEPT ![t] = [@ EXCEPT !.pc = "draw", !.id = i, !.met = FALSE]], t, c)
                   /\ slipped' = slipped \cup hid
                   /\ UNCHANGED count
    /\ UNCHANGED <<tombs, clock, deferred, follower, merged>>

\* detect_contradictions_multi: the active memories that the new one corrects.
Contradicted(i, c) == {j \in Live \ {i} : Active(j) /\ <<c, mem[j].text>> \in Corrects}

\* Mutant: mark_superseded with its arguments swapped.
MarkSwapped(t, i) ==
    LET old == IF op[t].hit = 0 /\ i \in Live THEN Contradicted(i, Item(t)) ELSE {}
    IN  [j \in Live |-> IF j = i /\ old # {} THEN [mem[j] EXCEPT !.sup = Max(old)] ELSE mem[j]]

MarkSuperseded(t, i) ==
    LET old == IF op[t].hit = 0 /\ i \in Live THEN Contradicted(i, Item(t)) ELSE {}
    IN  [j \in Live |-> IF j \in old THEN [mem[j] EXCEPT !.sup = i] ELSE mem[j]]

\* add goes on with a new memory; all else is done with its item.
AfterBump(t, c) ==
    IF op[t].kind = "add" /\ op[t].hit = 0
    THEN op' = [op EXCEPT ![t].pc = "finish"] /\ count' = c
    ELSE NextItem(t, op, c)

\* record_history, and the first statement of bump_sync_version.  An error of the history
\* event ends add and is ignored by add_batch, which has looked for contradictions before;
\* an error of the bump is ignored.
BumpDraw(t) ==
    /\ op[t].pc = "draw"
    /\ mem' = IF op[t].kind = "batch" THEN MarkSuperseded(t, op[t].id) ELSE mem
    /\ \/ op' = [op EXCEPT ![t] = [@ EXCEPT !.pc = "bump", !.draw = MaxVersion + 1]] /\ UNCHANGED <<slipped, count>>
       \/ /\ Fault
          /\ slipped' = slipped \cup {op[t].id}
          /\ \/ op[t].kind # "batch" /\ op' = [op EXCEPT ![t] = Quiet]
                /\ count' = Spend(count)
             \/ AfterBump(t, Spend(count))
    /\ UNCHANGED <<last, tombs, clock, deferred, follower, late, crossed, merged>>

\* A version that was in use before, or that comes between the follower's queries, hides
\* the change; a fresh one at a quiet moment brings all there is to say of the memory.
Draws(t, c) ==
    LET i == op[t].id
        v == op[t].draw
        hidden == v <= c.highest \/ follower.pc # "idle"
    IN  IF i \in Live
        THEN /\ mem' = [mem EXCEPT ![i].ver = v]
             /\ slipped' = IF hidden
                           THEN slipped \cup {i} \cup (IF v = follower.cursor THEN Unheard ELSE {})
                           ELSE slipped \ {i}
        ELSE UNCHANGED <<mem, slipped>>

BumpWrite(t) ==
    /\ op[t].pc = "bump"
    /\ Draws(t, count)
    /\ LET c == IF op[t].id \in Live THEN [count EXCEPT !.highest = Max({@, op[t].draw})] ELSE count
       IN  AfterBump(t, c)
    /\ UNCHANGED <<last, tombs, clock, deferred, follower, late, crossed, merged>>

\* prune_memories: as many mutable rows as are too many, the pruning strategy says which;
\* no history.
PruneChoices(rows) ==
    LET excess == IF Cardinality(Live) > MaxMemories THEN Cardinality(Live) - MaxMemories ELSE 0
        mutable == {j \in Live : ~rows[j].locked}
    IN  {S \in SUBSET mutable : Cardinality(S) = Min({excess, Cardinality(mutable)})}

\* The end of add of a new memory: it supersedes what it contradicts, then come the prunings.
\* If it has been deleted since, get_trace ends the call before.
AddFinish(t) ==
    /\ op[t].pc = "finish"
    /\ LET there == op[t].id \in Live
           rows == MarkSuperseded(t, op[t].id)
       IN \E gone \in IF there THEN PruneChoices(rows) ELSE {{}} :
          /\ mem' = Forget(rows, gone)
          /\ slipped' = slipped \cup gone
    /\ NextItem(t, op, count)
    /\ UNCHANGED <<last, tombs, clock, deferred, follower, late, crossed, merged>>

--------------------------------------------------------------------------------
(* update_trace, delete_trace and the others *)

\* update_trace re-embeds and rewrites the row; it draws no version.
UpdateTrace(t) == \E i \in Live : \E c \in Contents :
    /\ Begin(t) /\ ~mem[i].locked
    /\ mem' = [mem EXCEPT ![i].text = c, ![i].at = clock]
    /\ slipped' = slipped \cup {i} \cup SlipsAtStamp(i)
    /\ late' = late \cup {i} /\ merged' = merged \cup {i}
    /\ op' = Meet(op, t, c)
    /\ count' = Started
    /\ UNCHANGED <<last, tombs, clock, deferred, follower, crossed>>

UpdateImportance(t) == \E i \in Live :
    /\ Begin(t)
    /\ mem' = [mem EXCEPT ![i].at = clock]
    /\ slipped' = slipped \cup SlipsAtStamp(i)
    /\ count' = Started
    /\ UNCHANGED <<last, tombs, clock, deferred, op, follower, late, crossed, merged>>

\* delete_trace: the row goes in one transaction, the DELETE event is written after it.
DeleteTrace(t) == \E i \in Live :
    /\ Begin(t) /\ ~mem[i].locked
    /\ RemoveRow({i})
    /\ op' = [op EXCEPT ![t] = [Quiet EXCEPT !.pc = "bury", !.kind = "delete", !.id = i]]
    /\ count' = Started
    /\ UNCHANGED <<last, tombs, clock, deferred, follower, slipped, late, crossed, merged>>

\* A deletion in the second of another write, or between the follower's queries, may be missed.
Missed(S) == IF follower.pc # "idle" \/ (\E j \in Live \ S : mem[j].at = clock) THEN S ELSE {}

\* Mutant: delete_trace writes no event.
RecordNothing(t) ==
    /\ op[t].pc = "bury"
    /\ op' = [op EXCEPT ![t] = Quiet]
    /\ UNCHANGED <<mem, last, tombs, clock, deferred, follower, slipped, late, crossed, merged, count>>

RecordDelete(t) ==
    /\ op[t].pc = "bury"
    /\ \/ /\ tombs' = [j \in DOMAIN tombs \cup {op[t].id} |-> IF j = op[t].id THEN clock ELSE tombs[j]]
          /\ slipped' = slipped \cup Missed({op[t].id})
          /\ UNCHANGED count
       \/ /\ Fault /\ count' = Spend(count)
          /\ slipped' = slipped \cup {op[t].id}
          /\ UNCHANGED tombs
    /\ op' = [op EXCEPT ![t] = Quiet]
    /\ UNCHANGED <<mem, last, clock, deferred, follower, late, crossed, merged>>

\* delete_all_traces of the scope, immutable rows too: rows and events in one transaction.
DeleteAllTraces(t) ==
    /\ Begin(t) /\ Live # {}
    /\ RemoveRow(Live)
    /\ tombs' = [j \in DOMAIN tombs \cup Live |-> IF j \in Live THEN clock ELSE tombs[j]]
    /\ slipped' = slipped \cup Missed(Live)
    /\ count' = Started
    /\ UNCHANGED <<last, clock, deferred, op, follower, late, crossed, merged>>

\* consolidate, the forgetting curve and cleanup_expired: the rows whose time has come,
\* immutable or not, without history.
Consolidate(t) == \E S \in SUBSET Live \ {{}} :
    /\ Begin(t)
    /\ RemoveRow(S)
    /\ slipped' = slipped \cup S
    /\ count' = Started
    /\ UNCHANGED <<last, tombs, clock, deferred, op, follower, late, crossed, merged>>

\* The process dies: the threads and deferred_ops are gone, what they had committed stays.
Crash ==
    /\ Fault /\ (deferred # <<>> \/ \E t \in Threads : op[t].pc # "idle")
    /\ op' = [t \in Threads |-> Quiet] /\ deferred' = <<>>
    /\ slipped' = slipped \cup {op[t].id : t \in {u \in Threads : op[u].pc \in {"draw", "bump", "bury"}}}
    /\ count' = [Spend(count) EXCEPT !.dropped = count.queued - count.done]
    /\ UNCHANGED <<mem, last, tombs, clock, follower, late, crossed, merged>>

\* The second changes between the operations: they are short.
Tick == /\ clock < MaxTime /\ \A t \in Threads : op[t].pc \in {"idle", "bury"}
        /\ clock' = clock + 1
        /\ UNCHANGED <<mem, last, tombs, deferred, op, follower, slipped, late, crossed, merged, count>>

--------------------------------------------------------------------------------
(* export_changes_since, and the follower that asks from its cursor and applies the answer *)

\* Mutant: the changes are not filtered by privacy.
ReadAllChanges ==
    /\ follower.pc = "idle" /\ count.polls < MaxPolls
    /\ count' = [count EXCEPT !.polls = @ + 1]
    /\ follower' = [follower EXCEPT !.pc = "tombs",
           !.changes = {<<i, mem[i].text>> : i \in {j \in Live : mem[j].ver > follower.cursor}}]
    /\ UNCHANGED <<mem, last, tombs, clock, deferred, op, slipped, late, crossed, merged>>

ReadChanges ==
    /\ follower.pc = "idle" /\ count.polls < MaxPolls
    /\ count' = [count EXCEPT !.polls = @ + 1]
    /\ follower' = [follower EXCEPT !.pc = "tombs",
           !.changes = {<<i, mem[i].text>> : i \in {j \in Live : mem[j].ver > follower.cursor /\ ~mem[j].private}}]
    /\ UNCHANGED <<mem, last, tombs, clock, deferred, op, slipped, late, crossed, merged>>

ReadTombstones ==
    /\ follower.pc = "tombs"
    /\ follower' = [follower EXCEPT !.pc = "max",
           !.dead = {i \in DOMAIN tombs \ Live : Beyond(tombs[i], follower.cursor)}]
    /\ UNCHANGED <<mem, last, tombs, clock, deferred, op, slipped, late, crossed, merged, count>>

\* to_version is read last; the follower applies the changes, then the tombstones.
ReadMaxVersion ==
    /\ follower.pc = "max"
    /\ LET told == {change[1] : change \in follower.changes}
           text(i) == IF i \in told THEN (CHOOSE change \in follower.changes : change[1] = i)[2]
                      ELSE follower.copy[i]
       IN  follower' = [pc |-> "idle", cursor |-> MaxVersion, changes |-> {}, dead |-> {},
                        copy |-> [i \in (DOMAIN follower.copy \cup told) \ follower.dead |-> text(i)]]
    /\ UNCHANGED <<mem, last, tombs, clock, deferred, op, slipped, late, crossed, merged, count>>

FeedNext ==
    \/ \E t \in Threads :
          \/ AddDefer(t) \/ AddKnown(t) \/ AddUnknown(t) \/ AddBatch(t) \/ ProcessDeferred(t)
          \/ CheckDedup(t) \/ WriteDuplicate(t) \/ WriteNew(t)
          \/ BumpDraw(t) \/ BumpWrite(t) \/ AddFinish(t)
          \/ UpdateTrace(t) \/ UpdateImportance(t) \/ DeleteTrace(t) \/ RecordDelete(t)
          \/ DeleteAllTraces(t) \/ Consolidate(t)
    \/ Crash \/ Tick
    \/ ReadChanges \/ ReadTombstones \/ ReadMaxVersion

FeedSpec == FeedInit /\ [][FeedNext]_feedVars

--------------------------------------------------------------------------------
(* Properties *)

\* add says that a similar memory is updated instead of creating a new one: two memories
\* with one content are there only if their adds overlapped, or update_trace rewrote one.
NoTwins == \A i, j \in Live :
    i < j /\ mem[i].text = mem[j].text => {i, j} \cap late # {}

InFlight == {op[t].id : t \in {u \in Threads : op[u].pc \in {"draw", "bump", "bury"}}}

\* The feed loses nothing by itself: what the follower has not got of a memory is still
\* ahead of its cursor, and what it has too much is still in a tombstone it will be given,
\* unless the change took one of the ways around the feed: update_trace and deferred adds
\* draw no version, pruning, expiry and a crash before the event leave no tombstone, a
\* version that was used before or drawn between the queries, a stamp that moved the horizon.
NothingLost ==
    /\ \A i \in Live \ (slipped \cup InFlight) : ~mem[i].private =>
          \/ mem[i].ver > follower.cursor
          \/ i \in DOMAIN follower.copy /\ follower.copy[i] = mem[i].text
    /\ \A i \in Unheard \ (slipped \cup InFlight) :
          i \in DOMAIN tombs /\ Beyond(tombs[i], follower.cursor)

\* A text that was added as local_only reaches the follower only in a row that was added
\* as syncable and rewritten with it: a duplicate keeps the privacy of the row it updates.
LocalOnlyStays == \A i \in DOMAIN follower.copy :
    follower.copy[i] \in LocalOnly => i \in merged

\* A correction stands: what supersedes a memory was added after it, so that following
\* superseded_by comes to an end, unless the two were being added at once.
SupersededByLater == \A i \in Live : mem[i].sup # 0 => mem[i].sup > i \/ i \in crossed

\* Every deferred add is in the queue, in the hands of a process_deferred, or accounted for.
Held(t) == IF op[t].kind = "deferred" THEN Len(op[t].todo) ELSE 0
DeferredAccounted ==
    count.queued = Len(deferred) + MapThenSumSet(Held, Threads) + count.done + count.dropped
================================================================================
