--------------------------------- MODULE Recall ---------------------------------
(* search (memory/search.rs): three channels that read the store in any order, their     *)
(* fusion, the augmentation that reads it once more, and the counts of accesses, which    *)
(* wait in memory until a later call flushes them.  Memories are added, superseded,        *)
(* deleted and expire in between.  Ranking, and the cuts of lists at their limits, are      *)
(* left out: any memory that a channel may return, it returns.                             *)
EXTENDS Naturals, FiniteSets, FiniteSetsExt

CONSTANTS
    Memories, Searchers,
    Plain,            \* memories that satisfy every option of the searches
    Linked,           \* those with links to entities that the query or a result names
    QueueCap,         \* DEFERRED_QUEUE_CAP
    MaxSearches, MaxChanges, MaxLosses   \* bounds of the model

ASSUME RecallAssumption ==
    /\ (Plain \cup Linked) \subseteq Memories /\ IsFiniteSet(Memories)
    /\ IsFiniteSet(Searchers) /\ Searchers # {}
    /\ QueueCap \in Nat \ {0} /\ MaxSearches \in Nat /\ MaxChanges \in Nat
    /\ MaxLosses \in Nat

VARIABLES
    misses,      \* per memory: what of the searches' options it does not satisfy
    channels,    \* the channels beside the vectors: "words" with keyword_search, "entities" with enable_graph
    state,       \* per memory: "absent", "active", "inactive" (superseded or expired) or "gone"
    searching,   \* per searcher: how far its call has come
    queue,       \* deferred_writes: per memory, its accesses not yet written
    accesses,    \* access_count of each memory
    hits,        \* history: how often a search has found each memory
    lost,        \* history: per memory, its deferred writes that have failed
    usedUp       \* history: calls of search and get_trace, those of get_trace, changes and failed writes so far

recallVars == <<misses, channels, state, searching, queue, accesses, hits, lost, usedUp>>

\* user_id and agent_id are one option: every channel takes them alike.
Options == {"owner", "run", "filter"}
None0 == [m \in Memories |-> 0]
Plus(f, g) == [m \in Memories |-> f[m] + g[m]]
\* What a thread does; `then` is where it goes on after a flush.
AtRest == [pc |-> "idle", reads |-> {}, found |-> {}, seen |-> {}, hand |-> None0, then |-> "defer"]

\* The accesses of an earlier search to the plain memories are waiting.
RecallInit ==
    /\ misses \in {f \in [Memories -> SUBSET Options] : \A m \in Plain : f[m] = {}}
    /\ channels \in SUBSET {"words", "entities"}
    /\ state \in [Memories -> {"absent", "active"}] /\ \A m \in Plain : state[m] = "active"
    /\ searching = [s \in Searchers |-> AtRest]
    /\ queue = [m \in Memories |-> IF m \in Plain THEN 1 ELSE 0]
    /\ accesses = None0 /\ hits = queue /\ lost = None0
    /\ usedUp = [searches |-> 0, gets |-> 0, changes |-> 0, losses |-> 0]

--------------------------------------------------------------------------------
(* What the channels return *)

\* active_memory_condition, which every channel has.
Current == {m \in Memories : state[m] = "active"}
Satisfying(options) == {m \in Current : misses[m] \cap options = {}}

\* vector_search, with the index or, with a filter, without it
VectorChannel == Satisfying(Options)
\* fts_search
WordChannel == Satisfying(Options \ {"filter"})
\* Mutant: the entity channel does not look at the memories' state.
LinkedChannel == {m \in Linked : state[m] # "absent" /\ "owner" \notin misses[m]}

\* entity_associated_memories
EntityChannel == Satisfying({"owner"}) \cap Linked

Returns(channel) ==
    CASE channel = "vectors" -> VectorChannel
      [] channel = "words" -> WordChannel
      [] channel = "entities" -> EntityChannel

--------------------------------------------------------------------------------
(* search, step by step *)

Steps(s, rec) == searching' = [searching EXCEPT ![s] = rec]

SearchStart(s) ==
    /\ searching[s].pc = "idle"
    /\ usedUp.searches < MaxSearches
    /\ usedUp' = [usedUp EXCEPT !.searches = @ + 1]
    /\ Steps(s, [AtRest EXCEPT !.pc = "read", !.reads = channels \cup {"vectors"}, !.seen = Current])
    /\ UNCHANGED <<misses, channels, state, queue, accesses, hits, lost>>

\* The channels run in threads of their own; one that fails returns nothing, except that without
\* the others the error of the vectors ends the call.
SearchRead(s, channel) ==
    /\ searching[s].pc = "read" /\ channel \in searching[s].reads
    /\ \/ Steps(s, [searching[s] EXCEPT !.reads = @ \ {channel}, !.found = @ \cup Returns(channel)])
       \/ Steps(s, IF channels = {} THEN AtRest ELSE [searching[s] EXCEPT !.reads = @ \ {channel}])
    /\ UNCHANGED <<misses, channels, state, queue, accesses, hits, lost, usedUp>>

\* rrf_fuse, and graph_augment_results: what is linked to the entities of the results is added.
SearchFuse(s) ==
    /\ searching[s].pc = "read" /\ searching[s].reads = {}
    /\ \/ Steps(s, [searching[s] EXCEPT !.pc = "check"])
       \/ /\ "entities" \in channels /\ searching[s].found # {}
          /\ Steps(s, [searching[s] EXCEPT !.pc = "check", !.found = @ \cup EntityChannel])
    /\ UNCHANGED <<misses, channels, state, queue, accesses, hits, lost, usedUp>>

\* Each result defers a count of its access, and a mark of its session.
QueueLength == 2 * MapThenSumSet(LAMBDA m : queue[m], Memories)

\* A full queue, or one that has waited too long, is flushed first.
SearchCheck(s) ==
    /\ searching[s].pc = "check"
    /\ \/ Steps(s, [searching[s] EXCEPT !.pc = "take"])
       \/ QueueLength < QueueCap /\ Steps(s, [searching[s] EXCEPT !.pc = "defer"])
    /\ UNCHANGED <<misses, channels, state, queue, accesses, hits, lost, usedUp>>

\* Mutant: the queue is read here and emptied after the writes.
TakeCopy(s) ==
    /\ searching[s].pc = "take"
    /\ Steps(s, [searching[s] EXCEPT !.pc = "write", !.hand = queue])
    /\ UNCHANGED <<misses, channels, queue, state, accesses, hits, lost, usedUp>>

\* flush_deferred_writes: the queue is taken under its lock, and then written.
SearchTake(s) ==
    /\ searching[s].pc = "take"
    /\ Steps(s, [searching[s] EXCEPT !.pc = "write", !.hand = queue])
    /\ queue' = None0
    /\ UNCHANGED <<misses, channels, state, accesses, hits, lost, usedUp>>

\* increment_access_count finds the row if it is still there.
Written(m) == [accesses EXCEPT ![m] = IF state[m] = "gone" THEN @ ELSE @ + 1]

\* Each write is a statement of its own, and its error is ignored.
SearchWrite(s) ==
    /\ searching[s].pc = "write"
    /\ \E m \in Memories :
          /\ searching[s].hand[m] > 0
          /\ Steps(s, [searching[s] EXCEPT !.hand[m] = @ - 1])
          /\ \/ accesses' = Written(m) /\ UNCHANGED <<lost, usedUp>>
             \/ /\ usedUp.losses < MaxLosses
                /\ usedUp' = [usedUp EXCEPT !.losses = @ + 1]
                /\ lost' = [lost EXCEPT ![m] = @ + 1]
                /\ UNCHANGED accesses
    /\ UNCHANGED <<misses, channels, state, queue, hits>>

\* All that was taken has been written; the call goes on.
SearchWritten(s) ==
    /\ searching[s].pc = "write" /\ searching[s].hand = None0
    /\ Steps(s, [searching[s] EXCEPT !.pc = searching[s].then])
    /\ UNCHANGED <<misses, channels, state, queue, accesses, hits, lost, usedUp>>

\* The accesses of everything found are deferred, before the limit and the threshold cut the list.
SearchDefer(s) ==
    LET one == [m \in Memories |-> IF m \in searching[s].found THEN 1 ELSE 0]
    IN  /\ searching[s].pc = "defer"
        /\ Steps(s, AtRest)
        /\ queue' = Plus(queue, one)
        /\ hits' = Plus(hits, one)
        /\ UNCHANGED <<misses, channels, state, accesses, lost, usedUp>>

\* get_trace: the access is deferred whatever the length of the queue, which only the time flushes.
GetTrace(s, m) ==
    LET one == [x \in Memories |-> IF x = m THEN 1 ELSE 0]
    IN  /\ searching[s].pc = "idle"
        /\ state[m] \in {"active", "inactive"}
        /\ usedUp.searches < MaxSearches
        /\ usedUp' = [usedUp EXCEPT !.searches = @ + 1, !.gets = @ + 1]
        /\ queue' = Plus(queue, one)
        /\ hits' = Plus(hits, one)
        /\ Steps(s, AtRest) \/ Steps(s, [AtRest EXCEPT !.pc = "take"])
        /\ UNCHANGED <<misses, channels, state, accesses, lost>>

--------------------------------------------------------------------------------
(* The store changes *)

Changes == usedUp.changes < MaxChanges /\ usedUp' = [usedUp EXCEPT !.changes = @ + 1]

\* add, add_batch, update_trace and delete_user_data flush the queue before anything else.
AddStart(s) ==
    /\ searching[s].pc = "idle"
    /\ Changes
    /\ Steps(s, [AtRest EXCEPT !.pc = "take", !.then = "store"])
    /\ UNCHANGED <<misses, channels, state, queue, accesses, hits, lost>>

MemoryAppears(s, m) ==
    /\ searching[s].pc = "store"
    /\ state[m] = "absent"
    /\ state' = [state EXCEPT ![m] = "active"]
    /\ searching' = [r \in Searchers |-> IF r = s THEN AtRest ELSE [searching[r] EXCEPT !.seen = @ \cup {m}]]
    /\ UNCHANGED <<misses, channels, queue, accesses, hits, lost, usedUp>>

\* What is added is a duplicate, is refused or fails; the other calls insert nothing.
NothingAppears(s) ==
    /\ searching[s].pc = "store"
    /\ Steps(s, AtRest)
    /\ UNCHANGED <<misses, channels, state, queue, accesses, hits, lost, usedUp>>

\* mark_superseded, the passing of expiration_date or valid_until, and delete_memory.
MemoryLeaves(m) ==
    /\ Changes
    /\ state[m] = "active"
    /\ \E left \in {"inactive", "gone"} : state' = [state EXCEPT ![m] = left]
    /\ UNCHANGED <<misses, channels, searching, queue, accesses, hits, lost>>

RecallNext ==
    \/ \E s \in Searchers :
        \/ SearchStart(s) \/ (\E channel \in searching[s].reads : SearchRead(s, channel)) \/ SearchFuse(s)
        \/ SearchCheck(s) \/ SearchTake(s) \/ SearchWrite(s) \/ SearchWritten(s) \/ SearchDefer(s)
        \/ AddStart(s) \/ NothingAppears(s)
        \/ \E m \in Memories : GetTrace(s, m) \/ MemoryAppears(s, m)
    \/ \E m \in Memories : MemoryLeaves(m)

RecallSpec == RecallInit /\ [][RecallNext]_recallVars

--------------------------------------------------------------------------------
(* Properties *)

\* "Expired, superseded, and validity-ended memories are filtered in every storage recall channel
\* before fusion" (search.rs:535): whichever channel or augmentation found it, at whichever moment, a
\* result was active at some time of the call, and is the caller's and in the agent's scope.  Without the
\* graph it is in the run and the app that were asked for too, and by the vectors alone it satisfies the
\* filter; what the graph adds is held to neither (see SearchStaysInItsRun), nor what the words add to the
\* filter.
RecallIsScoped ==
    \A s \in Searchers : \A m \in searching[s].found :
        /\ m \in searching[s].seen
        /\ "owner" \notin misses[m]
        /\ "entities" \notin channels => "run" \notin misses[m]
        /\ channels = {} => "filter" \notin misses[m]

\* "Restrict results to a specific run/conversation" (types/mod.rs:179), of every search.
SearchStaysInItsRun ==
    \A s \in Searchers : \A m \in searching[s].found : "run" \notin misses[m]

\* Searches pass the queue's capacity by what one call of each adds, at most, for the length is
\* checked before the results are pushed and the lock is released in between; get_trace alone
\* adds to a full queue again and again (memory/mod.rs:820).
AccessQueueBounded ==
    QueueLength < QueueCap + 2 * Cardinality(Searchers) * Cardinality(Memories) + 2 * usedUp.gets

\* However the flushes of concurrent calls fall, each access is either written, or queued, or in the
\* hands of one of them, or its own write has failed: none is lost otherwise and none is written twice,
\* and the queue stays short.
AccessesAreCounted ==
    /\ AccessQueueBounded
    /\ \A m \in Memories :
          LET held == queue[m] + MapThenSumSet(LAMBDA s : searching[s].hand[m], Searchers)
          IN  IF state[m] = "gone" THEN accesses[m] + held + lost[m] <= hits[m]
              ELSE accesses[m] + held + lost[m] = hits[m]
================================================================================
