-------------------------------- MODULE FrontEnds --------------------------------
(* The ways into the store: the Node and Python bindings, the mobile bindings (memme-ffi), *)
(* the MCP server and the REST handlers.  What each of their operations takes and calls is   *)
(* a table; how their calls meet (threads, one lock, or one after the other), and what      *)
(* becomes of a call that panics, is the rest of the module.  The store serves one call at a *)
(* time here: what its statements do in between is in the modules of the core.               *)
EXTENDS Integers, FiniteSets, FiniteSetsExt

CONSTANTS
    Guests,                  \* threads or clients of the program that uses the store
    Stock,                   \* per group of kinds: the rows there at first
    MaxAsks, MaxPanics       \* bounds of the model

ASSUME FrontEndsAssumption ==
    /\ MaxAsks \in Nat /\ MaxPanics \in Nat
    /\ \A k \in DOMAIN Stock : /\ IsFiniteSet(Stock[k]) /\ \A r \in Stock[k] : r.id \in Nat
                               /\ \A r, s \in Stock[k] : r.id = s.id => r = s
    /\ \A k \in DOMAIN Stock : \A r \in Stock[k] : /\ {"of", "agent", "by"} \subseteq DOMAIN r
                                                   /\ r.of = "memory" => r.by \in {0, r.agent}

VARIABLES
    frontEnd,
    group,       \* the kinds of rows this behaviour is about
    stock,       \* the rows in the store
    asks,        \* per guest: its call
    guard,       \* who holds the lock that one of the bindings has around the store, or "free"
    spoilt,      \* the lock is poisoned
    ended,       \* the process has ended
    panics

frontVars == <<frontEnd, group, stock, asks, guard, spoilt, ended, panics>>

Scope == {"user", "agent", "run", "app", "session"}
KindsOf == [memories |-> {"memory"}, sessions |-> {"session", "event", "episode"}, profile |-> {"entity", "trait"}]

--------------------------------------------------------------------------------
(* Operations: what they do to which kind of row, the arguments they need and may have, and *)
(* whether they take a limit (a default one is larger than the stock).                       *)

Op(does, of, needs, may, capped) == [does |-> does, of |-> of, needs |-> needs, may |-> may, capped |-> capped]
OfUser(does, of, may, capped) == Op(does, of, {"user"}, may, capped)
OfSession(does, of, capped) == Op(does, of, {"session"}, {}, capped)
ById(does, of, capped) == Op(does, of, {"id"}, {}, capped)
OnStore(does) == Op(does, "memory", {}, {}, FALSE)
Actor == {"agent", "run"}
Place == {"agent", "run", "app"}

\* add, search, get, update, delete, list
NodeMemories ==
    {OfUser("put", "memory", Actor, FALSE), OfUser("search", "memory", Actor, TRUE), OfUser("list", "memory", Actor, TRUE)}
        \cup {ById(does, "memory", FALSE) : does \in {"one", "change", "drop"}}
\* hybrid_search, rebuild_fts_index, delete_all, history, reset
NodeUpkeep ==
    {OfUser("search", "memory", Actor, TRUE), OfUser("clear", "memory", Place, FALSE), ById("one", "memory", FALSE),
     OnStore("keep"), OnStore("reset")}
\* append_events and append_events_idempotent, compact, get_session, list_sessions
NodeSessions ==
    {Op("append", "event", {"user", "session"}, {}, FALSE), OfSession("digest", "episode", FALSE),
     OfSession("list", "session", FALSE), OfUser("list", "session", {}, TRUE)}
\* delete_session, get_session_events, get_session_context
NodeEvents ==
    {OfSession("clear", "session", FALSE), OfSession("events", "event", TRUE), OfSession("search", "event", TRUE)}
\* list_episodes, get_episode, get_episode_messages and search_episode_messages, search_episodes, delete_episode
NodeEpisodes ==
    {OfUser("list", "episode", {}, TRUE), OfUser("search", "episode", {}, TRUE), ById("one", "episode", FALSE),
     ById("messages", "episode", TRUE), ById("drop", "episode", FALSE)}
\* list_identity_traits, add_identity_trait, meditate
NodeIdentity == {OfUser("list", "trait", {}, FALSE), OfUser("put", "trait", {}, FALSE), OfUser("derive", "trait", {}, FALSE)}
\* add_graph, search_graph
NodeGraph == {OfUser("derive", "entity", {}, FALSE), OfUser("search", "entity", {}, FALSE)}
\* user_stats and memory_frequency count the memories; top_entities
NodeAnalytics == {OfUser("list", "memory", {}, FALSE), OfUser("list", "memory", {}, TRUE), OfUser("list", "entity", {}, TRUE)}

\* add, get, update, delete, list, delete_all, history, reset
PythonMemories ==
    {OfUser("put", "memory", Actor, FALSE), OfUser("list", "memory", Actor, TRUE), OfUser("clear", "memory", Actor, FALSE),
     OnStore("reset")}
        \cup {ById(does, "memory", FALSE) : does \in {"one", "change", "drop"}}
\* search, hybrid_search, rebuild_fts_index
PythonSearch == {OfUser("search", "memory", Actor, TRUE), OnStore("keep")}
\* append_events, append_events_idempotent, compact, meditate
PythonPipeline ==
    {Op("append", "event", {"user", "session"}, {}, FALSE), OfSession("digest", "episode", FALSE),
     OfUser("derive", "trait", {}, FALSE)}
\* list_episodes, get_episode, get_episode_messages and search_episode_messages, search_episodes,
\* delete_episode, get_session_context
PythonSessions ==
    {OfUser("list", "episode", {}, TRUE), OfUser("search", "episode", {}, TRUE), ById("one", "episode", FALSE),
     ById("messages", "episode", TRUE), ById("drop", "episode", FALSE), OfSession("search", "event", TRUE)}
\* user_stats, memory_frequency, top_entities, add_graph, search_graph
PythonGraph ==
    {OfUser("list", "memory", {}, FALSE), OfUser("list", "memory", {}, TRUE), OfUser("list", "entity", {}, TRUE),
     OfUser("derive", "entity", {}, FALSE), OfUser("search", "entity", {}, FALSE)}

\* add, get, update, delete, list
MobileMemories ==
    {OfUser("put", "memory", Actor, FALSE), OfUser("list", "memory", Actor, TRUE)}
        \cup {ById(does, "memory", FALSE) : does \in {"one", "change", "drop"}}
\* search, hybrid_search, rebuild_fts_index
MobileSearch == {OfUser("search", "memory", Actor, TRUE), OnStore("keep")}
\* add_graph, which looks the provider up first, and search_graph
MobileGraph == {OfUser("derive", "entity", {}, FALSE), OfUser("search", "entity", {}, FALSE)}
\* delete_all, history, reset, user_stats, memory_frequency, top_entities, get_session_context
MobileBulk ==
    {OfUser("clear", "memory", Actor, FALSE), ById("one", "memory", FALSE), OnStore("reset"),
     OfUser("list", "memory", {}, FALSE), OfUser("list", "memory", {}, TRUE), OfUser("list", "entity", {}, TRUE),
     OfSession("search", "event", FALSE)}

\* add_memory, search_memory, get_memory, update_memory, delete_memory, list_memories, delete_all_memories
McpTools ==
    {OfUser("put", "memory", {"agent"}, FALSE), OfUser("search", "memory", {}, TRUE), OfUser("list", "memory", {}, TRUE),
     OfUser("clear", "memory", {}, FALSE)}
        \cup {ById(does, "memory", FALSE) : does \in {"one", "change", "drop"}}

\* add_memory, search_memories, get_memory, update_memory
RestMemories ==
    {OfUser("put", "memory", Place, FALSE), OfUser("search", "memory", Place, TRUE), ById("one", "memory", FALSE),
     ById("change", "memory", FALSE)}
\* delete_memory, memory_history, delete_all_memories, list_memories
RestLists ==
    {ById("drop", "memory", FALSE), ById("one", "memory", FALSE), OfUser("clear", "memory", Place, FALSE),
     OfUser("list", "memory", Place, TRUE)}
\* delete_user_data, once its confirmation is that user
RestErasure == {OfUser("erase", kind, {}, FALSE) : kind \in {"memory", "session", "entity"}}
\* append_events, compact_session, meditate
RestPipeline ==
    {Op("append", "event", {"user", "session"}, Place, FALSE), OfSession("digest", "episode", FALSE),
     OfUser("derive", "trait", {}, FALSE)}
\* graph_add, graph_search, hybrid_search
RestGraph ==
    {OfUser("derive", "entity", {}, FALSE), OfUser("search", "entity", {}, FALSE), OfUser("search", "memory", Place, TRUE)}
\* user_stats, memory_frequency, top_entities, recall
RestAnalytics ==
    {OfUser("list", "memory", {}, FALSE), OfUser("list", "memory", {}, TRUE), OfUser("list", "entity", {}, TRUE),
     OfUser("search", "memory", Place, TRUE)}

Offers ==
    [node |-> UNION {NodeMemories, NodeUpkeep, NodeSessions, NodeEvents, NodeEpisodes, NodeIdentity, NodeGraph, NodeAnalytics},
     python |-> UNION {PythonMemories, PythonSearch, PythonPipeline, PythonSessions, PythonGraph},
     mobile |-> UNION {MobileMemories, MobileSearch, MobileGraph, MobileBulk},
     mcp |-> McpTools,
     rest |-> UNION {RestMemories, RestLists, RestErasure, RestPipeline, RestGraph, RestAnalytics}]

\* The REST handlers of the memories and the graph call the store on the thread of their connection,
\* the others on a blocking thread whose panic they answer with an error.
Inline(op) == op.of \in {"memory", "entity"} /\ op.does # "erase"

\* The mobile binding's add_graph asks for the store's provider under the lock, before its call.
LooksUp(op) == frontEnd = "mobile" /\ op.of = "entity" /\ op.does = "derive"

--------------------------------------------------------------------------------
(* Arguments.  A row has its kind, a number and a value in each field of its scope, or 0,    *)
(* and, as history, the agent of the add that its content is from, or 0.                      *)

Silent == [at |-> "idle", op |-> OnStore("keep"), args |-> << >>, meta |-> << >>, limit |-> 0,
           answer |-> {}, result |-> "none"]
\* Ids and sessions that exist, and one that does not; two pets.
Values(f) ==
    CASE f = "id" -> {row.id : row \in stock} \cup {0}
      [] f = "session" -> {row.session : row \in {r \in stock : r.of = "session"}} \cup {3}
      [] f = "agent" -> {1, 2}
      [] OTHER -> {1}

\* An append's metadata may have scope fields of its own.
Metadata(op) == IF op.does # "append" THEN {<< >>} ELSE {<< >>} \cup {[f \in {"run"} |-> v] : v \in {1, 2}}
Conflict(ask) == \E f \in DOMAIN ask.args \cap DOMAIN ask.meta : ask.args[f] # ask.meta[f]

\* scoped_metadata, and the options of every other call: each argument that is given is set.
PassOn(ask) ==
    [f \in DOMAIN ask.args \cup DOMAIN ask.meta |-> IF f \in DOMAIN ask.args THEN ask.args[f] ELSE ask.meta[f]]

--------------------------------------------------------------------------------
(* What the store does with a call *)

NewId == 1 + (IF stock = {} THEN 0 ELSE Max({row.id : row \in stock}))
NewRow(kind, fields, id) ==
    [of |-> kind, id |-> id, user |-> fields["user"],
     agent |-> IF "agent" \in DOMAIN fields THEN fields["agent"] ELSE 0,
     run |-> IF "run" \in DOMAIN fields THEN fields["run"] ELSE 0,
     app |-> IF "app" \in DOMAIN fields THEN fields["app"] ELSE 0,
     session |-> IF "session" \in DOMAIN fields THEN fields["session"] ELSE 0,
     by |-> IF "agent" \in DOMAIN fields THEN fields["agent"] ELSE 0]

\* A search takes the memories of no agent too.
Agrees(op, fields, row) ==
    /\ row.of = op.of
    /\ \A f \in DOMAIN fields : (row[f] = fields[f]) \/ (op.does = "search" /\ f = "agent" /\ row.agent = 0)
\* The row that a session id is bound to.
Owners(session) == {row \in stock : row.of = "session" /\ row.session = session}

\* Mutant: the memories of no agent are looked at too, as they are in a search.
MergesIntoGlobal(op, fields, row) ==
    op.of = "memory" /\ row.of = "memory" /\ row.user = fields["user"]
        /\ ("agent" \in DOMAIN fields => row.agent \in {0, fields["agent"]})

\* find_by_hash and check_dedup: what is added becomes the content of a memory that is close to it, of the
\* same user, whatever the run and the app of either; with an agent, of the same agent, and without one, of any.
MergesInto(op, fields, row) ==
    op.of = "memory" /\ row.of = "memory" /\ row.user = fields["user"]
        /\ ("agent" \in DOMAIN fields => row.agent = fields["agent"])
Merged(fields, row) == [row EXCEPT !.by = IF "agent" \in DOMAIN fields THEN fields["agent"] ELSE 0]

\* A read returns any of what it asks for up to its limit; a search may return less, as its ranking and
\* its threshold have it.
Returned(asked, limit, exactly) ==
    LET most == IF limit = 0 THEN Cardinality(asked) ELSE Min({limit, Cardinality(asked)})
    IN  {A \in SUBSET asked : IF exactly THEN Cardinality(A) = most ELSE Cardinality(A) <= most}

\* get_session_events: those of the user that the session is bound to.
EventsOf(owner) == {row \in stock : row.of = "event" /\ row.session = owner.session /\ row.user = owner.user}

\* get_episode_messages: the episode's session's, as far as they are its user's.
MessagesOf(chosen) ==
    {row \in stock : row.of = "event" /\ \E e \in chosen : e.session = row.session /\ e.user = row.user}

Done(after, answer) == [after |-> after, answer |-> answer]

\* The outcomes of a call that does not fail.
Outcomes(op, fields, limit) ==
    LET agreeing == {row \in stock : Agrees(op, fields, row)}
        chosen == {row \in stock : "id" \in DOMAIN fields /\ row.of = op.of /\ row.id = fields["id"]}
        owners == IF "session" \in DOMAIN fields THEN Owners(fields["session"]) ELSE {}
        Reads(asked, exactly) == {Done(stock, A) : A \in Returned(asked, limit, exactly)}
    IN  CASE op.does = "put" ->
                {Done(stock \cup {NewRow(op.of, fields, NewId)}, {})}
                    \cup {Done((stock \ {row}) \cup {Merged(fields, row)}, {Merged(fields, row)}) :
                              row \in {r \in stock : MergesInto(op, fields, r)}}
          [] op.does = "derive" -> {Done(stock, {}), Done(stock \cup {NewRow(op.of, fields, NewId)}, {})}
          [] op.does = "append" ->
                LET event == NewRow("event", fields, NewId)
                    owner == NewRow("session", fields, NewId + 1)
                IN  IF owners = {} THEN {Done(stock \cup {event, owner}, {})}
                    ELSE {Done(stock \cup {event}, {}) : o \in {o \in owners : \A f \in Scope : o[f] = owner[f]}}
          [] op.does = "digest" ->
                {Done(stock, {}) : o \in owners}
                    \cup {Done(stock \cup {NewRow("episode", [user |-> o.user, session |-> o.session], NewId)}, {}) :
                             o \in {o \in owners : \E row \in stock : row.of = "event" /\ row.session = o.session}}
          [] op.does = "search" -> Reads(agreeing, FALSE)
          [] op.does = "list" -> Reads(agreeing, TRUE)
          [] op.does = "events" ->
                UNION {Reads(EventsOf(o), TRUE) : o \in owners}
          [] op.does = "messages" -> IF chosen = {} THEN {} ELSE Reads(MessagesOf(chosen), FALSE)
          [] op.does = "one" -> {Done(stock, chosen)}
          [] op.does = "change" -> IF chosen = {} THEN {} ELSE {Done(stock, chosen)}
          [] op.does = "drop" -> {Done(stock \ chosen, {})}
          [] op.does = "clear" -> {Done(stock \ agreeing, {})}
          [] op.does = "erase" -> {Done({row \in stock : row.user # fields["user"]}, {})}
          [] op.does = "reset" -> {Done({}, {})}
          [] op.does = "keep" -> {Done(stock, {})}

--------------------------------------------------------------------------------
(* The course of a call *)

FrontInit ==
    /\ frontEnd \in DOMAIN Offers /\ group \in DOMAIN Stock
    /\ stock = Stock[group]
    /\ asks = [g \in Guests |-> Silent]
    /\ guard = "free" /\ spoilt = FALSE /\ ended = FALSE
    /\ panics = 0

Stage(g, rec) == asks' = [asks EXCEPT ![g] = rec]
Underway(g, step) == asks[g].at = step /\ ~ended
Finishes(g, result) == Stage(g, [Silent EXCEPT !.at = "done", !.result = result])
Still == {"idle", "done"}
Asked == Cardinality({g \in Guests : asks[g].at # "idle"})

\* The MCP server reads a line when it has answered the one before; the others take any number of calls.
MayAsk(g) == ~ended /\ asks[g].at = "idle" /\ (frontEnd = "mcp" => \A h \in Guests : asks[h].at \in Still)

\* A call whose arguments are missing, no JSON, empty, in conflict or not confirmed is refused at once.
Ask(g) ==
    /\ MayAsk(g) /\ Asked < MaxAsks
    /\ \E op \in {o \in Offers[frontEnd] : o.of \in KindsOf[group]} :
       \E names \in {op.needs, op.needs \cup op.may} :
       \E args \in {a \in [names -> UNION {Values(f) : f \in names}] : \A f \in names : a[f] \in Values(f)} :
       \E meta \in Metadata(op) : \E limit \in IF op.capped THEN {0, 1} ELSE {0} :
          LET ask == [Silent EXCEPT !.op = op, !.args = args, !.meta = meta, !.limit = limit]
          IN  \/ ~Conflict(ask) /\ Stage(g, [ask EXCEPT !.at = IF LooksUp(op) THEN "provider" ELSE "call"])
              \/ Finishes(g, "refused")
    /\ UNCHANGED <<frontEnd, group, stock, guard, spoilt, ended, panics>>

\* Mutant: the guard of the lookup is still held when the call asks for the lock.
LookUpHolds(g) ==
    /\ Underway(g, "provider") /\ guard = "free"
    /\ IF spoilt THEN Finishes(g, "poisoned") /\ UNCHANGED guard
       ELSE Stage(g, [asks[g] EXCEPT !.at = "call"]) /\ guard' = g
    /\ UNCHANGED <<frontEnd, group, stock, spoilt, ended, panics>>

\* make_llm_provider: the lock is taken and released; without a provider the call ends.
LookUp(g) ==
    /\ Underway(g, "provider") /\ guard = "free"
    /\ IF spoilt THEN Finishes(g, "poisoned")
       ELSE Stage(g, [asks[g] EXCEPT !.at = "call"]) \/ Finishes(g, "error")
    /\ UNCHANGED <<frontEnd, group, stock, guard, spoilt, ended, panics>>

\* lock_store: the mobile binding holds its lock for the whole call, the calls of the host's HTTP client included.
Enter(g) ==
    /\ Underway(g, "call")
    /\ IF frontEnd # "mobile" THEN Stage(g, [asks[g] EXCEPT !.at = "store"]) /\ UNCHANGED guard
       ELSE /\ guard = "free"
            /\ IF spoilt THEN Finishes(g, "poisoned") /\ UNCHANGED guard
               ELSE Stage(g, [asks[g] EXCEPT !.at = "store"]) /\ guard' = g
    /\ UNCHANGED <<frontEnd, group, stock, spoilt, ended, panics>>

Release(g) == guard' = IF guard = g THEN "free" ELSE guard

Serves(g) ==
    /\ Underway(g, "store")
    /\ \/ \E out \in Outcomes(asks[g].op, PassOn(asks[g]), asks[g].limit) :
             /\ stock' = out.after
             /\ Stage(g, [asks[g] EXCEPT !.at = "done", !.answer = out.answer, !.result = "ok"])
       \/ Finishes(g, "error") /\ UNCHANGED stock
    /\ Release(g)
    /\ UNCHANGED <<frontEnd, group, spoilt, ended, panics>>

\* A panic in the store, or in a callback, while nothing is written: an exception of Python, an error of Node's
\* or REST's blocking thread, a connection of REST closed without an answer, a poisoned lock of the mobile
\* binding, the end of the MCP server.
Panic(g) ==
    /\ Underway(g, "store") /\ panics < MaxPanics
    /\ panics' = panics + 1
    /\ Finishes(g, IF frontEnd = "rest" /\ Inline(asks[g].op) THEN "dropped" ELSE "error")
    /\ Release(g)
    /\ spoilt' = (spoilt \/ frontEnd = "mobile")
    /\ ended' = (frontEnd = "mcp")
    /\ UNCHANGED <<frontEnd, group, stock>>

CallMoves(g) == LookUp(g) \/ Enter(g) \/ Serves(g) \/ Panic(g)
FrontNext == \E g \in Guests : Ask(g) \/ CallMoves(g)
FrontSpec == FrontInit /\ [][FrontNext]_frontVars /\ \A g \in Guests : WF_frontVars(CallMoves(g))

--------------------------------------------------------------------------------
(* Properties *)

\* "One pet's relationship memory never enters another pet's query" (README.md:338): through every way in,
\* and whatever calls of other guests add, merge, change and remove meanwhile, what a search or a list of an
\* agent's memories returns was told by that agent, or by none.
PetsStayApart ==
    \A g \in Guests :
        LET ask == asks[g]
        IN  ask.at = "done" /\ ask.result = "ok" /\ ask.op.of = "memory" /\ ask.op.does \in {"search", "list"}
                /\ "agent" \in DOMAIN ask.args
            => \A row \in ask.answer : row.by \in {0, ask.args["agent"]}

\* A call through any of the front ends ends with an answer, also after another call's panic poisoned the
\* lock, unless the process has ended with it; provided the host's HTTP client returns and does not call the
\* store it is called from.
CallsAreAnswered == \A g \in Guests : asks[g].at \in {"call", "provider", "store"} ~> (asks[g].at = "done" \/ ended)
================================================================================
