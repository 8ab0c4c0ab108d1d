-------------------------------- MODULE MCSearch --------------------------------
(* What a search is made of, on small instances and in one run: the order of the answer,   *)
(* the filters, the walk over the graph, the dates of a question, the front ends' scopes     *)
(* and the pages; and what removals leave for a search to find.  A behaviour is one of a     *)
(* single module, and what the others keep stays as it is in one of their initial states.   *)
EXTENDS Ranking, Filters, GraphWalk, TimeRanges, FrontEnds,
        SessionReads, MCSessionErasure, TLC

CONSTANTS k1, g1, g2

VARIABLE part   \* the module that moves

\* What a candidate of a search is in: vectors, words, entities, word overlap, identifiers; of the time asked
\* for, retention, weight, session.
Kind(v, w, e, o, x, t, f, g, s) ==
    [vector |-> v, words |-> w, entity |-> e, overlap |-> o, matches |-> x, timely |-> t, fade |-> f, weight |-> g,
     session |-> s]
MCKinds == <<Kind(3, 2, 2, 2, 2, TRUE, 3, 3, "a"), Kind(2, 1, 1, 1, 1, TRUE, 3, 2, "a"),
             Kind(2, 0, 0, 0, 0, FALSE, 2, 2, "a"), Kind(1, 0, 1, 0, 0, FALSE, 1, 2, "b"),
             Kind(0, 2, 0, 2, 2, FALSE, 1, 3, "none")>>
MCProfiles == {<<MCKinds[i], MCKinds[j], MCKinds[k]>> :
                   <<i, j, k>> \in {t \in (1..5) \X (1..5) \X (1..5) : t[1] <= t[2] /\ t[2] <= t[3]}}

\* Of three results one may be above 0.
MCVerdicts == {-4, -3, 2}

\* None, and one that tells the distances apart, the verdicts and the fused scores
MCThresholds == {{}, {6}, {600}}

\* user_id, words, agent_id, run_id, app_id, importance, created_at, content, categories, colour in the metadata
Row(u, w, a, r, b, i, c, t, k, d) ==
    [user_id |-> u, words |-> w, agent_id |-> a, run_id |-> r, app_id |-> b, importance |-> i,
     created_at |-> c, content |-> t, categories |-> k, colour |-> d]
MCRows == <<Row(Owner, Words, 1, 2, 3, 1, 2, 1, {}, 0), Row(Owner, Words, 0, 2, 0, 2, 3, 2, {1}, 3),
            Row(Owner, 0, 2, 1, 3, 3, 3, 3, {2, 3}, 1), Row(Owner, Words, 1, 2, 3, 3, 4, 3, {1, 3}, 2),
            Row(6, Words, 1, 2, 3, 3, 4, 3, {1, 3}, 2)>>
\* Every operator with a value and with a null, lists of any length, and parts of several values joined
MCConditions ==
    {Is(f, o, <<v>>) : f \in {"agent_id", "importance", "content", "colour", "a b"},
                        o \in {"eq", "ne", "gt", "gte", "lt", "lte", "contains"}, v \in {0, 2}}
        \cup {Is("categories", o, <<v>>) : o \in {"contains", "icontains"}, v \in {1, 2}}
        \cup {Is("agent_id", "in", s) : s \in {<<>>, <<1, 2>>, <<2, 0>>}}
MCFew == {Is("colour", "ne", <<3>>), Is("agent_id", "in", <<1, 2>>), Is("importance", "gt", <<1>>), Is("agent_id", "in", <<>>)}
MCExpressions ==
    {Always, <<Or({})>>} \cup {<<c>> : c \in MCConditions}
        \cup {<<c, d, And({1, 2})>> : c, d \in MCFew} \cup {<<c, d, Or({1, 2})>> : c, d \in MCFew}
        \cup {<<c, d, Is("content", "icontains", <<2>>), And({2, 3}), Or({1, 4})>> : c, d \in MCFew}
MCCallScopes == [agent : {0, 1}, run : {0, 2}, app : {0, 3}]

\* Nothing yet, or a hub with two ways in which it is related to one of its neighbours
MCGraphs == {[nodes |-> <<>>, edges |-> <<>>],
             [nodes |-> <<"ann", "bob", "cid", "eve">>,
              edges |-> <<<<1, 2, "knows">>, <<2, 1, "likes">>, <<2, 3, "knows">>, <<4, 2, "knows">>>>]}
MCMentions == {<<"ann", "bob">>, <<"dan", "bob", "ann">>}
MCQueries == {{"ann"}, {"bob", "cid"}}

\* About the turn of a year, the end of a month of 31 days and a February of 29.
MCTodays == {[y |-> y, m |-> md[1], d |-> md[2]] : y \in {2024}, md \in {<<1, 1>>, <<2, 29>>, <<3, 31>>, <<12, 31>>}}

\* Rows of two users, of pets of theirs and of none, in different runs and apps; two sessions; two profiles
FrontRow(of, id, user, agent, run, app, session) ==
    [of |-> of, id |-> id, user |-> user, agent |-> agent, run |-> run, app |-> app, session |-> session, by |-> agent]
MCStock ==
    [memories |-> {FrontRow("memory", 1, 1, 1, 1, 1, 0), FrontRow("memory", 2, 1, 0, 1, 2, 0),
                   FrontRow("memory", 3, 1, 1, 2, 1, 0), FrontRow("memory", 4, 2, 1, 1, 1, 0)},
     sessions |-> {FrontRow("session", 1, 1, 0, 1, 0, 1), FrontRow("event", 2, 1, 0, 1, 0, 1),
                   FrontRow("session", 3, 2, 0, 0, 0, 2), FrontRow("event", 4, 2, 0, 0, 0, 2),
                   FrontRow("episode", 5, 2, 0, 0, 0, 2)},
     profile |-> {FrontRow("entity", 1, 1, 0, 0, 0, 0), FrontRow("trait", 2, 2, 0, 0, 0, 0),
                  FrontRow("entity", 3, 2, 0, 0, 0, 0)}]

\* The two weavers and workers are alike, and the two guests.
Twin == (w1 :> w2) @@ (w2 :> w1) @@ (g1 :> g2) @@ (g2 :> g1)
MCAlike == {[x \in DOMAIN Twin |-> IF swap THEN Twin[x] ELSE x] : swap \in BOOLEAN}

\* Of the modules with several initial states, the ones that do not move stay in one of them.
SearchInit ==
    /\ part \in {"ranking", "filters", "graph", "times", "front", "reads", "erasure"}
    /\ part = "ranking" \/ (/\ profile = <<MCKinds[1], MCKinds[1], MCKinds[1]>>
                             /\ settings = [mode |-> "fused", ranker |-> "none", forgets |-> FALSE, ranges |-> FALSE,
                                            limit |-> 1, cap |-> 0, threshold |-> {}])
    /\ RankInit
    /\ settings.threshold # {} => settings.cap = 0 /\ settings.limit = 2
    /\ part = "filters" \/ request = [query |-> "list", scope |-> [agent |-> 0, run |-> 0, app |-> 0],
                                       filter |-> Always, importance |-> 0, since |-> 0]
    /\ FilterInit
    /\ part = "graph" \/ (nodes = <<>> /\ edges = <<>>)
    /\ WalkInit
    /\ part = "times" \/ today = [y |-> 2024, m |-> 1, d |-> 1]
    /\ TimeInit
    /\ part = "front" \/ (frontEnd = "mcp" /\ group = "memories")
    /\ FrontInit
    /\ part = "reads" \/ (wanted = "sessions" /\ line = <<1, 2, 3>>)
    /\ ReadsInit
    /\ ErasureInit

SearchNext ==
    \/ part = "ranking" /\ RankNext
        /\ UNCHANGED <<part, filterVars, walkVars, timeVars, frontVars, readsVars, allVars>>
    \/ part = "filters" /\ FilterNext
        /\ UNCHANGED <<part, rankVars, walkVars, timeVars, frontVars, readsVars, allVars>>
    \/ part = "graph" /\ WalkNext
        /\ UNCHANGED <<part, rankVars, filterVars, timeVars, frontVars, readsVars, allVars>>
    \/ part = "times" /\ TimeNext
        /\ UNCHANGED <<part, rankVars, filterVars, walkVars, frontVars, readsVars, allVars>>
    \/ part = "front" /\ FrontNext
        /\ UNCHANGED <<part, rankVars, filterVars, walkVars, timeVars, readsVars, allVars>>
    \/ part = "reads" /\ ReadsNext
        /\ UNCHANGED <<part, rankVars, filterVars, walkVars, timeVars, frontVars, allVars>>
    \/ part = "erasure" /\ ErasureNext
        /\ UNCHANGED <<part, rankVars, filterVars, walkVars, timeVars, frontVars, readsVars>>

SearchSpec ==
    SearchInit
        /\ [][SearchNext]_<<part, rankVars, filterVars, walkVars, timeVars, frontVars, readsVars,
                            allVars>>
================================================================================
