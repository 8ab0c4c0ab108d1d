------------------------------- MODULE GraphWalk -------------------------------
(* The entity graph as messages weave it and searches walk it.  Appended messages join the   *)
(* entities they mention (build_cooccurrence_graph), one statement after the other; a walk    *)
(* takes one query for each hop (spread_entity_names) or for each entity that its query        *)
(* matches (search_graph), and the graph may grow between any two of them.  Entities are        *)
(* looked up by name, and two calls that find no entity of a name both create one.              *)
EXTENDS Naturals, Sequences, FiniteSets, SequencesExt

CONSTANTS
    Weavers, Walkers,
    Graphs,            \* what earlier messages may have left: entities and relationships
    Mentions,          \* messages: the names each mentions, in order
    Queries,           \* sets of names: those that a query mentions, or that a search of the graph matches
    Depths,            \* graph_spreading_depth, and the depth of search_graph
    NameCap,           \* entities of a message that are joined
    MaxSpread,         \* MAX_SPREAD
    MaxWeaves, MaxWalks, MaxMisses   \* bounds of the model

ASSUME WalkAssumption ==
    /\ Depths \subseteq Nat \ {0} /\ {NameCap, MaxSpread} \subseteq Nat \ {0}
    /\ {MaxWeaves, MaxWalks, MaxMisses} \subseteq Nat
    /\ \A graph \in Graphs :
          /\ graph.nodes \in Seq(Range(graph.nodes)) /\ graph.edges \in Seq(Range(graph.edges))
          /\ \A edge \in Range(graph.edges) : {edge[1], edge[2]} \subseteq DOMAIN graph.nodes
    /\ \A names \in Queries : IsFiniteSet(names)

VARIABLES
    nodes,      \* the names of the entities, by id
    edges,      \* the relationships: the ids of two entities, and what relates them
    weaver,     \* per appending thread: its message
    walker,     \* per searching thread: its walk
    woven       \* history: messages, walks, and failed statements so far

walkVars == <<nodes, edges, weaver, walker, woven>>

NoMessage == [pc |-> "idle", names |-> <<>>, left |-> <<>>, pairs |-> <<>>, ends |-> <<0, 0>>]
NoWalk == [pc |-> "idle", from |-> {}, depth |-> 0, found |-> {}, frontier |-> {}, hops |-> 0, taken |-> {},
           cut |-> FALSE, sure |-> {}]

WalkInit ==
    /\ \E graph \in Graphs : nodes = graph.nodes /\ edges = graph.edges
    /\ weaver = [w \in Weavers |-> NoMessage]
    /\ walker = [k \in Walkers |-> NoWalk]
    /\ woven = [messages |-> 0, walks |-> 0, misses |-> 0]

Ends(edge) == {edge[1], edge[2]}
NodesOf(name) == {id \in DOMAIN nodes : nodes[id] = name}
KnownNames == Range(nodes)

--------------------------------------------------------------------------------
(* build_cooccurrence_graph *)

Weaves(w, rec) == weaver' = [weaver EXCEPT ![w] = rec]
Misses == woven.misses < MaxMisses /\ woven' = [woven EXCEPT !.misses = @ + 1]

\* Every two of the first entities of the message, in their order
PairsOf(names) ==
    LET few == SubSeq(names, 1, IF Len(names) < NameCap THEN Len(names) ELSE NameCap)
    IN  SetToSortSeq({p \in (DOMAIN few) \X (DOMAIN few) : p[1] < p[2]},
                     LAMBDA p, q : p[1] < q[1] \/ (p[1] = q[1] /\ p[2] < q[2]))
Joined(rec, names) == [rec EXCEPT !.pc = "resolve", !.left = <<>>,
                                  !.pairs = [i \in DOMAIN PairsOf(names) |->
                                                <<names[PairsOf(names)[i][1]], names[PairsOf(names)[i][2]]>>]]
\* The candidates that are left are looked up; after the last, the pairs are joined.
Continued(rec) == IF rec.left = <<>> THEN Joined(rec, rec.names) ELSE [rec EXCEPT !.pc = "find"]
NextPair(rec) == IF Len(rec.pairs) <= 1 THEN NoMessage ELSE [rec EXCEPT !.pc = "resolve", !.pairs = Tail(@)]

\* The names the index knows come first, then the candidates.
WeaveStart(w) ==
    /\ weaver[w].pc = "idle" /\ woven.messages < MaxWeaves
    /\ \E content \in Mentions :
          LET known == SelectSeq(content, LAMBDA n : n \in KnownNames)
              candidates == SelectSeq(content, LAMBDA n : n \notin KnownNames)
          IN  Weaves(w, Continued([NoMessage EXCEPT !.names = known \o candidates, !.left = candidates]))
    /\ woven' = [woven EXCEPT !.messages = @ + 1]
    /\ UNCHANGED <<nodes, edges, walker>>

\* find_entity_by_name; an error of it, or of the next statement, ends the call.
WeaveFind(w) ==
    /\ weaver[w].pc = "find"
    /\ \/ /\ Weaves(w, IF Head(weaver[w].left) \in KnownNames
                       THEN Continued([weaver[w] EXCEPT !.left = Tail(@)]) ELSE [weaver[w] EXCEPT !.pc = "create"])
          /\ UNCHANGED woven
       \/ Misses /\ Weaves(w, NoMessage)
    /\ UNCHANGED <<nodes, edges, walker>>

WeaveCreate(w) ==
    /\ weaver[w].pc = "create"
    /\ \/ /\ nodes' = Append(nodes, Head(weaver[w].left))
          /\ Weaves(w, Continued([weaver[w] EXCEPT !.left = Tail(@)]))
          /\ UNCHANGED woven
       \/ Misses /\ Weaves(w, NoMessage) /\ UNCHANGED nodes
    /\ UNCHANGED <<edges, walker>>

\* ensure_relationship: of several entities of a name any is taken.  An error of it is ignored.
WeaveResolve(w) ==
    /\ weaver[w].pc = "resolve"
    /\ \/ weaver[w].pairs = <<>> /\ Weaves(w, NoMessage) /\ UNCHANGED woven
       \/ /\ weaver[w].pairs # <<>>
          /\ \E a \in NodesOf(weaver[w].pairs[1][1]), b \in NodesOf(weaver[w].pairs[1][2]) :
                Weaves(w, [weaver[w] EXCEPT !.pc = "check", !.ends = <<a, b>>])
          /\ UNCHANGED woven
       \/ weaver[w].pairs # <<>> /\ Misses /\ Weaves(w, NextPair(weaver[w]))
    /\ UNCHANGED <<nodes, edges, walker>>

\* insert_relationship: a look for the same one, and the insertion
WeaveCheck(w) ==
    /\ weaver[w].pc = "check"
    /\ Weaves(w, IF Append(weaver[w].ends, "co_occurs") \in Range(edges) THEN NextPair(weaver[w]) ELSE [weaver[w] EXCEPT !.pc = "insert"])
    /\ UNCHANGED <<nodes, edges, walker, woven>>

WeaveInsert(w) ==
    /\ weaver[w].pc = "insert"
    /\ edges' = Append(edges, Append(weaver[w].ends, "co_occurs"))
    /\ Weaves(w, NextPair(weaver[w]))
    /\ UNCHANGED <<nodes, walker, woven>>

--------------------------------------------------------------------------------
(* Walks *)

Walks(k, rec) == walker' = [walker EXCEPT ![k] = rec]

\* The rows of a hop: the names at the other ends of the relationships of all entities of these names, with
\* what relates them
RowsNextTo(names) ==
    {<<nodes[e[2]], e[3]>> : e \in {d \in Range(edges) : nodes[d[1]] \in names}}
        \cup {<<nodes[e[1]], e[3]>> : e \in {d \in Range(edges) : nodes[d[2]] \in names}}
NamesIn(rows) == {row[1] : row \in rows}
NamesNextTo(names) == NamesIn(RowsNextTo(names))

\* What can be reached by name in so many hops
Ball(names, depth) ==
    LET within[d \in 0..depth] == IF d = 0 THEN names ELSE within[d - 1] \cup NamesNextTo(within[d - 1])
    IN  within[depth]

WalkBegins(k) == walker[k].pc = "idle" /\ woven.walks < MaxWalks /\ woven' = [woven EXCEPT !.walks = @ + 1]

SpreadStart(k) ==
    /\ WalkBegins(k)
    /\ \E seeds \in Queries, depth \in Depths :
          Walks(k, [NoWalk EXCEPT !.pc = "spread", !.from = seeds, !.depth = depth, !.found = seeds,
                                  !.frontier = seeds, !.sure = Ball(seeds, depth)])
    /\ UNCHANGED <<nodes, edges, weaver>>

\* Mutant: the hop starts again from the seeds.
SpreadFromSeeds(k) ==
    /\ walker[k].pc = "spread"
    /\ LET rows == NamesNextTo(walker[k].from)
       IN  Walks(k, IF walker[k].frontier = {} \/ Cardinality(walker[k].found) >= MaxSpread \/ walker[k].hops = walker[k].depth
                    THEN [walker[k] EXCEPT !.pc = "spread done"]
                    ELSE [walker[k] EXCEPT !.found = @ \cup rows, !.frontier = rows \ walker[k].found,
                                           !.hops = @ + 1])
    /\ UNCHANGED <<nodes, edges, weaver, woven>>

\* One query from the frontier for each hop.  Its limit counts all rows: those of names already found as well, and
\* as many of one name as there are ways in which it is related.
SpreadHop(k) ==
    LET next == RowsNextTo(walker[k].frontier)
    IN  /\ walker[k].pc = "spread"
        /\ \/ /\ walker[k].frontier = {} \/ Cardinality(walker[k].found) >= MaxSpread \/ walker[k].hops = walker[k].depth
              /\ Walks(k, [walker[k] EXCEPT !.pc = "spread done"])
           \/ /\ walker[k].frontier # {} /\ Cardinality(walker[k].found) < MaxSpread /\ walker[k].hops < walker[k].depth
              /\ \E rows \in SUBSET next :
                    /\ rows = next \/ Cardinality(rows) = MaxSpread
                    /\ Cardinality(rows) <= MaxSpread
                    /\ Walks(k, [walker[k] EXCEPT !.found = @ \cup NamesIn(rows), !.frontier = NamesIn(rows) \ walker[k].found,
                                                  !.hops = @ + 1, !.cut = @ \/ rows # next])
        /\ UNCHANGED <<nodes, edges, weaver, woven>>

\* get_entity_neighborhood: from an edge on to those that start where it ends, or end where it starts
Adjoins(r, n) == edges[r][1] = edges[n][2] \/ edges[r][2] = edges[n][1]
Neighborhood(id, depth) ==
    LET reached[d \in 1..depth] ==
            IF d = 1 THEN {r \in DOMAIN edges : id \in Ends(edges[r])}
            ELSE reached[d - 1] \cup {r \in DOMAIN edges : \E n \in reached[d - 1] : r # n /\ Adjoins(r, n)}
    IN  reached[depth]

\* search_graph: the entities that match, and then the neighborhood of each
GraphSearchStart(k) ==
    /\ WalkBegins(k)
    /\ \E names \in Queries, depth \in Depths :
          LET matched == {id \in DOMAIN nodes : nodes[id] \in names}
          IN  Walks(k, [NoWalk EXCEPT !.pc = "search", !.from = matched, !.depth = depth, !.frontier = matched,
                                      !.found = matched,
                                      !.sure = UNION {{r \in DOMAIN edges : id \in Ends(edges[r])} : id \in matched}])
    /\ UNCHANGED <<nodes, edges, weaver>>

GraphSearchStep(k) ==
    /\ walker[k].pc = "search"
    /\ \/ walker[k].frontier = {} /\ Walks(k, [walker[k] EXCEPT !.pc = "search done"])
       \/ \E id \in walker[k].frontier :
             LET rows == Neighborhood(id, walker[k].depth)
             IN  Walks(k, [walker[k] EXCEPT !.frontier = @ \ {id}, !.taken = @ \cup rows,
                                            !.found = @ \cup UNION {Ends(edges[r]) : r \in rows}])
    /\ UNCHANGED <<nodes, edges, weaver, woven>>

WalkNext ==
    \/ \E w \in Weavers : WeaveStart(w) \/ WeaveFind(w) \/ WeaveCreate(w) \/ WeaveResolve(w) \/ WeaveCheck(w) \/ WeaveInsert(w)
    \/ \E k \in Walkers : SpreadStart(k) \/ SpreadHop(k) \/ GraphSearchStart(k) \/ GraphSearchStep(k)

WalkSpec == WalkInit /\ [][WalkNext]_walkVars

--------------------------------------------------------------------------------
(* Properties *)

\* What is within so many relationships of an entity, whichever way they point
Around(ids, depth) ==
    LET within[d \in 0..depth] ==
            IF d = 0 THEN ids ELSE within[d - 1] \cup UNION {Ends(e) : e \in {x \in Range(edges) : Ends(x) \cap within[d - 1] # {}}}
    IN  within[depth]

\* "Each hop discovers entities connected to the current frontier via relationships" (entity_links.rs:168):
\* although the graph grows between the hops and a name may have several entities, a spread that was not cut
\* finds all that was within its depth when it began, and nothing that is not within it when it ends.  Cut
\* or not, it has at most MAX_SPREAD rows more than it had when it last looked at its size.  A search of the
\* graph returns no relation without its ends, none that is farther than its depth, and all that the entities
\* it matched had when it began.
WalksFollowTheGraph ==
    \A k \in Walkers :
        LET walk == walker[k]
        IN  /\ walk.pc = "spread done" =>
                  /\ walk.found \subseteq Ball(walk.from, walk.depth)
                  /\ ~walk.cut /\ Cardinality(walk.found) < MaxSpread => walk.sure \subseteq walk.found
                  /\ Cardinality(walk.found \ walk.from) < 2 * MaxSpread
            /\ walk.pc = "search done" =>
                  /\ walk.sure \subseteq walk.taken
                  /\ walk.found = walk.from \cup UNION {Ends(edges[r]) : r \in walk.taken}
                  /\ walk.found \subseteq Around(walk.from, walk.depth)
================================================================================
