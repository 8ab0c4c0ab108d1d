-------------------------------- MODULE Ranking --------------------------------
(* The order of search's results: the fusion of the channels' lists, the boosts, the       *)
(* reranker, the forgetting curve, the weights and the cuts, one after the other.  Scores    *)
(* change their scale and their direction on the way: a distance is better when smaller,     *)
(* a relevance when greater.  What the channels read from the store is module Recall.        *)
EXTENDS Integers, Sequences, FiniteSets, FiniteSetsExt, SequencesExt

CONSTANTS
    Profiles,         \* the candidates of a search: sequences of records, one for each
    Limits, Caps,     \* limit and max_per_session
    Thresholds,       \* threshold: sets of one score, or of none
    CandidateMult, RerankMult,  \* rrf_candidate_multiplier, rerank_candidate_multiplier
    RrfK,             \* rrf_k
    Unit,             \* the fusion's scores are in units of 1/(100 * Unit)
    Verdicts          \* what a reranker may say of a result

\* A candidate's distance is in quarters of the farthest, and two ranks of a channel differ by a unit at least.
ASSUME RankingAssumption ==
    /\ Limits \subseteq Nat \ {0} /\ Caps \subseteq Nat /\ {CandidateMult, RerankMult} \subseteq Nat \ {0}
    /\ {RrfK, Unit} \subseteq Nat /\ Verdicts \subseteq Int /\ Thresholds \subseteq SUBSET Int
    /\ \A p \in Profiles :
          /\ Len(p) \in Nat /\ DOMAIN p = 1..Len(p)
          /\ (RrfK + Len(p)) * (RrfK + Len(p)) <= 15 * Unit
          /\ \A c \in DOMAIN p :
                /\ p[c].vector \in 0..4 /\ p[c].timely \in BOOLEAN
                /\ {p[c].words, p[c].entity, p[c].overlap, p[c].matches, p[c].fade, p[c].weight} \subseteq Nat

VARIABLES
    profile,     \* per candidate: how it does in each channel (0: it is not in it), its identifiers of the
                 \* query, whether it is of the time asked for, its retention, its weight and its session
    settings,    \* options and tuning of the search
    stage,       \* the step that comes next
    ranking,     \* the results so far, each with its score
    added,       \* the candidates that the graph has added
    verdicts     \* what the reranker says of each result

rankVars == <<profile, settings, stage, ranking, added, verdicts>>

Candidates == DOMAIN profile
Fused == settings.mode = "fused"
HasReranker == settings.ranker # "none"
Reranked == settings.ranker \in {"scores", "passes"}
\* What search takes the scores for when it is done with them: relevance, or distance
Relevant == Fused \/ Reranked \/ settings.forgets
Mult == IF HasReranker THEN RerankMult ELSE 1

One == 100 * Unit
WeightOf == [vector |-> 30, words |-> 35, entity |-> 20, overlap |-> 15]
IdentifierWeight == 3 * WeightOf.words
\* Distances are in sixths: 2.0 is the farthest.
Farthest == 12

RankInit ==
    /\ profile \in Profiles
    /\ settings \in [mode : {"fused", "vector"}, ranker : {"none", "scores", "passes", "fails"},
                     forgets : BOOLEAN, ranges : BOOLEAN, limit : Limits, cap : Caps,
                     threshold : Thresholds]
    /\ stage = "recall" /\ ranking = <<>> /\ added = {} /\ verdicts = [c \in Candidates |-> 0]

--------------------------------------------------------------------------------
(* Lists *)

Take(list, n) == SubSeq(list, 1, IF n < Len(list) THEN n ELSE Len(list))
Items(list) == {list[i].item : i \in DOMAIN list}

\* The entries of the list at these places, the greatest value first and equal ones in their order
Arranged(list, places, value) ==
    LET order == CHOOSE o \in SetToSeqs(places) : \A i, j \in DOMAIN o :
                    i < j => value[o[i]] > value[o[j]] \/ (value[o[i]] = value[o[j]] /\ o[i] < o[j])
    IN  [n \in DOMAIN order |-> list[order[n]]]
\* sort_by, which is stable, and retain
Sorted(list, value) == Arranged(list, DOMAIN list, value)
Retained(list, places) == Arranged(list, places, [i \in places |-> 0])

Relevances(list) == [i \in DOMAIN list |-> list[i].score]
Nearnesses(list) == [i \in DOMAIN list |-> -list[i].score]

\* A set in the order of its values; equal ones may come in any order.
Ordered(S, value) == {q \in SetToSeqs(S) : \A i, j \in DOMAIN q : i < j => value[q[i]] >= value[q[j]]}

\* fts_search, vector_search, entity_associated_memories
Channel(name) ==
    LET value == [c \in Candidates |-> profile[c][name]]
    IN {Take(q, settings.limit * CandidateMult * Mult) : q \in Ordered({c \in Candidates : value[c] > 0}, value)}

\* The lists in turn, each candidate where it comes first
Pool(a, b) == a \o Retained(b, {i \in DOMAIN b : b[i] \notin Range(a)})

\* word_overlap_rank_with, distinctive_identifier_rank: those of the pool that have any, best first
Rescored(pool, name) ==
    LET value == [i \in DOMAIN pool |-> profile[pool[i]][name]]
    IN  Arranged(pool, {i \in DOMAIN pool : value[i] > 0}, value)

RrfScore(list, weight, c) ==
    IF c \in Range(list) THEN (weight * Unit) \div (RrfK + CHOOSE i \in DOMAIN list : list[i] = c) ELSE 0

\* rrf_fuse collects the scores in a hash table: equal ones come in any order.
RrfFuse(vectors, words, entities, overlaps, identifiers) ==
    LET all == Range(vectors) \cup Range(words) \cup Range(entities) \cup Range(overlaps) \cup Range(identifiers)
        score == [c \in all |-> RrfScore(vectors, WeightOf.vector, c) + RrfScore(words, WeightOf.words, c)
                                    + RrfScore(entities, WeightOf.entity, c) + RrfScore(overlaps, WeightOf.overlap, c)
                                    + RrfScore(identifiers, IdentifierWeight, c)]
    IN {[i \in DOMAIN q |-> [item |-> q[i], score |-> score[q[i]]]] :
            q \in {Take(o, settings.limit * Mult) : o \in Ordered(all, score)}}

\* The first of the identifiers' list gets the greatest score, where it is; if it was cut off, it comes last.
Boosted(list, identifiers) ==
    LET best == Max({list[i].score : i \in DOMAIN list} \cup {0}) + One
        exact == identifiers[1]
    IN  IF identifiers = <<>> THEN list
        ELSE IF exact \in Items(list)
        THEN [i \in DOMAIN list |-> IF list[i].item = exact THEN [list[i] EXCEPT !.score = best] ELSE list[i]]
        ELSE Append(list, [item |-> exact, score |-> best])

--------------------------------------------------------------------------------
(* search, from the recall on *)

RankGoes(next) == stage' = next /\ UNCHANGED <<profile, settings>>

RankFuse ==
    /\ stage = "recall" /\ Fused
    /\ \E v \in Channel("vector"), w \in Channel("words"), e \in Channel("entity") :
          LET identifiers == Rescored(Pool(v, w), "matches")
          IN \E list \in RrfFuse(v, w, e, Rescored(Pool(Pool(v, w), e), "overlap"), identifiers) :
                 ranking' = Boosted(list, identifiers)
    /\ RankGoes("time") /\ UNCHANGED <<added, verdicts>>

\* Without words and graph the results are those of the vectors, by their distance, up to the threshold.
RankVectors ==
    /\ stage = "recall" /\ ~Fused
    /\ \E v \in Channel("vector") :
          LET near == Take(v, settings.limit * Mult)
              rows == [i \in DOMAIN near |-> [item |-> near[i], score |-> 3 * (4 - profile[near[i]].vector)]]
          IN ranking' = Retained(rows, {i \in DOMAIN rows : \A t \in settings.threshold : rows[i].score <= t})
    /\ RankGoes("time") /\ UNCHANGED <<added, verdicts>>

\* apply_temporal_filter: what is of the time asked for is raised by a half.
RankTime ==
    LET raised(r) == IF ~profile[r.item].timely THEN r.score
                     ELSE IF Fused THEN (3 * r.score) \div 2 ELSE (2 * r.score) \div 3
        scored == [i \in DOMAIN ranking |-> [ranking[i] EXCEPT !.score = raised(ranking[i])]]
    IN  /\ stage = "time"
        /\ ranking' = IF ~settings.ranges THEN ranking ELSE IF Fused THEN Sorted(scored, Relevances(scored))
                      ELSE Sorted(scored, Nearnesses(scored))
        /\ RankGoes("augment") /\ UNCHANGED <<added, verdicts>>

\* graph_augment_results: what the graph adds keeps the distance to the query as its score.
RankAugment ==
    /\ stage = "augment"
    /\ \/ UNCHANGED <<ranking, added>>
       \/ /\ Fused /\ ranking # <<>>
          /\ \E c \in Candidates \ Items(ranking), distance \in {0, 2 * One} :
                ranking' = Append(ranking, [item |-> c, score |-> distance]) /\ added' = {c}
    /\ RankGoes("rerank") /\ UNCHANGED verdicts

\* The language model's and the API's scores replace the fused ones; the pass-through one, and the ONNX
\* one without its model, keep them; after an error the first of the results stay.
Rerank ==
    /\ stage = "rerank"
    /\ CASE settings.ranker = "none" -> UNCHANGED <<ranking, verdicts>>
         [] settings.ranker = "scores" ->
              \E v \in Injection(Items(ranking), Verdicts) :
                 /\ verdicts' = [c \in Candidates |-> IF c \in Items(ranking) THEN v[c] ELSE 0]
                 /\ ranking' = LET judged == [i \in DOMAIN ranking |-> [ranking[i] EXCEPT !.score = v[ranking[i].item]]]
                               IN  Take(Sorted(judged, Relevances(judged)), settings.limit)
         [] settings.ranker \in {"passes", "fails"} ->
              ranking' = Take(ranking, settings.limit) /\ UNCHANGED verdicts
    /\ RankGoes("forget") /\ UNCHANGED added

\* Mutant: distances count as relevance.
ForgetsDistances ==
    LET similarity(r) == IF r.score > 0 THEN r.score ELSE 0
        scored == [i \in DOMAIN ranking |->
                      [ranking[i] EXCEPT !.score = profile[ranking[i].item].fade * similarity(ranking[i])]]
    IN  /\ stage = "forget"
        /\ ranking' = IF settings.forgets THEN Sorted(scored, Relevances(scored)) ELSE ranking
        /\ RankGoes("weigh") /\ UNCHANGED <<added, verdicts>>

\* The forgetting curve: a relevance, clamped at 0 (its division by the greatest changes no order), or what
\* a distance leaves, times the retention.
RankForget ==
    LET similarity(r) == IF ~(Fused \/ Reranked) THEN Farthest - r.score ELSE IF r.score > 0 THEN r.score ELSE 0
        scored == [i \in DOMAIN ranking |->
                      [ranking[i] EXCEPT !.score = profile[ranking[i].item].fade * similarity(ranking[i])]]
    IN  /\ stage = "forget"
        /\ ranking' = IF settings.forgets THEN Sorted(scored, Relevances(scored)) ELSE ranking
        /\ RankGoes("weigh") /\ UNCHANGED <<added, verdicts>>

\* resolution_weight_*, only for a relevance
RankWeigh ==
    LET weighed == [i \in DOMAIN ranking |-> [ranking[i] EXCEPT !.score = @ * profile[ranking[i].item].weight]]
    IN  /\ stage = "weigh"
        /\ ranking' = IF Relevant THEN Sorted(weighed, Relevances(weighed))
                      ELSE Sorted(ranking, Nearnesses(ranking))
        /\ RankGoes("return") /\ UNCHANGED <<added, verdicts>>

\* Session diversity, the limit and the threshold
RankReturn ==
    LET session(i) == profile[ranking[i].item].session
        sameBefore(i) == {j \in 1..i : session(j) = session(i)}
        kept == {i \in DOMAIN ranking : settings.cap > 0 /\ session(i) # "none"
                                            => Cardinality(sameBefore(i)) <= settings.cap}
        best == Take(Retained(ranking, kept), settings.limit)
        passes(r) == \A t \in settings.threshold : IF Relevant THEN r.score >= t ELSE r.score <= t
    IN  /\ stage = "return"
        /\ ranking' = Retained(best, {i \in DOMAIN best : passes(best[i])})
        /\ RankGoes("done") /\ UNCHANGED <<added, verdicts>>

RankNext == RankFuse \/ RankVectors \/ RankTime \/ RankAugment \/ Rerank \/ RankForget \/ RankWeigh \/ RankReturn

RankSpec == RankInit /\ [][RankNext]_rankVars

--------------------------------------------------------------------------------
(* Properties *)

\* m does better than n wherever n is found at all, is of the time asked for if n is, has as many of the
\* query's identifiers or more, is remembered as well and weighs as much; the reranker, if one scores, agrees.
\* Without the forgetting curve a greater weight lowers a verdict below 0 (as the ONNX model gives).
Beats(m, n) ==
    LET better(name) == profile[n][name] > 0 => profile[m][name] > profile[n][name]
    IN  /\ \A name \in IF Fused THEN {"vector", "words", "entity", "overlap", "matches"} ELSE {"vector"} : better(name)
        /\ settings.ranges /\ profile[n].timely => profile[m].timely
        /\ profile[m].fade >= profile[n].fade
        /\ profile[m].weight >= profile[n].weight
        /\ settings.ranker = "scores" =>
              /\ verdicts[m] > verdicts[n]
              /\ verdicts[m] < 0 /\ ~settings.forgets => profile[m].weight = profile[n].weight

\* "Always convert channel-specific scores to one higher-is-better scale" (search.rs:383): through all
\* changes of scale and direction, a result that is better in everything comes before a worse one, and
\* neither the limit nor the threshold cuts it off in its favour, unless its session has had its share.
\* Left out are what the graph adds, whose score stays a distance among relevances, and a reranker that
\* only passes distances on, after which they count as a relevance.
BetterComesFirst ==
    stage = "done" =>
        /\ Len(ranking) <= settings.limit
        /\ Cardinality(Items(ranking)) = Len(ranking)
        /\ ~(settings.ranker = "passes" /\ ~Fused) =>
              \A i \in DOMAIN ranking, m \in Candidates :
                  LET n == ranking[i].item
                      before == {ranking[j].item : j \in 1..(i - 1)}
                  IN  Beats(m, n) /\ n \notin added =>
                          \/ m \in before
                          \/ /\ settings.cap > 0
                             /\ Cardinality({c \in before : profile[c].session = profile[m].session}) >= settings.cap
================================================================================
