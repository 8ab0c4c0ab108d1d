-------------------------------- MODULE Embedding --------------------------------
(* embed_batch of the OpenAI embedder (memme-embeddings openai.rs): the texts are cut into   *)
(* batches, the batches are sent at once as far as the permits go, each with attempts of its  *)
(* own, and the answers are put together again.  The other embedders send one request, and    *)
(* an empty text is refused before anything is sent.                                          *)
(* Texts are numbers, and the vector of a text is its number.                                 *)
EXTENDS Naturals, Sequences, FiniteSets, SequencesExt

CONSTANTS
    Texts,           \* how many texts there are
    ChunkSize,       \* batch_size
    MaxConcurrent,   \* max_concurrent
    Tries            \* max_retries of embed_async

ASSUME EmbeddingAssumption ==
    Texts \in Nat /\ ChunkSize \in Nat \ {0} /\ MaxConcurrent \in Nat \ {0} /\ Tries \in Nat \ {0}

VARIABLES
    inRuntime,   \* whether the call is made inside an async runtime
    launched,    \* how many batches have been sent
    running,     \* the batches under way: batch -> attempts made
    joined,      \* the answers, as the tasks have ended: sequence of [batch, vectors]
    vectors,     \* what the call returns
    batchEnd     \* "none", "ok" or "error"

embedVars == <<inRuntime, launched, running, joined, vectors, batchEnd>>

Chunks == (Texts + ChunkSize - 1) \div ChunkSize
Batch(b) == SubSeq([t \in 1 .. Texts |-> t], (b - 1) * ChunkSize + 1,
                   IF b * ChunkSize < Texts THEN b * ChunkSize ELSE Texts)

EmbedInit ==
    /\ inRuntime \in BOOLEAN
    /\ launched = 0 /\ running = [b \in {} |-> 0] /\ joined = <<>> /\ vectors = <<>> /\ batchEnd = "none"

--------------------------------------------------------------------------------
\* A success carries entries [index, vector] in any order, and possibly not all of them.
Entries(b) == {[index |-> i, vector |-> Batch(b)[i]] : i \in DOMAIN Batch(b)}
Replies(b) == UNION {SetToSeqs(some) : some \in SUBSET Entries(b)}

\* sort_by_key of values no two of which have the same key
Sorted(values, Before(_, _)) == CHOOSE s \in SetToSeqs(values) : \A i, j \in DOMAIN s : i < j => Before(s[i], s[j])

\* The entries sorted by their index.
ByIndex(data) == LET sorted == Sorted(Range(data), LAMBDA x, y : x.index < y.index)
                 IN  [i \in DOMAIN sorted |-> sorted[i].vector]

\* Outside of a runtime the batches go one after the other.
Permits == IF inRuntime THEN MaxConcurrent ELSE 1

Failure == <<0>>
AnyFailed == \E i \in DOMAIN joined : joined[i].vectors = Failure

\* The next batch is sent once a permit is free; a task holds its permit while it waits to try again.
BatchLaunch ==
    /\ batchEnd = "none" /\ launched < Chunks
    /\ Cardinality(DOMAIN running) < Permits /\ (inRuntime \/ ~AnyFailed)
    /\ launched' = launched + 1
    /\ running' = [b \in DOMAIN running \cup {launched + 1} |-> IF b \in DOMAIN running THEN running[b] ELSE 1]
    /\ UNCHANGED <<inRuntime, joined, vectors, batchEnd>>

\* A limit, a fault of the server and a lost connection are tried again.
BatchRetry(b) ==
    /\ batchEnd = "none" /\ running[b] < Tries
    /\ running' = [running EXCEPT ![b] = @ + 1]
    /\ UNCHANGED <<inRuntime, launched, joined, vectors, batchEnd>>

Without(b) == [x \in DOMAIN running \ {b} |-> running[x]]

BatchAnswer(b) ==
    /\ batchEnd = "none"
    /\ \E data \in Replies(b) : joined' = Append(joined, [batch |-> b, vectors |-> ByIndex(data)])
    /\ running' = Without(b)
    /\ UNCHANGED <<inRuntime, launched, vectors, batchEnd>>

\* A final error, or the failure of the last attempt: the task ends and frees its permit.
BatchFail(b) ==
    /\ batchEnd = "none"
    /\ joined' = Append(joined, [batch |-> b, vectors |-> Failure])
    /\ running' = Without(b)
    /\ UNCHANGED <<inRuntime, launched, vectors, batchEnd>>

Gathered(answers) ==
    /\ batchEnd' = "ok" /\ vectors' = FlattenSeq([i \in DOMAIN answers |-> answers[i].vectors])
    /\ UNCHANGED <<inRuntime, launched, running, joined>>

\* Mutant: the answers are put together as they came.
GatherAsJoined ==
    /\ batchEnd = "none" /\ Len(joined) = Chunks /\ ~AnyFailed
    /\ Gathered(joined)

\* All tasks have ended: the answers in the order of the batches.
BatchGather ==
    /\ batchEnd = "none" /\ Len(joined) = Chunks /\ ~AnyFailed
    /\ Gathered(Sorted(Range(joined), LAMBDA x, y : x.batch < y.batch))

\* The first error ends the call, and with it the tasks under way; it is found out when all have been
\* sent, or at once when they go one after the other.
BatchGiveUp ==
    /\ batchEnd = "none" /\ AnyFailed
    /\ launched = Chunks \/ ~inRuntime
    /\ batchEnd' = "error" /\ running' = [b \in {} |-> 0]
    /\ UNCHANGED <<inRuntime, launched, joined, vectors>>

EmbedNext ==
    \/ BatchLaunch \/ BatchGather \/ BatchGiveUp
    \/ \E b \in DOMAIN running : BatchRetry(b) \/ BatchAnswer(b) \/ BatchFail(b)

EmbedSpec == EmbedInit /\ [][EmbedNext]_embedVars

--------------------------------------------------------------------------------
(* Properties *)

\* Callers pair the vectors with their texts by position (compact_ops.rs:411).  However the tasks
\* end and the entries come, an answer of full length gives each text its own vector; only one that
\* is too short may give a text another's.
VectorsKeepOrder == Len(vectors) = Texts => \A t \in 1 .. Texts : vectors[t] = t
================================================================================
