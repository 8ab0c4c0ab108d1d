------------------------------ MODULE StoreProofs ------------------------------
(* For any rows, columns and rebuilders: what an open database derives from its tables is     *)
(* what they hold.  For any stores, users, ids and calls: what a store exports refers to       *)
(* nothing outside of the export, and an import brings all of a bundle or none of it.  For     *)
(* any rows and filters: a query returns the memories that its filter means, whatever numbers  *)
(* the parameters take.  For any day: the ranges of days that a question speaks of are those   *)
(* of the calendar.                                                                            *)
EXTENDS Indexes, Portability, Filters, TimeRanges, SumProofs, SequenceTheorems, FiniteSetTheorems, WellFoundedInduction,
        TLAPS

--------------------------------------------------------------------------------
(* The derived indexes: the state and the inductive invariant *)

Index == [there : BOOLEAN, layout : {"none", "old", "current"}, has : SUBSET (RowIds \X Nat)]

\* What the variables hold.
IndexTypeOK ==
    /\ source \in [Tables -> [RowIds -> Nat]]
    /\ vectors \in [Tables -> Index]
    /\ words \in [Tables -> [there : BOOLEAN, has : SUBSET (RowIds \X Nat)]]
    /\ columns \subseteq Columns
    /\ scoped \in [Columns -> SUBSET RowIds]
    /\ config \in [version : {"none", "old", "current"}, backend : BOOLEAN]
    /\ opening \in Stages \cup Columns \cup Tables
    /\ existed \in BOOLEAN
    /\ rebuilding \in [Rebuilders -> {"idle", "drop", "create", "fill"}]
    /\ hurt \subseteq Tables /\ halved \subseteq Columns
    /\ spentHere \in [edits : Nat, deaths : Nat]

\* The version is recorded only over filled indexes, and from then on they are kept; before
\* that, open has the indexes of another layout out of the way when it makes new ones.
VectorsKept ==
    /\ config.version = "current" => VectorsFollow
    /\ existed \/ opening \in {"words", "open"} \cup Tables => config.version = "current"
    /\ opening = "drop" => config.version # "current" /\ \E t \in Tables : vectors[t].there
    /\ opening = "make" => \A t \in Tables : vectors[t].there => vectors[t].layout = "current"
    /\ opening \in {"migrate"} \cup Columns =>
           \A t \in Tables : vectors[t].there /\ vectors[t].layout = "current"

\* A full-text index that is there follows its table, unless it is one of the hurt; in an open
\* database the others are there, and only an open database rebuilds them.
WordsKept ==
    /\ \A t \in Tables \ hurt : words[t].there => Entries(t) \subseteq words[t].has
    /\ opening = "open" => \A t \in Tables \ hurt : words[t].there
    /\ \A r \in Rebuilders : rebuilding[r] # "idle" => opening = "open"

\* Past the migrations every column is there, and every column that was filled carries the scope.
ScopeKept ==
    /\ opening \in {"words", "open"} \cup Tables => columns = Columns
    /\ opening \in Columns => opening \in columns /\ opening \in halved
    /\ \A c \in columns \ halved : There("events") \subseteq scoped[c]

IndexInv == IndexTypeOK /\ VectorsKept /\ WordsKept /\ ScopeKept

--------------------------------------------------------------------------------
\* The labels of open, the columns and the tables are told apart.
LEMMA StagesAreApart ==
    /\ Tables = {"memories", "events"} /\ Tables \cap Stages = {}
    /\ Columns \cap Tables = {} /\ Columns \cap Stages = {}
  BY IndexesAssumption DEF Tables, Stages

\* The first of some tables is one of them.
LEMMA FirstIsOne == \A T \in SUBSET Tables : T # {} => First(T) \in T
  BY DEF Tables, First

\* The entries of a table are rows with their contents, and depend on nothing else.
LEMMA EntriesAreRows ==
    ASSUME IndexTypeOK, NEW t \in Tables
    PROVE  /\ There(t) \subseteq RowIds
           /\ Entries(t) \subseteq RowIds \X Nat
           /\ \A id \in RowIds : source[t][id] # 0 <=> id \in There(t)
           /\ \A v \in RowIds \X Nat : v \in Entries(t) <=> (v[1] \in There(t) /\ v[2] = source[t][v[1]])
  BY DEF IndexTypeOK, There, Entries

LEMMA SameEntries == UNCHANGED source => \A t \in Tables : There(t)' = There(t) /\ Entries(t)' = Entries(t)
  BY DEF There, Entries

\* An index that follows its table is there, in the current layout, with the table's entries.
LEMMA FollowingRecord ==
    ASSUME NEW v \in Index, NEW e
    PROVE  v = [there |-> TRUE, layout |-> "current", has |-> e] <=> v.there /\ v.layout = "current" /\ v.has = e
<1>1. v = [there |-> v.there, layout |-> v.layout, has |-> v.has] /\ v.there \in BOOLEAN
  BY DEF Index
<1> QED BY <1>1

LEMMA FollowingIndexes ==
    ASSUME IndexTypeOK
    PROVE  VectorsFollow <=> \A t \in Tables : /\ vectors[t].there /\ vectors[t].layout = "current"
                                               /\ vectors[t].has = Entries(t)
<1>1. ASSUME NEW t \in Tables
      PROVE  vectors[t] = [there |-> TRUE, layout |-> "current", has |-> Entries(t)]
               <=> vectors[t].there /\ vectors[t].layout = "current" /\ vectors[t].has = Entries(t)
  <2>1. vectors[t] \in Index
    BY DEF IndexTypeOK
  <2> QED BY <2>1, FollowingRecord
<1> QED BY <1>1 DEF VectorsFollow

\* With other entries an index is still one.
LEMMA RefilledIndex ==
    ASSUME NEW v \in Index, NEW e \in SUBSET (RowIds \X Nat)
    PROVE  /\ [v EXCEPT !.has = e] \in Index
           /\ [v EXCEPT !.has = e].there = v.there
           /\ [v EXCEPT !.has = e].layout = v.layout
           /\ [v EXCEPT !.has = e].has = e
  BY DEF Index

\* The databases that earlier versions leave satisfy the invariant.
LEMMA IndexStarts == IndexInit => IndexInv
<1> SUFFICES ASSUME IndexInit PROVE IndexInv
  OBVIOUS
<1>1. source \in [Tables -> [RowIds -> Nat]]
  BY DEF IndexInit
<1>2. \A t \in Tables : There(t) \subseteq RowIds /\ Entries(t) \subseteq RowIds \X Nat
  BY <1>1 DEF There, Entries
<1>3. PICK layout \in {"none", "old", "current"} :
        /\ vectors = [t \in Tables |-> IF layout = "none" THEN NoIndex
                                       ELSE [there |-> TRUE, layout |-> layout, has |-> Entries(t)]]
        /\ config = [version |-> layout, backend |-> layout # "none"]
  BY DEF IndexInit
<1>4. PICK there \in BOOLEAN :
        words = [t \in Tables |-> [there |-> there, has |-> IF there THEN Entries(t) ELSE {}]]
  BY DEF IndexInit
<1>5. "events" \in Tables
  BY DEF Tables
<1>6. vectors \in [Tables -> Index]
  BY <1>2, <1>3 DEF Index, NoIndex
<1>7. words \in [Tables -> [there : BOOLEAN, has : SUBSET (RowIds \X Nat)]]
  <2>1. \A t \in Tables : (IF there THEN Entries(t) ELSE {}) \in SUBSET (RowIds \X Nat)
    BY <1>2
  <2> QED BY <1>4, <2>1
<1>8. scoped \in [Columns -> SUBSET RowIds]
  BY <1>2, <1>5 DEF IndexInit
<1>9. config \in [version : {"none", "old", "current"}, backend : BOOLEAN]
  BY <1>3
<1>10. IndexTypeOK
  BY <1>1, <1>6, <1>7, <1>8, <1>9 DEF IndexInit, IndexTypeOK, Stages
<1>11. opening = "down" /\ existed = FALSE
  BY DEF IndexInit
<1>12. VectorsKept
  BY <1>3, <1>11, StagesAreApart DEF VectorsKept, VectorsFollow, Stages
<1>13. WordsKept
  BY <1>4, <1>11 DEF IndexInit, WordsKept
<1>14. ScopeKept
  BY <1>11, StagesAreApart DEF IndexInit, ScopeKept, Stages
<1> QED BY <1>10, <1>12, <1>13, <1>14 DEF IndexInv

\* A step of open that leaves the tables and what the others derive from them alone.
LEMMA OpenStepKeepsVectors ==
    ASSUME IndexInv, OpenCheck \/ OpenDrop \/ OpenMake
    PROVE  IndexInv'
<1> USE DEF IndexInv
<1>0. \A t \in Tables : There(t)' = There(t) /\ Entries(t)' = Entries(t)
  BY SameEntries DEF OpenCheck, OpenDrop, OpenMake
<1>a. "events" \in Tables
  BY DEF Tables
<1>b. /\ opening \in {"down", "drop", "make"}
      /\ opening' \in {"drop", "make", "migrate"}
      /\ UNCHANGED <<source, words, columns, scoped, config, rebuilding, hurt, halved, spentHere>>
  BY DEF OpenCheck, OpenDrop, OpenMake, past
<1>1. WordsKept'
  BY <1>0, <1>b, StagesAreApart DEF WordsKept
<1>2. ScopeKept'
  BY <1>0, <1>a, <1>b, StagesAreApart DEF ScopeKept, Stages
<1>3. ASSUME vectors' \in [Tables -> Index], existed' \in BOOLEAN PROVE IndexTypeOK'
  BY <1>3, <1>b DEF IndexTypeOK, Stages
<1>4. CASE OpenCheck
  <2>1. PICK there \in SUBSET Tables : there = {t \in Tables : vectors[t].there}
    OBVIOUS
  <2>2. /\ existed' = (there = Tables /\ config.version = "current")
        /\ opening' = IF (there = Tables /\ config.version = "current") \/ there = {} THEN "make" ELSE "drop"
        /\ UNCHANGED vectors
    BY <1>4, <2>1 DEF OpenCheck
  <2>3. IndexTypeOK'
    BY <1>3, <2>2 DEF IndexTypeOK
  <2>4. config.version = "current" => VectorsFollow /\ there = Tables
    BY <2>1, FollowingIndexes DEF VectorsKept
  <2>5. VectorsFollow => VectorsFollow'
    BY <1>0, <2>2 DEF VectorsFollow
  <2>6. opening' = "drop" => config.version # "current" /\ \E t \in Tables : vectors[t].there
    BY <2>1, <2>2, <2>4
  <2>7. opening' = "make" => \A t \in Tables : vectors[t].there => vectors[t].layout = "current"
    <3>1. CASE there = {}
      BY <2>1, <3>1
    <3>2. CASE config.version = "current"
      BY <2>4, <3>2, FollowingIndexes
    <3> QED BY <2>2, <3>1, <3>2
  <2>8. VectorsKept'
    BY <1>b, <2>2, <2>4, <2>5, <2>6, <2>7, StagesAreApart DEF VectorsKept, Stages
  <2> QED BY <1>1, <1>2, <2>3, <2>8
<1>5. CASE OpenDrop
  <2>1. PICK there \in SUBSET Tables : there = {t \in Tables : vectors[t].there}
    OBVIOUS
  <2>2. PICK u : u = First(there)
    OBVIOUS
  <2>3. there # {} /\ config.version # "current" /\ ~existed
    BY <1>5, <2>1 DEF OpenDrop, VectorsKept
  <2>4. u \in Tables /\ u \in there
    BY <2>2, <2>3, FirstIsOne
  <2>5. /\ vectors' = [vectors EXCEPT ![u] = NoIndex]
        /\ opening' = IF Cardinality(there) = 1 THEN "make" ELSE "drop"
        /\ UNCHANGED existed
    BY <1>5, <2>1, <2>2 DEF OpenDrop
  <2>6. NoIndex \in Index /\ ~NoIndex.there
    BY DEF Index, NoIndex
  <2>7. IndexTypeOK'
    BY <1>3, <2>4, <2>5, <2>6 DEF IndexTypeOK
  <2>8. opening' = "drop" => \E t \in Tables : vectors'[t].there
    <3>1. ASSUME Cardinality(there) # 1 PROVE \E t \in there : t # u
      <4>1. there # {u}
        BY <3>1, FS_Singleton
      <4> QED BY <2>4, <4>1
    <3> QED BY <2>1, <2>5, <3>1 DEF IndexTypeOK
  <2>9. opening' = "make" => \A t \in Tables : ~vectors'[t].there
    <3>1. ASSUME Cardinality(there) = 1 PROVE there = {u}
      <4>1. IsFiniteSet(there)
        <5>1. IsFiniteSet({"memories"}) /\ IsFiniteSet({"memories"} \cup {"events"})
          BY FS_Singleton, FS_AddElement
        <5>2. there \subseteq {"memories"} \cup {"events"}
          BY StagesAreApart
        <5> QED BY <5>1, <5>2, FS_Subset
      <4>2. Cardinality(there \ {u}) = 0 /\ IsFiniteSet(there \ {u})
        BY <2>4, <3>1, <4>1, FS_RemoveElement
      <4>3. there \ {u} = {}
        BY <4>2, FS_EmptySet
      <4> QED BY <2>4, <4>3
    <3> QED BY <2>1, <2>5, <2>6, <3>1 DEF IndexTypeOK
  <2>10. VectorsKept'
    BY <1>b, <2>3, <2>5, <2>8, <2>9, StagesAreApart DEF VectorsKept, Stages
  <2> QED BY <1>1, <1>2, <2>7, <2>10
<1>6. CASE OpenMake
  <2>1. PICK missing \in SUBSET Tables : missing = {t \in Tables : ~vectors[t].there}
    OBVIOUS
  <2>2. PICK u : u = First(missing)
    OBVIOUS
  <2>3. PICK new \in Index : new = [there |-> TRUE, layout |-> "current", has |-> {}]
    BY DEF Index
  <2>4. /\ UNCHANGED existed
        /\ IF missing = {} THEN opening' = "migrate" /\ UNCHANGED vectors
           ELSE opening' = "make" /\ vectors' = [vectors EXCEPT ![u] = new]
    BY <1>6, <2>1, <2>2, <2>3 DEF OpenMake
  <2>5. missing # {} => u \in missing /\ u \in Tables
    BY <2>2, FirstIsOne
  <2>6. IndexTypeOK'
    BY <1>3, <2>4, <2>5 DEF IndexTypeOK
  <2>7. config.version = "current" => missing = {} /\ VectorsFollow
    BY <2>1, FollowingIndexes DEF VectorsKept
  <2>8. \A t \in Tables : vectors'[t].there => vectors'[t].layout = "current"
    <3>1. \A t \in Tables : vectors[t].there => vectors[t].layout = "current"
      BY <1>6 DEF OpenMake, VectorsKept
    <3>2. CASE missing = {}
      BY <2>4, <3>1, <3>2
    <3>3. CASE missing # {}
      <4>1. new.layout = "current" /\ vectors' = [vectors EXCEPT ![u] = new] /\ u \in Tables
        BY <2>3, <2>4, <2>5, <3>3
      <4> QED BY <3>1, <4>1 DEF IndexTypeOK
    <3> QED BY <3>2, <3>3
  <2>9. missing = {} => \A t \in Tables : vectors'[t].there
    BY <2>1, <2>4
  <2>10. missing = {} /\ VectorsFollow => VectorsFollow'
    BY <1>0, <2>4 DEF VectorsFollow
  <2>11. VectorsKept'
    BY <1>b, <2>4, <2>7, <2>8, <2>9, <2>10, StagesAreApart DEF VectorsKept, Stages
  <2> QED BY <1>1, <1>2, <2>6, <2>11
<1> QED BY <1>4, <1>5, <1>6

\* The migrations, and the vectors that the version stands for.
LEMMA MigrationKeepsIndexes ==
    ASSUME IndexInv, OpenAddColumn \/ OpenBackfill \/ OpenIndex
    PROVE  IndexInv'
<1> USE DEF IndexInv
<1>0. \A t \in Tables : There(t)' = There(t) /\ Entries(t)' = Entries(t)
  BY SameEntries DEF OpenAddColumn, OpenBackfill, OpenIndex
<1>a. "events" \in Tables
  BY DEF Tables
<1>b. \A t \in Tables \ hurt : words[t].there => Entries(t) \subseteq words[t].has
  BY DEF WordsKept
<1>1. CASE OpenAddColumn
  <2>1. PICK c \in Columns \ columns : columns' = columns \cup {c} /\ halved' = halved \cup {c} /\ opening' = c
    BY <1>1 DEF OpenAddColumn
  <2>2. c \notin Tables \cup Stages
    BY StagesAreApart
  <2>3. opening = "migrate" /\ UNCHANGED <<source, vectors, words, scoped, config, existed, rebuilding, hurt, spentHere>>
    BY <1>1 DEF OpenAddColumn
  <2>4. IndexTypeOK'
    BY <2>1, <2>3 DEF IndexTypeOK
  <2>5. VectorsKept'
    <3>1. VectorsFollow => VectorsFollow'
      BY <1>0, <2>3 DEF VectorsFollow
    <3> QED BY <2>1, <2>2, <2>3, <3>1 DEF VectorsKept, Stages
  <2>6. WordsKept'
    BY <1>0, <1>b, <2>1, <2>2, <2>3 DEF WordsKept, Stages
  <2>7. ScopeKept'
    BY <1>0, <1>a, <2>1, <2>2, <2>3 DEF ScopeKept, Stages
  <2> QED BY <2>4, <2>5, <2>6, <2>7
<1>2. CASE OpenBackfill
  <2>1. PICK c \in Columns : c = opening
    BY <1>2 DEF OpenBackfill
  <2>2. /\ scoped' = [scoped EXCEPT ![c] = There("events")]
        /\ halved' = halved \ {c} /\ opening' = "migrate"
        /\ UNCHANGED <<source, vectors, words, columns, config, existed, rebuilding, hurt, spentHere>>
    BY <1>2, <2>1 DEF OpenBackfill
  <2>3. IndexTypeOK'
    <3>1. There("events") \in SUBSET RowIds
      BY <1>a, EntriesAreRows
    <3> QED BY <2>1, <2>2, <3>1 DEF IndexTypeOK, Stages
  <2>4. VectorsKept'
    <3>1. VectorsFollow => VectorsFollow'
      BY <1>0, <2>2 DEF VectorsFollow
    <3> QED BY <2>1, <2>2, <3>1, StagesAreApart DEF VectorsKept, Stages
  <2>5. WordsKept'
    BY <1>0, <1>b, <2>1, <2>2, StagesAreApart DEF WordsKept, Stages
  <2>6. ScopeKept'
    <3>1. \A d \in columns \ (halved \ {c}) : There("events") \subseteq scoped'[d]
      BY <2>1, <2>2 DEF ScopeKept, IndexTypeOK
    <3> QED BY <1>0, <1>a, <2>1, <2>2, <3>1, StagesAreApart DEF ScopeKept, Stages
  <2> QED BY <2>3, <2>4, <2>5, <2>6
<1>3. CASE OpenIndex
  <2>1. /\ opening = "migrate" /\ columns = Columns /\ opening' = "words"
        /\ config' = [version |-> "current", backend |-> TRUE]
        /\ UNCHANGED <<source, words, columns, scoped, existed, rebuilding, hurt, halved, spentHere>>
    BY <1>3 DEF OpenIndex, past
  <2>2. \A t \in Tables : Entries(t) \in SUBSET (RowIds \X Nat)
    BY EntriesAreRows
  <2>3. vectors' \in [Tables -> Index]
    <3>1. CASE UNCHANGED vectors
      BY <3>1 DEF IndexTypeOK
    <3>2. CASE vectors' = [t \in Tables |-> [vectors[t] EXCEPT !.has = Entries(t)]]
      <4>1. ASSUME NEW t \in Tables PROVE [vectors[t] EXCEPT !.has = Entries(t)] \in Index
        BY <2>2, RefilledIndex DEF IndexTypeOK
      <4> QED BY <3>2, <4>1
    <3> QED BY <1>3, <3>1, <3>2 DEF OpenIndex
  <2>4. IndexTypeOK'
    BY <2>1, <2>3 DEF IndexTypeOK, Stages
  <2>5. \A t \in Tables : /\ vectors'[t].there /\ vectors'[t].layout = "current"
                          /\ vectors'[t].has = Entries(t)
    <3>1. CASE existed /\ UNCHANGED vectors
      BY <3>1, FollowingIndexes DEF VectorsKept
    <3>2. CASE vectors' = [t \in Tables |-> [vectors[t] EXCEPT !.has = Entries(t)]]
      <4>1. ASSUME NEW t \in Tables
            PROVE  vectors'[t].there /\ vectors'[t].layout = "current" /\ vectors'[t].has = Entries(t)
        <5>1. PICK w, e : w \in Index /\ w = vectors[t] /\ e = Entries(t)
          BY DEF IndexTypeOK
        <5>2. vectors'[t] = [w EXCEPT !.has = e] /\ w.there /\ w.layout = "current"
          BY <2>1, <3>2, <5>1 DEF VectorsKept
        <5>3. [w EXCEPT !.has = e].there = w.there /\ [w EXCEPT !.has = e].layout = w.layout
              /\ [w EXCEPT !.has = e].has = e
          BY <2>2, <5>1, RefilledIndex
        <5> QED BY <5>1, <5>2, <5>3
      <4> QED BY <4>1
    <3> QED BY <1>3, <3>1, <3>2 DEF OpenIndex
  <2>6. VectorsFollow'
    BY <1>0, <2>3, <2>5, FollowingRecord DEF VectorsFollow
  <2>7. VectorsKept'
    BY <2>1, <2>6, StagesAreApart DEF VectorsKept, Stages
  <2>8. WordsKept'
    BY <1>0, <1>b, <2>1 DEF WordsKept
  <2>9. ScopeKept'
    BY <1>0, <1>a, <2>1, StagesAreApart DEF ScopeKept, Stages
  <2> QED BY <2>4, <2>7, <2>8, <2>9
<1> QED BY <1>1, <1>2, <1>3

\* Open makes the full-text indexes that are missing, and fills what it has made.
LEMMA OpeningKeepsWords ==
    ASSUME IndexInv, OpenWords \/ \E t \in Tables : OpenFill(t)
    PROVE  IndexInv'
<1> USE DEF IndexInv
<1>0. \A t \in Tables : There(t)' = There(t) /\ Entries(t)' = Entries(t)
  BY SameEntries DEF OpenWords, OpenFill
<1>a. "events" \in Tables
  BY DEF Tables
<1>b. \A t \in Tables \ hurt : words[t].there => Entries(t) \subseteq words[t].has
  BY DEF WordsKept
<1>c. /\ opening \in {"words"} \cup Tables /\ opening' \in {"words", "open"} \cup Tables
      /\ UNCHANGED <<source, vectors, columns, scoped, config, existed, rebuilding, halved, spentHere>>
  <2>1. CASE OpenWords
    <3>1. PICK missing \in SUBSET Tables : missing = {t \in Tables : ~words[t].there}
      OBVIOUS
    <3> QED BY <2>1, <3>1, FirstIsOne DEF OpenWords
  <2>2. ASSUME NEW t \in Tables, OpenFill(t)
        PROVE  /\ opening \in Tables /\ opening' = "words"
               /\ UNCHANGED <<source, vectors, columns, scoped, config, existed, rebuilding, halved, spentHere>>
    BY <2>2 DEF OpenFill
  <2> QED BY <2>1, <2>2 DEF OpenWords
<1>1. VectorsKept'
  <2>1. VectorsFollow => VectorsFollow'
    BY <1>0, <1>c DEF VectorsFollow
  <2> QED BY <1>c, <2>1, StagesAreApart DEF VectorsKept, Stages
<1>2. ScopeKept'
  BY <1>0, <1>a, <1>c, StagesAreApart DEF ScopeKept, Stages
<1>3. \A r \in Rebuilders : rebuilding[r] = "idle"
  BY <1>c, StagesAreApart DEF WordsKept, IndexTypeOK, Stages
<1>4. CASE OpenWords
  <2>1. PICK missing \in SUBSET Tables : missing = {t \in Tables : ~words[t].there}
    OBVIOUS
  <2>2. PICK u : u = First(missing)
    OBVIOUS
  <2>3. missing # {} => u \in missing
    BY <2>2, FirstIsOne
  <2>4. IF missing = {} THEN opening' = "open" /\ UNCHANGED <<words, hurt>>
        ELSE words' = [words EXCEPT ![u].there = TRUE] /\ hurt' = hurt \cup {u} /\ opening' = u
    BY <1>4, <2>1, <2>2 DEF OpenWords
  <2>5. IndexTypeOK'
    <3>1. CASE missing = {}
      BY <1>c, <2>4, <3>1 DEF IndexTypeOK, Stages
    <3>2. CASE missing # {}
      <4>1. u \in Tables /\ words' = [words EXCEPT ![u].there = TRUE] /\ hurt' = hurt \cup {u}
        BY <2>3, <2>4, <3>2
      <4>2. words' \in [Tables -> [there : BOOLEAN, has : SUBSET (RowIds \X Nat)]]
        <5>1. PICK w : w = [words[u] EXCEPT !.there = TRUE]
          OBVIOUS
        <5>2. w \in [there : BOOLEAN, has : SUBSET (RowIds \X Nat)]
          <6>1. PICK v \in [there : BOOLEAN, has : SUBSET (RowIds \X Nat)] : v = words[u]
            BY <4>1 DEF IndexTypeOK
          <6>2. [v EXCEPT !.there = TRUE] \in [there : BOOLEAN, has : SUBSET (RowIds \X Nat)]
            OBVIOUS
          <6> QED BY <5>1, <6>1, <6>2
        <5>3. words' = [words EXCEPT ![u] = w]
          BY <4>1, <5>1
        <5> QED BY <4>1, <5>2, <5>3 DEF IndexTypeOK
      <4> QED BY <1>c, <4>1, <4>2 DEF IndexTypeOK, Stages
    <3> QED BY <3>1, <3>2
  <2>6. WordsKept'
    <3>1. \A t \in Tables \ hurt' : words'[t] = words[t]
      BY <2>3, <2>4 DEF IndexTypeOK
    <3>2. opening' = "open" => missing = {}
      BY <2>3, <2>4, StagesAreApart DEF Stages
    <3>3. hurt \subseteq hurt'
      BY <2>4
    <3> QED BY <1>0, <1>b, <1>c, <1>3, <2>1, <3>1, <3>2, <3>3 DEF WordsKept
  <2> QED BY <1>1, <1>2, <2>5, <2>6
<1>5. ASSUME NEW u \in Tables, OpenFill(u) PROVE IndexInv'
  <2>1. words' = [words EXCEPT ![u].has = Entries(u)] /\ hurt' = hurt \ {u} /\ opening' = "words"
    BY <1>5 DEF OpenFill
  <2>2. Entries(u) \in SUBSET (RowIds \X Nat)
    BY EntriesAreRows
  <2>3. IndexTypeOK'
    BY <1>c, <2>1, <2>2, SMTT(30) DEF IndexTypeOK, Stages
  <2>4. WordsKept'
    <3>1. \A t \in Tables \ {u} : words'[t] = words[t]
      BY <2>1 DEF IndexTypeOK
    <3>2. words'[u].has = Entries(u)
      BY <2>1 DEF IndexTypeOK
    <3>3. ASSUME NEW t \in Tables \ hurt', words'[t].there PROVE Entries(t)' \subseteq words'[t].has
      <4>1. CASE t = u
        BY <1>0, <3>2, <4>1
      <4>2. CASE t # u
        BY <1>0, <1>b, <2>1, <3>1, <3>3, <4>2
      <4> QED BY <4>1, <4>2
    <3> QED BY <1>c, <1>3, <2>1, <3>3 DEF WordsKept
  <2> QED BY <1>1, <1>2, <2>3, <2>4
<1> QED BY <1>4, <1>5

\* A rebuild of the full-text indexes, between the writes.
LEMMA RebuildKeepsWords ==
    ASSUME IndexInv, NEW r \in Rebuilders,
           RebuildMemories(r) \/ RebuildDrop(r) \/ RebuildCreate(r) \/ RebuildFill(r)
    PROVE  IndexInv'
<1> USE DEF IndexInv
<1>0. \A t \in Tables : There(t)' = There(t) /\ Entries(t)' = Entries(t)
  BY SameEntries DEF RebuildMemories, RebuildDrop, RebuildCreate, RebuildFill, past
<1>a. "events" \in Tables /\ "memories" \in Tables
  BY DEF Tables
<1>b. /\ \A t \in Tables \ hurt : words[t].there => Entries(t) \subseteq words[t].has
      /\ \A t \in Tables \ hurt : words[t].there
  BY DEF WordsKept, RebuildMemories, RebuildDrop, RebuildCreate, RebuildFill
<1>c. /\ opening = "open" /\ opening' = "open"
      /\ UNCHANGED <<source, vectors, columns, scoped, config, existed, halved, spentHere>>
  BY DEF WordsKept, RebuildMemories, RebuildDrop, RebuildCreate, RebuildFill, past
<1>1. VectorsKept'
  <2>1. VectorsFollow => VectorsFollow'
    BY <1>0, <1>c DEF VectorsFollow
  <2> QED BY <1>c, <2>1, StagesAreApart DEF VectorsKept, Stages
<1>2. ScopeKept'
  BY <1>0, <1>a, <1>c, StagesAreApart DEF ScopeKept, Stages
<1>3. ASSUME rebuilding' \in [Rebuilders -> {"idle", "drop", "create", "fill"}],
             words' \in [Tables -> [there : BOOLEAN, has : SUBSET (RowIds \X Nat)]],
             hurt' \subseteq Tables,
             \A t \in Tables \ hurt' : words'[t].there /\ Entries(t) \subseteq words'[t].has
      PROVE  IndexInv'
  <2>1. IndexTypeOK'
    BY <1>c, <1>3 DEF IndexTypeOK
  <2>2. WordsKept'
    BY <1>0, <1>c, <1>3 DEF WordsKept
  <2> QED BY <1>1, <1>2, <2>1, <2>2
<1>4. CASE RebuildMemories(r)
  <2>1. PICK w : w = [there |-> TRUE, has |-> Entries("memories")]
    OBVIOUS
  <2>2. w \in [there : BOOLEAN, has : SUBSET (RowIds \X Nat)] /\ w.there /\ w.has = Entries("memories")
    BY <1>a, <2>1, EntriesAreRows
  <2>3. /\ words' = [words EXCEPT !["memories"] = w]
        /\ hurt' = hurt \ {"memories"}
        /\ rebuilding' = [rebuilding EXCEPT ![r] = "drop"]
    BY <1>4, <2>1 DEF RebuildMemories
  <2>4. /\ rebuilding' \in [Rebuilders -> {"idle", "drop", "create", "fill"}]
        /\ words' \in [Tables -> [there : BOOLEAN, has : SUBSET (RowIds \X Nat)]] /\ hurt' \subseteq Tables
    BY <2>2, <2>3 DEF IndexTypeOK
  <2>5. \A t \in Tables \ hurt' : words'[t].there /\ Entries(t) \subseteq words'[t].has
    BY <1>b, <2>2, <2>3 DEF IndexTypeOK
  <2> QED BY <1>3, <2>4, <2>5
<1>5. CASE RebuildDrop(r)
  <2>1. PICK w \in [there : BOOLEAN, has : SUBSET (RowIds \X Nat)] : w = [there |-> FALSE, has |-> {}]
    OBVIOUS
  <2>2. /\ words' = [words EXCEPT !["events"] = w]
        /\ hurt' = hurt \cup {"events"}
        /\ rebuilding' = [rebuilding EXCEPT ![r] = "create"]
    BY <1>5, <2>1 DEF RebuildDrop
  <2>3. /\ rebuilding' \in [Rebuilders -> {"idle", "drop", "create", "fill"}]
        /\ words' \in [Tables -> [there : BOOLEAN, has : SUBSET (RowIds \X Nat)]] /\ hurt' \subseteq Tables
    BY <1>a, <2>1, <2>2 DEF IndexTypeOK
  <2>4. \A t \in Tables \ hurt' : words'[t].there /\ Entries(t) \subseteq words'[t].has
    BY <1>b, <2>2 DEF IndexTypeOK
  <2> QED BY <1>3, <2>3, <2>4
<1>6. CASE RebuildCreate(r)
  <2>1. PICK w : w = [words["events"] EXCEPT !.there = TRUE]
    OBVIOUS
  <2>2. w \in [there : BOOLEAN, has : SUBSET (RowIds \X Nat)] /\ w.there /\ w.has = words["events"].has
    BY <1>a, <2>1 DEF IndexTypeOK
  <2>3. /\ words' = [words EXCEPT !["events"] = w] /\ UNCHANGED hurt
        /\ rebuilding' \in [Rebuilders -> {"idle", "drop", "create", "fill"}]
    BY <1>6, <2>1 DEF RebuildCreate, past, IndexTypeOK
  <2>4. words' \in [Tables -> [there : BOOLEAN, has : SUBSET (RowIds \X Nat)]] /\ hurt' \subseteq Tables
    BY <2>2, <2>3 DEF IndexTypeOK
  <2>5. \A t \in Tables \ hurt' : words'[t].there /\ Entries(t) \subseteq words'[t].has
    BY <1>b, <2>2, <2>3 DEF IndexTypeOK
  <2> QED BY <1>3, <2>3, <2>4, <2>5
<1>7. CASE RebuildFill(r)
  <2>1. rebuilding' \in [Rebuilders -> {"idle", "drop", "create", "fill"}]
    BY <1>7 DEF RebuildFill, IndexTypeOK
  <2>2. CASE ~words["events"].there
    <3>1. UNCHANGED <<words, hurt>>
      BY <1>7, <2>2 DEF RebuildFill
    <3> QED BY <1>3, <1>b, <2>1, <3>1 DEF IndexTypeOK
  <2>3. CASE words["events"].there
    <3>1. PICK w : w = [words["events"] EXCEPT !.has = @ \cup Entries("events")]
      OBVIOUS
    <3>2. Entries("events") \in SUBSET (RowIds \X Nat)
      BY <1>a, EntriesAreRows
    <3>3. w \in [there : BOOLEAN, has : SUBSET (RowIds \X Nat)] /\ w.there /\ Entries("events") \subseteq w.has
      BY <1>a, <2>3, <3>1, <3>2 DEF IndexTypeOK
    <3>4. words' = [words EXCEPT !["events"] = w] /\ hurt' = hurt \ {"events"}
      BY <1>7, <2>3, <3>1 DEF RebuildFill
    <3>5. words' \in [Tables -> [there : BOOLEAN, has : SUBSET (RowIds \X Nat)]] /\ hurt' \subseteq Tables
      BY <3>3, <3>4 DEF IndexTypeOK
    <3>6. \A t \in Tables \ hurt' : words'[t].there /\ Entries(t) \subseteq words'[t].has
      BY <1>b, <3>3, <3>4 DEF IndexTypeOK
    <3> QED BY <1>3, <2>1, <3>5, <3>6
  <2> QED BY <2>2, <2>3
<1> QED BY <1>4, <1>5, <1>6, <1>7

WordIndex == [there : BOOLEAN, has : SUBSET (RowIds \X Nat)]

\* An edit that leaves the vectors equal to the rows, the words of every index that is not hurt
\* at least, and the scope of every event.
LEMMA EditKeepsIndexes ==
    ASSUME IndexInv, opening = "open",
           UNCHANGED <<columns, config, opening, existed, rebuilding, hurt, halved>>,
           source' \in [Tables -> [RowIds -> Nat]],
           vectors' \in [Tables -> Index], words' \in [Tables -> WordIndex],
           scoped' \in [Columns -> SUBSET RowIds], spentHere' \in [edits : Nat, deaths : Nat],
           \A t \in Tables : /\ vectors'[t].there /\ vectors'[t].layout = "current"
                             /\ vectors'[t].has = Entries(t)',
           \A t \in Tables \ hurt : words'[t].there /\ Entries(t)' \subseteq words'[t].has,
           \A c \in columns \ halved : There("events")' \subseteq scoped'[c]
    PROVE  IndexInv'
<1> USE DEF IndexInv
<1>1. IndexTypeOK'
  BY DEF IndexTypeOK, WordIndex
<1>2. VectorsFollow'
  <2>1. ASSUME NEW t \in Tables
        PROVE  vectors'[t] = [there |-> TRUE, layout |-> "current", has |-> Entries(t)']
    <3>1. vectors'[t] \in Index
      OBVIOUS
    <3>2. PICK v \in Index : v = vectors'[t]
      BY <3>1
    <3>3. PICK e : e = Entries(t)'
      OBVIOUS
    <3>4. v.there /\ v.layout = "current" /\ v.has = e
      BY <3>2, <3>3
    <3>5. v = [there |-> TRUE, layout |-> "current", has |-> e]
      BY <3>4, FollowingRecord
    <3> QED BY <3>2, <3>3, <3>5
  <2> QED BY <2>1 DEF VectorsFollow
<1>3. VectorsKept'
  BY <1>2, StagesAreApart DEF VectorsKept, Stages
<1>4. WordsKept'
  BY DEF WordsKept
<1>5. ScopeKept'
  BY StagesAreApart DEF ScopeKept, Stages
<1> QED BY <1>1, <1>3, <1>4, <1>5

\* What an open database has, before an edit.
LEMMA OpenIndexes ==
    ASSUME IndexInv, opening = "open"
    PROVE  /\ \A t \in Tables : /\ vectors[t].there /\ vectors[t].layout = "current"
                                /\ vectors[t].has = Entries(t)
           /\ \A t \in Tables \ hurt : words[t].there /\ Entries(t) \subseteq words[t].has
           /\ \A c \in columns \ halved : There("events") \subseteq scoped[c]
           /\ columns = Columns
  BY FollowingIndexes DEF IndexInv, VectorsKept, WordsKept, ScopeKept

\* An edit is made in an open database, and counted.
LEMMA EditIsCounted ==
    ASSUME IndexTypeOK, Edits
    PROVE  opening = "open" /\ spentHere' \in [edits : Nat, deaths : Nat]
<1>1. spentHere.edits \in Nat /\ spentHere.edits + 1 \in Nat
  BY DEF IndexTypeOK
<1> QED BY <1>1 DEF Edits, IndexTypeOK

\* A row is written with a content of its own, and its indexes in the same transaction.
LEMMA WritingKeepsIndexes ==
    ASSUME IndexInv, NEW u \in Tables, NEW id \in RowIds, RowInsert(u, id) \/ RowUpdate(u, id)
    PROVE  IndexInv'
<1> USE DEF IndexInv
<1>1. PICK n \in Nat : n = NewText /\ n # 0
  BY DEF NewText, IndexTypeOK
<1>2. /\ opening = "open" /\ spentHere' \in [edits : Nat, deaths : Nat]
      /\ source' = [source EXCEPT ![u][id] = n]
      /\ Wrote(u, words[u].has \cup {<<id, n>>})
      /\ UNCHANGED <<columns, config, opening, existed, rebuilding, hurt, halved>>
  BY <1>1, EditIsCounted DEF RowInsert, RowUpdate, past
<1>3. PICK V \in SUBSET (RowIds \X Nat) :
          /\ vectors' = [vectors EXCEPT ![u].has = V]
          /\ \A v \in RowIds \X Nat : v \in V <=> (v = <<id, n>> \/ (v \in Entries(u) /\ v[1] # id))
  <2>1. Entries(u) \in SUBSET (RowIds \X Nat) /\ vectors[u].has = Entries(u)
    BY <1>2, EntriesAreRows, OpenIndexes
  <2>2. CASE RowInsert(u, id)
    <3>1. \A v \in Entries(u) : v[1] # id
      BY <2>2 DEF RowInsert, Entries, There
    <3>2. vectors' = [vectors EXCEPT ![u].has = vectors[u].has \cup {<<id, n>>}]
      BY <1>1, <2>2 DEF RowInsert
    <3>3. PICK V \in SUBSET (RowIds \X Nat) : V = Entries(u) \cup {<<id, n>>}
      <4>1. <<id, n>> \in RowIds \X Nat
        OBVIOUS
      <4>2. Entries(u) \cup {<<id, n>>} \in SUBSET (RowIds \X Nat)
        BY <2>1, <4>1
      <4> QED BY <4>2
    <3>4. vectors' = [vectors EXCEPT ![u].has = V]
      BY <2>1, <3>2, <3>3
    <3>5. \A v \in RowIds \X Nat : v \in V <=> (v = <<id, n>> \/ (v \in Entries(u) /\ v[1] # id))
      BY <3>1, <3>3
    <3> QED BY <3>4, <3>5
  <2>3. CASE RowUpdate(u, id)
    <3>1. vectors' = [vectors EXCEPT ![u].has = {v \in vectors[u].has : v[1] # id} \cup {<<id, n>>}]
      BY <1>1, <2>3 DEF RowUpdate
    <3>2. PICK V \in SUBSET (RowIds \X Nat) : V = {v \in Entries(u) : v[1] # id} \cup {<<id, n>>}
      <4>1. <<id, n>> \in RowIds \X Nat
        OBVIOUS
      <4>2. {v \in Entries(u) : v[1] # id} \cup {<<id, n>>} \in SUBSET (RowIds \X Nat)
        BY <2>1, <4>1
      <4> QED BY <4>2
    <3>3. vectors' = [vectors EXCEPT ![u].has = V]
      BY <2>1, <3>1, <3>2
    <3>4. \A v \in RowIds \X Nat : v \in V <=> (v = <<id, n>> \/ (v \in Entries(u) /\ v[1] # id))
      BY <3>2
    <3> QED BY <3>3, <3>4
  <2> QED BY <2>2, <2>3
<1>4. source' \in [Tables -> [RowIds -> Nat]]
  BY <1>2 DEF IndexTypeOK
<1>5. Entries(u)' = V /\ There(u)' = There(u) \cup {id}
  <2>1. source'[u] = [source[u] EXCEPT ![id] = n]
    BY <1>2 DEF IndexTypeOK
  <2>2. There(u)' = There(u) \cup {id}
    BY <1>1, <2>1 DEF There, IndexTypeOK
  <2>3. ASSUME NEW v \in RowIds \X Nat PROVE v \in Entries(u)' <=> v \in V
    <3>1. v \in Entries(u)' <=> (v[1] \in There(u)' /\ v[2] = source'[u][v[1]])
      BY DEF Entries, There
    <3>2. v \in Entries(u) <=> (v[1] \in There(u) /\ v[2] = source[u][v[1]])
      BY EntriesAreRows
    <3>3. v = <<v[1], v[2]>> /\ v[1] \in RowIds
      OBVIOUS
    <3>4. CASE v[1] = id
      BY <1>3, <2>1, <2>2, <3>1, <3>3, <3>4 DEF IndexTypeOK
    <3>5. CASE v[1] # id
      BY <1>3, <2>1, <2>2, <3>1, <3>2, <3>3, <3>5 DEF IndexTypeOK
    <3> QED BY <3>4, <3>5
  <2>4. Entries(u)' \subseteq RowIds \X Nat
    BY <1>4 DEF Entries, There
  <2> QED BY <2>2, <2>3, <2>4
<1>6. \A t \in Tables \ {u} : Entries(t)' = Entries(t) /\ There(t)' = There(t)
  BY <1>2 DEF Entries, There, IndexTypeOK
<1>7. /\ vectors' \in [Tables -> Index]
      /\ \A t \in Tables : /\ vectors'[t].there /\ vectors'[t].layout = "current"
                           /\ vectors'[t].has = Entries(t)'
  <2>1. PICK w : w = [vectors[u] EXCEPT !.has = V]
    OBVIOUS
  <2>2. w \in Index /\ w.there = vectors[u].there /\ w.layout = vectors[u].layout /\ w.has = V
    BY <2>1, RefilledIndex DEF IndexTypeOK
  <2>3. vectors' = [vectors EXCEPT ![u] = w]
    BY <1>3, <2>1
  <2> QED BY <1>2, <1>5, <1>6, <2>2, <2>3, OpenIndexes DEF IndexTypeOK
<1>8. /\ words' \in [Tables -> WordIndex]
      /\ \A t \in Tables \ hurt : words'[t].there /\ Entries(t)' \subseteq words'[t].has
  <2>1. CASE ~words[u].there
    <3>1. u \in hurt /\ UNCHANGED words
      BY <1>2, <2>1, OpenIndexes DEF Wrote
    <3> QED BY <1>2, <1>6, <3>1, OpenIndexes DEF IndexTypeOK, WordIndex
  <2>2. CASE words[u].there
    <3>1. PICK w : w = [words[u] EXCEPT !.has = words[u].has \cup {<<id, n>>}]
      OBVIOUS
    <3>2. w \in WordIndex /\ w.there /\ w.has = words[u].has \cup {<<id, n>>}
      BY <2>2, <3>1 DEF IndexTypeOK, WordIndex
    <3>3. words' = [words EXCEPT ![u] = w]
      BY <1>2, <2>2, <3>1 DEF Wrote
    <3>4. words' \in [Tables -> WordIndex]
      BY <3>2, <3>3 DEF IndexTypeOK, WordIndex
    <3>5. u \notin hurt => Entries(u)' \subseteq words'[u].has
      <4>1. V \subseteq Entries(u) \cup {<<id, n>>}
        BY <1>3
      <4> QED BY <1>2, <1>5, <3>2, <3>3, <4>1, OpenIndexes DEF IndexTypeOK
    <3>6. \A t \in Tables \ {u} : words'[t] = words[t]
      BY <3>3 DEF IndexTypeOK
    <3>7. words'[u].there
      BY <3>2, <3>3 DEF IndexTypeOK
    <3> QED BY <1>2, <1>6, <3>4, <3>5, <3>6, <3>7, OpenIndexes
  <2> QED BY <2>1, <2>2
<1>9. /\ scoped' \in [Columns -> SUBSET RowIds]
      /\ \A c \in columns \ halved : There("events")' \subseteq scoped'[c]
  <2>1. CASE u = "events" /\ RowInsert(u, id)
    <3>1. scoped' = [c \in Columns |-> scoped[c] \cup {id}]
      BY <2>1 DEF RowInsert
    <3> QED BY <1>2, <1>5, <2>1, <3>1, OpenIndexes DEF IndexTypeOK
  <2>2. CASE u # "events" /\ RowInsert(u, id)
    <3>1. UNCHANGED scoped
      BY <2>2 DEF RowInsert
    <3> QED BY <1>2, <1>6, <2>2, <3>1, OpenIndexes, StagesAreApart DEF IndexTypeOK
  <2>3. CASE RowUpdate(u, id)
    <3>1. UNCHANGED scoped /\ id \in There(u)
      BY <2>3 DEF RowUpdate, There
    <3>2. There("events")' = There("events")
      BY <1>5, <1>6, <3>1, StagesAreApart
    <3> QED BY <1>2, <3>1, <3>2, OpenIndexes DEF IndexTypeOK
  <2> QED BY <2>1, <2>2, <2>3
<1> QED BY <1>2, <1>4, <1>7, <1>8, <1>9, EditKeepsIndexes

\* Rows go with all that was derived from them.
LEMMA DeletingKeepsIndexes ==
    ASSUME IndexInv, NEW gone \in [Tables -> SUBSET RowIds], RowsDelete(gone)
    PROVE  IndexInv'
<1> USE DEF IndexInv
<1>1. /\ opening = "open" /\ spentHere' \in [edits : Nat, deaths : Nat]
      /\ source' = [t \in Tables |-> [id \in RowIds |-> IF id \in gone[t] THEN 0 ELSE source[t][id]]]
      /\ vectors' = [t \in Tables |-> [vectors[t] EXCEPT !.has = {v \in @ : v[1] \notin gone[t]}]]
      /\ words' = [t \in Tables |-> [words[t] EXCEPT !.has = {v \in @ : v[1] \notin gone[t]}]]
      /\ scoped' = [c \in Columns |-> scoped[c] \ gone["events"]]
      /\ UNCHANGED <<columns, config, opening, existed, rebuilding, hurt, halved>>
  BY EditIsCounted DEF RowsDelete, past
<1>2. source' \in [Tables -> [RowIds -> Nat]]
  BY <1>1 DEF IndexTypeOK
<1>3. ASSUME NEW t \in Tables
      PROVE  There(t)' = There(t) \ gone[t] /\ Entries(t)' = {v \in Entries(t) : v[1] \notin gone[t]}
  <2>1. There(t)' = There(t) \ gone[t]
    BY <1>1 DEF There, IndexTypeOK
  <2>2. \A id \in There(t) \ gone[t] : source'[t][id] = source[t][id]
    BY <1>1 DEF There
  <2> QED BY <2>1, <2>2 DEF Entries
<1>4. /\ vectors' \in [Tables -> Index]
      /\ \A t \in Tables : /\ vectors'[t].there /\ vectors'[t].layout = "current"
                           /\ vectors'[t].has = Entries(t)'
  <2>1. ASSUME NEW t \in Tables
        PROVE  /\ vectors'[t] \in Index /\ vectors'[t].there /\ vectors'[t].layout = "current"
               /\ vectors'[t].has = Entries(t)'
    <3>1. Entries(t)' \in SUBSET (RowIds \X Nat)
      BY <1>3, EntriesAreRows
    <3>2. vectors'[t] = [vectors[t] EXCEPT !.has = Entries(t)']
      BY <1>1, <1>3, OpenIndexes DEF IndexTypeOK
    <3>3. PICK v \in Index, e \in SUBSET (RowIds \X Nat) : v = vectors[t] /\ e = Entries(t)'
      BY <3>1 DEF IndexTypeOK
    <3>4. PICK w : w = [v EXCEPT !.has = e]
      OBVIOUS
    <3>5. w \in Index /\ w.there = v.there /\ w.layout = v.layout /\ w.has = e
      BY <3>4, RefilledIndex
    <3>6. v.there /\ v.layout = "current" /\ w = vectors'[t]
      BY <1>1, <3>2, <3>3, <3>4, OpenIndexes
    <3> QED BY <3>3, <3>5, <3>6
  <2>2. DOMAIN vectors' = Tables
    BY <1>1
  <2> QED BY <1>1, <2>1, <2>2
<1>5. /\ words' \in [Tables -> WordIndex]
      /\ \A t \in Tables \ hurt : words'[t].there /\ Entries(t)' \subseteq words'[t].has
  <2>1. ASSUME NEW t \in Tables
        PROVE  /\ words'[t] \in WordIndex /\ words'[t].there = words[t].there
               /\ words'[t].has = {v \in words[t].has : v[1] \notin gone[t]}
    <3>1. words[t] \in WordIndex
      BY DEF IndexTypeOK, WordIndex
    <3>2. words'[t] = [words[t] EXCEPT !.has = {v \in words[t].has : v[1] \notin gone[t]}]
      BY <1>1, <3>1 DEF WordIndex
    <3> QED BY <3>1, <3>2 DEF WordIndex
  <2>2. words' \in [Tables -> WordIndex]
    BY <1>1, <2>1
  <2> QED BY <1>1, <1>3, <2>1, <2>2, OpenIndexes
<1>6. /\ scoped' \in [Columns -> SUBSET RowIds]
      /\ \A c \in columns \ halved : There("events")' \subseteq scoped'[c]
  BY <1>1, <1>3, OpenIndexes, StagesAreApart DEF IndexTypeOK
<1> QED BY <1>1, <1>2, <1>4, <1>5, <1>6, EditKeepsIndexes

\* A death leaves what was committed.
LEMMA DeathKeepsIndexes ==
    ASSUME IndexInv, IndexDeath
    PROVE  IndexInv'
<1> USE DEF IndexInv
<1>0. \A t \in Tables : There(t)' = There(t) /\ Entries(t)' = Entries(t)
  BY SameEntries DEF IndexDeath
<1>a. "events" \in Tables /\ "memories" \in Tables
  BY DEF Tables
<1>1. /\ opening' = "down" /\ existed' = FALSE /\ rebuilding' = [r \in Rebuilders |-> "idle"]
      /\ UNCHANGED <<source, vectors, columns, scoped, config, halved>>
      /\ spentHere' \in [edits : Nat, deaths : Nat]
  BY DEF IndexDeath, IndexTypeOK
<1>2. /\ words' \in [Tables -> WordIndex] /\ hurt' \subseteq Tables
      /\ \A t \in Tables \ hurt' : words'[t].there => Entries(t) \subseteq words'[t].has
  <2>1. CASE UNCHANGED <<words, hurt>>
    BY <2>1 DEF WordsKept, IndexTypeOK, WordIndex
  <2>2. ASSUME NEW there \in BOOLEAN,
               words' = [words EXCEPT !["memories"] = [there |-> there, has |-> {}]],
               hurt' = hurt \cup {"memories"}
        PROVE  /\ words' \in [Tables -> WordIndex] /\ hurt' \subseteq Tables
               /\ \A t \in Tables \ hurt' : words'[t].there => Entries(t) \subseteq words'[t].has
    <3>1. words' \in [Tables -> WordIndex]
      BY <2>2 DEF IndexTypeOK, WordIndex
    <3>2. \A t \in Tables \ {"memories"} : words'[t] = words[t]
      BY <2>2 DEF IndexTypeOK
    <3> QED BY <1>a, <2>2, <3>1, <3>2 DEF WordsKept, IndexTypeOK
  <2> QED BY <2>1, <2>2 DEF IndexDeath
<1>3. IndexTypeOK'
  BY <1>1, <1>2 DEF IndexTypeOK, WordIndex, Stages
<1>4. VectorsKept'
  <2>1. VectorsFollow => VectorsFollow'
    BY <1>0, <1>1 DEF VectorsFollow
  <2> QED BY <1>1, <2>1, StagesAreApart DEF VectorsKept, Stages
<1>5. WordsKept'
  BY <1>0, <1>1, <1>2 DEF WordsKept
<1>6. ScopeKept'
  BY <1>0, <1>1, <1>a, StagesAreApart DEF ScopeKept, Stages
<1> QED BY <1>3, <1>4, <1>5, <1>6

\* Every step keeps the invariant.
LEMMA IndexSteps == IndexInv /\ [IndexNext]_indexVars => IndexInv'
<1> SUFFICES ASSUME IndexInv, [IndexNext]_indexVars PROVE IndexInv'
  OBVIOUS
<1>1. CASE UNCHANGED indexVars
  <2>1. \A t \in Tables : There(t)' = There(t) /\ Entries(t)' = Entries(t)
    BY <1>1, SameEntries DEF indexVars
  <2>2. VectorsFollow => VectorsFollow'
    BY <1>1, <2>1 DEF indexVars, VectorsFollow
  <2>3. VectorsKept'
    BY <1>1, <2>2 DEF indexVars, IndexInv, VectorsKept
  <2>4. IndexTypeOK' /\ WordsKept'
    BY <1>1, <2>1 DEF indexVars, IndexInv, IndexTypeOK, WordsKept
  <2>5. ScopeKept'
    BY <1>1, <2>1 DEF indexVars, IndexInv, ScopeKept, Tables
  <2> QED BY <2>3, <2>4, <2>5 DEF IndexInv
<1>2. ASSUME NEW gone \in [Tables -> SUBSET RowIds], RowsDelete(gone) PROVE IndexInv'
  BY <1>2, DeletingKeepsIndexes
<1>3. ASSUME NEW t \in Tables, NEW id \in RowIds, RowInsert(t, id) \/ RowUpdate(t, id) PROVE IndexInv'
  BY <1>3, WritingKeepsIndexes
<1>4. ASSUME NEW r \in Rebuilders,
             RebuildMemories(r) \/ RebuildDrop(r) \/ RebuildCreate(r) \/ RebuildFill(r)
      PROVE  IndexInv'
  BY <1>4, RebuildKeepsWords
<1> QED BY <1>1, <1>2, <1>3, <1>4, OpenStepKeepsVectors, MigrationKeepsIndexes, OpeningKeepsWords, DeathKeepsIndexes
        DEF IndexNext

\* "The source tables are authoritative" (storage/mod.rs:73): whichever version left the database,
\* wherever processes died and whoever rebuilds beside the writes, an open database has a vector of
\* every row's own content and of no other, and every row's present content in each full-text index
\* and scope column whose filling no death or failure cut off.
THEOREM IndexesFollowTheTables == IndexSpec => []IndexesFollow
<1>1. IndexInv => IndexesFollow
  <2> SUFFICES ASSUME IndexInv, opening = "open" PROVE VectorsFollow /\ WordsFollow /\ ScopeIsBackfilled
    BY DEF IndexesFollow
  <2>1. VectorsFollow
    BY DEF IndexInv, VectorsKept
  <2> QED BY <2>1, OpenIndexes DEF WordsFollow, ScopeIsBackfilled
<1> QED BY <1>1, IndexStarts, IndexSteps, PTL DEF IndexSpec

--------------------------------------------------------------------------------
(* Export and import.  The keys of rows, and the keys that rows of a layer refer to *)

Layers == {"session", "event", "episode", "memory", "history", "identity", "record", "entity", "relation", "link"}
KeySet == Layers \X (SessionIds \cup EventIds \cup Nat \cup (Nat \X Nat))
PortRow == [key : KeySet, user : Users, refs : SUBSET KeySet, scope : {"same", "other"},
            marks : SUBSET {"immutable", "superseded", "delete"}]
RefLayers(r) ==
    CASE Layer(r) = "event" -> {"session"}
      [] Layer(r) = "history" -> {"memory"}
      [] OTHER -> {"session", "event", "memory", "entity"}

\* A row that tells of a memory's deletion
Tells(r) == Layer(r) = "history" /\ "delete" \in r.marks

\* What a store's rows are to each other, where A are the keys that may be referred to in vain.
RowsTyped(R) == R \subseteq PortRow /\ IsFiniteSet(R) /\ \A r \in R : \A k \in r.refs : k[1] \in RefLayers(r)
RefsFind(R, A) == \A r \in R : \A k \in r.refs \ A : RefersWell(R, r, k)
EventsOwned(R, A) == \A v \in Of(R, "event") : v.key \in A \/ \A k \in v.refs : Owned(R, k, v.user)
SessionsApart(R) == \A r, s \in Of(R, "session") : r.key = s.key => r = s
ScopesAgree(R, A) ==
    /\ \A s \in Of(R, "session") : s.scope = "same"
    /\ \A v \in Of(R, "event") : v.scope = "same" \/ v.refs \cap A # {}
StoreSound(R, A) ==
    RowsTyped(R) /\ RefsFind(R, A) /\ EventsOwned(R, A) /\ SessionsApart(R) /\ ScopesAgree(R, A)

\* What a bundle keeps of that, whatever it was exported from.
BundleSound(B) ==
    /\ RowsTyped(B) /\ SessionsApart(B)
    /\ \A s \in Of(B, "session") : s.scope = "same"
    /\ \A v \in Of(B, "event") : v.scope = "same" \/ v.refs # {}

\* The rows of every store and of the bundle
Everywhere == importer.bundle \cup UNION {rows[st] : st \in Stores}

\* The uuids of memories are given out once, so that a memory has one owner in all copies of it, who
\* owns what tells of its deletion.
MemoryKeys(r) == {k \in {r.key} \cup (IF Tells(r) THEN r.refs ELSE {}) : k[1] = "memory"}
OneOwner == \A x, y \in Everywhere : MemoryKeys(x) \cap MemoryKeys(y) # {} => x.user = y.user
Minted == \A x \in Everywhere : \A k \in MemoryKeys(x) : k[2] \in Nat /\ k[2] < fresh

Loose == KeySet \X {"unchecked", "deleted", "forgotten", "removed", "stray"}
Away(st) == {l[1] : l \in loose[st]}
PortTyped ==
    /\ fresh \in Nat /\ rows \in [Stores -> SUBSET PortRow] /\ loose \in [Stores -> SUBSET Loose]
    /\ importer = [pc |-> importer.pc, bundle |-> importer.bundle, user |-> importer.user, target |-> importer.target]
    /\ importer.pc \in {"idle", "exported", "embedding", "embedded", "done", "refused"}
    /\ importer.pc \in {"embedding", "embedded"} => importer.target \in Stores
    /\ BundleSound(importer.bundle)
PortInv == PortTyped /\ OneOwner /\ Minted /\ \A st \in Stores : StoreSound(rows[st], Away(st))

--------------------------------------------------------------------------------
(* Rows *)

LEMMA RowFields ==
    ASSUME NEW r \in PortRow
    PROVE  /\ r.key \in KeySet /\ r.user \in Users /\ r.refs \subseteq KeySet /\ r.scope \in {"same", "other"}
           /\ r.marks \subseteq {"immutable", "superseded", "delete"} /\ Layer(r) \in Layers /\ r.key[1] = Layer(r)
  BY DEF PortRow, KeySet, Layer

LEMMA NewRows ==
    ASSUME NEW k \in KeySet, NEW u \in Users, NEW refs \in SUBSET KeySet
    PROVE  /\ NewRow(k, u, refs) \in PortRow /\ NewRow(k, u, refs).key = k /\ NewRow(k, u, refs).user = u
           /\ NewRow(k, u, refs).refs = refs /\ NewRow(k, u, refs).scope = "same" /\ NewRow(k, u, refs).marks = {}
           /\ Layer(NewRow(k, u, refs)) = k[1] /\ ~Tells(NewRow(k, u, refs))
  BY DEF PortRow, NewRow, Layer, Tells

LEMMA KeysAre ==
    /\ \A s \in SessionIds : K("session", s) \in KeySet
    /\ \A e \in EventIds : K("event", e) \in KeySet
    /\ \A layer \in Layers, n \in Nat : K(layer, n) \in KeySet
    /\ \A a, b \in Nat : K("link", <<a, b>>) \in KeySet
    /\ \A layer, id : K(layer, id)[1] = layer /\ K(layer, id)[2] = id
  BY DEF K, KeySet, Layers

\* Marks of keys, as a store's history has them
LEMMA Marks ==
    /\ \A X, k, why : <<k, why>> \in X => k \in {l[1] : l \in X}
    /\ \A k \in KeySet, why \in {"unchecked", "deleted", "forgotten", "removed", "stray"} : <<k, why>> \in Loose
    /\ \A k, why : <<k, why>>[1] = k
<1>1. ASSUME NEW X, NEW k, NEW why, <<k, why>> \in X PROVE k \in {l[1] : l \in X}
  <2>1. <<k, why>>[1] = k
    OBVIOUS
  <2> QED BY <1>1, <2>1
<1> QED BY <1>1 DEF Loose

\* A key that some row of a set finds, it finds in a larger one.
LEMMA MoreOwned ==
    ASSUME NEW R, NEW Q, R \subseteq Q
    PROVE  \A k, u : Owned(R, k, u) => Owned(Q, k, u)
  BY DEF Owned

--------------------------------------------------------------------------------
(* What is added to a store, and what is taken out of it *)

LEMMA RowsAdded ==
    ASSUME NEW R, NEW A, NEW N, NEW L, StoreSound(R, A), A \subseteq L, RowsTyped(N),
           \A n \in N : \A k \in n.refs \ L : Owned(R \cup N, k, n.user) \/ (Tells(n) /\ k \notin Keys(R \cup N)),
           \A h \in R : Tells(h) => \A n \in N : n.key \in h.refs \ L => n.user = h.user,
           \A v \in Of(N, "event") : v.key \in L \/ \A k \in v.refs : Owned(R \cup N, k, v.user),
           SessionsApart(N), \A s \in Of(N, "session") : s.key \notin Keys(R),
           \A s \in Of(N, "session") : s.scope = "same",
           \A v \in Of(N, "event") : v.scope = "same" \/ v.refs \cap L # {}
    PROVE  StoreSound(R \cup N, L)
<1> DEFINE Q == R \cup N
<1>1. RowsTyped(Q)
  BY FS_Union DEF StoreSound, RowsTyped
<1>2. RefsFind(Q, L)
  <2> SUFFICES ASSUME NEW r \in Q, NEW k \in r.refs \ L PROVE RefersWell(Q, r, k)
    BY DEF RefsFind
  <2>1. CASE r \in N
    BY <2>1 DEF RefersWell, Tells
  <2>2. CASE r \in R
    <3>1. RefersWell(R, r, k)
      BY <2>2 DEF StoreSound, RefsFind
    <3>2. CASE Owned(R, k, r.user)
      BY <3>2 DEF Owned, RefersWell
    <3>3. CASE Tells(r) /\ k \notin Keys(R)
      <4>1. CASE k \notin Keys(N)
        BY <3>3, <4>1 DEF Keys, RefersWell, Tells
      <4>2. CASE k \in Keys(N)
        BY <2>2, <3>3, <4>2 DEF Keys, RefersWell, Owned
      <4> QED BY <4>1, <4>2
    <3> QED BY <3>1, <3>2, <3>3 DEF RefersWell, Tells
  <2> QED BY <2>1, <2>2
<1>3. EventsOwned(Q, L)
  BY DEF EventsOwned, StoreSound, Of, Owned
<1>4. SessionsApart(Q)
  BY DEF SessionsApart, StoreSound, Of, Keys
<1>5. ScopesAgree(Q, L)
  BY DEF ScopesAgree, StoreSound, Of
<1> HIDE DEF Q
<1>6. StoreSound(Q, L)
  BY <1>1, <1>2, <1>3, <1>4, <1>5 DEF StoreSound
<1> QED BY <1>6 DEF Q

LEMMA RowsTakenOut ==
    ASSUME NEW R, NEW A, NEW G \in SUBSET R, NEW L, StoreSound(R, A), A \subseteq L,
           \A g \in G : g.key \in L \/ Layer(g) = "link",
           \A v \in Of(R \ G, "event"), g \in G : g.key \in v.refs /\ g.user = v.user => v.key \in L
    PROVE  StoreSound(R \ G, L)
<1> DEFINE Q == R \ G
<1>0. /\ RowsTyped(R) /\ RefsFind(R, A) /\ EventsOwned(R, A) /\ SessionsApart(R) /\ ScopesAgree(R, A)
  BY DEF StoreSound
<1>1. RowsTyped(Q)
  BY <1>0, FS_Subset DEF RowsTyped
<1>2. RefsFind(Q, L)
  <2> SUFFICES ASSUME NEW r \in Q, NEW k \in r.refs \ L PROVE RefersWell(Q, r, k)
    BY DEF RefsFind
  <2>1. RefersWell(R, r, k)
    BY <1>0 DEF RefsFind
  <2>2. k[1] \in RefLayers(r) /\ k[1] # "link"
    BY <1>0 DEF RowsTyped, RefLayers
  <2>3. CASE Owned(R, k, r.user)
    BY <2>2, <2>3 DEF Owned, RefersWell, Layer
  <2>4. CASE Tells(r) /\ k \notin Keys(R)
    BY <2>4 DEF RefersWell, Keys, Tells
  <2> QED BY <2>1, <2>3, <2>4 DEF RefersWell, Tells
<1>3. EventsOwned(Q, L)
  <2> SUFFICES ASSUME NEW v \in Of(Q, "event"), v.key \notin L, NEW k \in v.refs PROVE Owned(Q, k, v.user)
    BY DEF EventsOwned
  <2>1. PICK x \in R : x.key = k /\ x.user = v.user
    BY <1>0 DEF EventsOwned, Of, Owned
  <2> QED BY <2>1 DEF Owned
<1>4. SessionsApart(Q)
  BY <1>0 DEF SessionsApart, Of
<1>5. ScopesAgree(Q, L)
  BY <1>0 DEF ScopesAgree, Of
<1> HIDE DEF Q
<1>6. StoreSound(Q, L)
  BY <1>1, <1>2, <1>3, <1>4, <1>5 DEF StoreSound
<1> QED BY <1>6 DEF Q

\* A memory that is marked keeps its key and its owner.
LEMMA RowsMarked ==
    ASSUME NEW R, NEW A, StoreSound(R, A), NEW G \in SUBSET Of(R, "memory"), NEW new \in KeySet, new[1] = "memory",
           \A r \in G : Owned(R, new, r.user)
    PROVE  StoreSound((R \ G) \cup {[r EXCEPT !.refs = @ \cup {new}, !.marks = @ \cup {"superseded"}] : r \in G}, A)
<1> DEFINE Marked(r) == [r EXCEPT !.refs = @ \cup {new}, !.marks = @ \cup {"superseded"}]
           M == {Marked(r) : r \in G}
           Q == (R \ G) \cup M
<1>0. RowsTyped(R) /\ RefsFind(R, A) /\ EventsOwned(R, A) /\ SessionsApart(R) /\ ScopesAgree(R, A)
  BY DEF StoreSound
<1>1. \A r \in G : /\ Marked(r) \in PortRow /\ Marked(r).key = r.key /\ Marked(r).user = r.user
                   /\ Marked(r).refs = r.refs \cup {new} /\ Layer(Marked(r)) = "memory" /\ Layer(r) = "memory"
  BY <1>0, ZenonT(40) DEF RowsTyped, PortRow, Of, Layer
<1> HIDE DEF Marked
<1>2. \A k, u : Owned(R, k, u) => Owned(Q, k, u)
  BY <1>1 DEF Owned
<1>3. \A layer : layer # "memory" => Of(Q, layer) = Of(R, layer)
  BY <1>1 DEF Of
<1>4. Keys(Q) = Keys(R)
  BY <1>1 DEF Keys, Of
<1>5. RowsTyped(Q)
  <2>1. IsFiniteSet(M)
    <3>1. IsFiniteSet(G)
      BY <1>0, FS_Subset DEF RowsTyped, Of
    <3>2. [r \in G |-> Marked(r)] \in Surjection(G, M)
      BY DEF Surjection
    <3> QED BY <3>1, <3>2, FS_Surjection
  <2>2. IsFiniteSet(Q)
    BY <1>0, <2>1, FS_Union, FS_Subset DEF RowsTyped
  <2>3. \A r \in M : \A k \in r.refs : k[1] \in RefLayers(r)
    BY <1>0, <1>1 DEF RowsTyped, RefLayers, Of
  <2> QED BY <1>0, <1>1, <2>2, <2>3 DEF RowsTyped
<1>6. RefsFind(Q, A)
  <2> SUFFICES ASSUME NEW r \in Q, NEW k \in r.refs \ A PROVE RefersWell(Q, r, k)
    BY DEF RefsFind
  <2>1. CASE r \in R
    BY <1>0, <1>2, <1>4, <2>1 DEF RefsFind, RefersWell
  <2>2. CASE r \in M
    <3>1. PICK m \in G : r = Marked(m)
      BY <2>2
    <3>2. m \in R /\ (k = new \/ k \in m.refs \ A) /\ Layer(m) # "history"
      BY <1>1, <3>1 DEF Of
    <3>3. Owned(R, k, m.user)
      BY <1>0, <3>2 DEF RefsFind, RefersWell
    <3> QED BY <1>1, <1>2, <3>1, <3>3 DEF RefersWell
  <2> QED BY <2>1, <2>2
<1>7. EventsOwned(Q, A) /\ SessionsApart(Q) /\ ScopesAgree(Q, A)
  BY <1>0, <1>2, <1>3 DEF EventsOwned, SessionsApart, ScopesAgree
<1>8. StoreSound(Q, A)
  BY <1>5, <1>6, <1>7 DEF StoreSound
<1> QED BY <1>8 DEF Marked

--------------------------------------------------------------------------------
(* The calls of a store *)

\* A call replaces the rows of a store, adds to its history and mints ids.
Turned(st, R, X, n) ==
    /\ rows' \in [Stores -> SUBSET PortRow] /\ \A s \in Stores : rows'[s] = IF s = st THEN R ELSE rows[s]
    /\ loose' \in [Stores -> SUBSET Loose]
    /\ \A s \in Stores : loose'[s] = IF s = st THEN loose[st] \cup X ELSE loose[s]
    /\ fresh' = fresh + n /\ importer' = importer

\* The memory that a row is or tells of is one that there was, or is new and the caller's.
Known(x) == \E y \in Everywhere : MemoryKeys(x) \subseteq MemoryKeys(y) /\ x.user = y.user
New(x, u, n) == x.user = u /\ \A k \in MemoryKeys(x) : k[2] \in Nat /\ fresh <= k[2] /\ k[2] < fresh + n

LEMMA Turns ==
    ASSUME PortInv, NEW st \in Stores, NEW R \in SUBSET PortRow, NEW n \in Nat, rows' = [rows EXCEPT ![st] = R],
           fresh' = fresh + n, importer' = importer
    PROVE  /\ UNCHANGED loose => Turned(st, R, {}, n)
           /\ \A X \in SUBSET Loose : loose' = [loose EXCEPT ![st] = @ \cup X] => Turned(st, R, X, n)
<1>1. /\ rows \in [Stores -> SUBSET PortRow] /\ loose \in [Stores -> SUBSET Loose]
  BY DEF PortInv, PortTyped
<1>2. rows' \in [Stores -> SUBSET PortRow] /\ \A s \in Stores : rows'[s] = IF s = st THEN R ELSE rows[s]
  BY <1>1
<1>3. ASSUME UNCHANGED loose PROVE Turned(st, R, {}, n)
  BY <1>1, <1>2, <1>3 DEF Turned
<1>4. ASSUME NEW X \in SUBSET Loose, loose' = [loose EXCEPT ![st] = @ \cup X] PROVE Turned(st, R, X, n)
  <2>1. loose' \in [Stores -> SUBSET Loose]
    BY <1>1, <1>4
  <2> QED BY <1>1, <1>2, <1>4, <2>1 DEF Turned
<1> QED BY <1>3, <1>4

LEMMA CallKeeps ==
    ASSUME PortInv, NEW st \in Stores, NEW R, NEW X, NEW n \in Nat, NEW u, Turned(st, R, X, n),
           StoreSound(R, Away(st) \cup {l[1] : l \in X}),
           \A x \in R : MemoryKeys(x) = {} \/ Known(x) \/ New(x, u, n)
    PROVE  PortInv'
<1>1. PortTyped'
  <2>1. rows' \in [Stores -> SUBSET PortRow] /\ loose' \in [Stores -> SUBSET Loose] /\ fresh' \in Nat
    BY DEF PortInv, PortTyped, Turned
  <2>2. importer' = importer /\ PortTyped
    BY DEF PortInv, Turned
  <2> QED BY <2>1, <2>2 DEF PortTyped
<1>2. \A s \in Stores : StoreSound(rows[s], Away(s))'
  <2>1. TAKE s \in Stores
  <2>2. CASE s = st
    <3>1. rows'[s] = R /\ Away(s)' = Away(st) \cup {l[1] : l \in X}
      BY <2>2 DEF PortInv, PortTyped, Turned, Away
    <3> QED BY <3>1
  <2>3. CASE s # st
    <3>1. rows'[s] = rows[s] /\ Away(s)' = Away(s)
      BY <2>3 DEF PortInv, PortTyped, Turned, Away
    <3> QED BY <3>1 DEF PortInv
  <2> QED BY <2>2, <2>3
<1>3. \A x \in Everywhere' : x \in Everywhere \/ x \in R
  BY DEF Everywhere, Turned, PortInv, PortTyped
<1>4. \A x \in Everywhere' : MemoryKeys(x) = {} \/ Known(x) \/ New(x, u, n)
  BY <1>3 DEF Known
<1>5. \A x : Known(x) => \A k \in MemoryKeys(x) : k[2] \in Nat /\ k[2] < fresh
  BY DEF Known, PortInv, Minted
<1>6. OneOwner'
  <2> SUFFICES ASSUME NEW x \in Everywhere', NEW y \in Everywhere', NEW k \in MemoryKeys(x) \cap MemoryKeys(y)
               PROVE  x.user = y.user
    BY DEF OneOwner
  <2>1. CASE Known(x) /\ Known(y)
    BY <2>1 DEF Known, PortInv, OneOwner
  <2>2. CASE New(x, u, n) /\ New(y, u, n)
    BY <2>2 DEF New
  <2>3. ~(Known(x) /\ New(y, u, n)) /\ ~(New(x, u, n) /\ Known(y))
    BY <1>5 DEF New, PortInv, PortTyped
  <2> QED BY <1>4, <2>1, <2>2, <2>3
<1>7. Minted'
  <2> SUFFICES ASSUME NEW x \in Everywhere', NEW k \in MemoryKeys(x) PROVE k[2] \in Nat /\ k[2] < fresh'
    BY DEF Minted
  <2>1. fresh \in Nat /\ fresh' = fresh + n
    BY DEF PortInv, PortTyped, Turned
  <2> QED BY <1>4, <1>5, <2>1 DEF New
<1> QED BY <1>1, <1>2, <1>6, <1>7 DEF PortInv

\* Rows that may be added to a store whose history becomes L.
Fits(st, N, L, u, n) ==
    /\ RowsTyped(N)
    /\ \A r \in N : /\ \A k \in r.refs \ L : Owned(rows[st] \cup N, k, r.user) \/ (Tells(r) /\ k \notin Keys(rows[st] \cup N))
                    /\ Layer(r) = "event" => r.key \in L \/ \A k \in r.refs : Owned(rows[st] \cup N, k, r.user)
                    /\ Layer(r) = "event" => r.scope = "same" \/ r.refs \cap L # {}
                    /\ Layer(r) = "session" => r.scope = "same" /\ r.key \notin Keys(rows[st])
                    /\ MemoryKeys(r) = {} \/ Known(r) \/ New(r, u, n)
    /\ SessionsApart(N)

LEMMA CallAdds ==
    ASSUME PortInv, NEW st \in Stores, NEW N, NEW X, NEW n \in Nat, NEW u, Turned(st, rows[st] \cup N, X, n),
           Fits(st, N, Away(st) \cup {l[1] : l \in X}, u, n)
    PROVE  PortInv'
<1> DEFINE L == Away(st) \cup {l[1] : l \in X}
<1>1. PICK R, A : R = rows[st] /\ A = Away(st)
  OBVIOUS
<1>2. StoreSound(R, A) /\ R \subseteq Everywhere
  BY <1>1 DEF PortInv, Everywhere
<1>3. \A h \in R : Tells(h) => \A m \in N : m.key \in h.refs \ L => m.user = h.user
  <2> SUFFICES ASSUME NEW h \in R, Tells(h), NEW m \in N, m.key \in h.refs PROVE m.user = h.user
    OBVIOUS
  <2>0. MemoryKeys(m) = {} \/ Known(m) \/ New(m, u, n)
    BY DEF Fits
  <2>1. m.key \in MemoryKeys(h) /\ m.key \in MemoryKeys(m)
    BY <1>2 DEF MemoryKeys, StoreSound, RowsTyped, RefLayers, Tells
  <2>2. h \in Everywhere /\ m.key[2] \in Nat /\ m.key[2] < fresh /\ fresh \in Nat
    BY <1>2, <2>1 DEF PortInv, Minted, PortTyped
  <2>3. CASE Known(m)
    BY <2>1, <2>2, <2>3 DEF Known, PortInv, OneOwner
  <2>4. ~New(m, u, n)
    BY <2>1, <2>2 DEF New
  <2> QED BY <2>0, <2>1, <2>3, <2>4
<1>4. StoreSound(R \cup N, L)
  <2> HIDE DEF L
  <2>1. A \subseteq L
    BY <1>1 DEF L
  <2> QED
    <3>1. /\ RowsTyped(N) /\ SessionsApart(N)
          /\ \A r \in N : \A k \in r.refs \ L : Owned(R \cup N, k, r.user) \/ (Tells(r) /\ k \notin Keys(R \cup N))
          /\ \A v \in Of(N, "event") : v.key \in L \/ \A k \in v.refs : Owned(R \cup N, k, v.user)
          /\ \A s \in Of(N, "session") : s.key \notin Keys(R)
          /\ \A s \in Of(N, "session") : s.scope = "same"
          /\ \A v \in Of(N, "event") : v.scope = "same" \/ v.refs \cap L # {}
      BY <1>1 DEF Fits, Of, L
    <3> QED BY <1>2, <1>3, <2>1, <3>1, RowsAdded
<1>5. \A x \in R \cup N : MemoryKeys(x) = {} \/ Known(x) \/ New(x, u, n)
  BY <1>2 DEF Known, Fits
<1> QED BY <1>1, <1>4, <1>5, CallKeeps

LEMMA RowsOf ==
    ASSUME PortInv, NEW st \in Stores
    PROVE  /\ StoreSound(rows[st], Away(st)) /\ RowsTyped(rows[st]) /\ rows[st] \subseteq PortRow
           /\ IsFiniteSet(rows[st]) /\ rows[st] \subseteq Everywhere /\ fresh \in Nat
           /\ fresh + 0 = fresh /\ \A layer \in Layers, n \in Nat : K(layer, fresh + n) \in KeySet
<1>1. PortTyped /\ StoreSound(rows[st], Away(st))
  BY DEF PortInv
<1>2. fresh \in Nat /\ fresh + 0 = fresh /\ \A n \in Nat : fresh + n \in Nat
  BY <1>1 DEF PortTyped
<1>3. rows[st] \subseteq Everywhere
  BY DEF Everywhere
<1> QED BY <1>1, <1>2, <1>3, KeysAre DEF StoreSound, RowsTyped

\* A call that only adds rows, and none that refer in vain.
LEMMA CallAddsSafely ==
    ASSUME PortInv, NEW st \in Stores, NEW N \in SUBSET PortRow, NEW n \in Nat, NEW u,
           rows' = [rows EXCEPT ![st] = rows[st] \cup N], fresh' = fresh + n, importer' = importer, UNCHANGED loose,
           Fits(st, N, Away(st), u, n)
    PROVE  PortInv'
<1>1. rows[st] \cup N \in SUBSET PortRow
  BY RowsOf
<1>2. Turned(st, rows[st] \cup N, {}, n)
  BY <1>1, Turns
<1>3. Away(st) \cup {l[1] : l \in {}} = Away(st)
  OBVIOUS
<1>4. Fits(st, N, Away(st) \cup {l[1] : l \in {}}, u, n)
  BY <1>3
<1> QED BY <1>2, <1>4, CallAdds

LEMMA AppendKeeps ==
    ASSUME PortInv, NEW st \in Stores, NEW u \in Users, NEW s \in SessionIds, NEW e \in EventIds,
           CallAppend(st, u, s, e)
    PROVE  PortInv'
<1> DEFINE event == NewRow(K("event", e), u, {K("session", s)})
           session == NewRow(K("session", s), u, {})
           N == {event} \cup (IF K("session", s) \in Keys(rows[st]) THEN {} ELSE {session})
<1>1. /\ event \in PortRow /\ event.key = K("event", e) /\ event.user = u /\ event.refs = {K("session", s)}
      /\ event.scope = "same" /\ Layer(event) = "event" /\ ~Tells(event)
  BY NewRows, KeysAre
<1>2. /\ session \in PortRow /\ session.key = K("session", s) /\ session.user = u /\ session.refs = {}
      /\ session.scope = "same" /\ Layer(session) = "session" /\ ~Tells(session)
  BY NewRows, KeysAre
<1>3. /\ rows' = [rows EXCEPT ![st] = rows[st] \cup N] /\ fresh' = fresh + 0 /\ importer' = importer /\ UNCHANGED loose
      /\ N \in SUBSET PortRow
  BY <1>1, <1>2 DEF CallAppend, Called, Adds
<1>4. \A r \in rows[st] : r.key = K("session", s) => r.user = u
  BY DEF CallAppend
<1> HIDE DEF event, session
<1>5. Owned(rows[st] \cup N, K("session", s), u)
  BY <1>2, <1>4 DEF Owned, Keys
<1>6. \A r \in N : r = event \/ (r = session /\ K("session", s) \notin Keys(rows[st]))
  OBVIOUS
<1>7. IsFiniteSet(N)
  BY FS_Singleton, FS_Union, FS_EmptySet
<1> HIDE DEF N
<1>8. \A r \in N : /\ r \in PortRow /\ (\A k \in r.refs : k = K("session", s) /\ r.user = u)
                   /\ MemoryKeys(r) = {} /\ r.scope = "same"
                   /\ (Layer(r) = "session" => r = session /\ r.key \notin Keys(rows[st]))
                   /\ \A k \in r.refs : k[1] \in RefLayers(r)
  BY <1>1, <1>2, <1>6, KeysAre DEF MemoryKeys, RefLayers
<1>9. RowsTyped(N) /\ SessionsApart(N)
  BY <1>7, <1>8 DEF RowsTyped, SessionsApart, Of
<1>10. Fits(st, N, Away(st), u, 0)
  <2>1. \A r \in N : \A k \in r.refs : Owned(rows[st] \cup N, k, r.user)
    BY <1>5, <1>8
  <2> QED BY <1>8, <1>9, <2>1 DEF Fits
<1>11. 0 \in Nat
  OBVIOUS
<1> QED BY <1>3, <1>10, <1>11, CallAddsSafely

LEMMA IngestKeeps ==
    ASSUME PortInv, NEW st \in Stores, NEW u \in Users, NEW s \in SessionIds, CallIngest(st, u, s)
    PROVE  PortInv'
<1> DEFINE plain == NewRow(K("event", fresh), u, {K("session", s)})
           event == [plain EXCEPT !.scope = "other"]
           X == {<<k, "unchecked">> : k \in {K("session", s), K("event", fresh)}}
<1>1. /\ plain \in PortRow /\ plain.key = K("event", fresh) /\ plain.user = u /\ plain.refs = {K("session", s)}
      /\ Layer(plain) = "event" /\ ~Tells(plain)
  BY NewRows, KeysAre, RowsOf DEF Layers
<1>2. /\ event \in PortRow /\ event.key = K("event", fresh) /\ event.refs = {K("session", s)}
      /\ Layer(event) = "event" /\ ~Tells(event)
  <2> HIDE DEF plain
  <2> QED BY <1>1 DEF PortRow, Layer, Tells
<1>3. Turned(st, rows[st] \cup {event}, X, 1)
  <2>1. rows[st] \cup {event} \in SUBSET PortRow /\ 1 \in Nat /\ X \in SUBSET Loose
    <3>1. K("session", s) \in KeySet /\ K("event", fresh) \in KeySet
      BY RowsOf, KeysAre DEF Layers
    <3>2. event \in PortRow /\ rows[st] \subseteq PortRow
      BY <1>2, RowsOf
    <3> HIDE DEF event
    <3> QED BY <3>1, <3>2 DEF Loose
  <2>2. /\ rows' = [rows EXCEPT ![st] = rows[st] \cup {event}] /\ fresh' = fresh + 1 /\ importer' = importer
        /\ loose' = [loose EXCEPT ![st] = @ \cup X]
    BY DEF CallIngest, Called, Adds, Unchecked
  <2> QED BY <2>1, <2>2, Turns
<1>4. K("session", s) \in {l[1] : l \in X} /\ K("event", fresh) \in {l[1] : l \in X}
  <2>1. <<K("session", s), "unchecked">> \in X /\ <<K("event", fresh), "unchecked">> \in X
    OBVIOUS
  <2> HIDE DEF X
  <2> QED BY <2>1
<1> HIDE DEF event, X
<1>5. MemoryKeys(event) = {}
  BY <1>2, KeysAre DEF MemoryKeys
<1>6. \A k \in event.refs : k[1] \in RefLayers(event)
  BY <1>2, KeysAre DEF RefLayers
<1>7. RowsTyped({event}) /\ SessionsApart({event})
  BY <1>6, <1>2, KeysAre, FS_Singleton DEF RowsTyped, SessionsApart, RefLayers, Of
<1>8. Fits(st, {event}, Away(st) \cup {l[1] : l \in X}, u, 1)
  BY <1>2, <1>4, <1>5, <1>7 DEF Fits
<1>9. 1 \in Nat
  OBVIOUS
<1> QED BY <1>3, <1>8, <1>9, CallAdds

LEMMA CompactKeeps ==
    ASSUME PortInv, NEW st \in Stores, NEW s \in SessionIds, CallCompact(st, s)
    PROVE  PortInv'
<1> DEFINE digested == UNION {r.refs : r \in Of(rows[st], "episode")}
           events == {r.key : r \in {v \in Of(rows[st], "event") : K("session", s) \in v.refs /\ v.key \notin digested}}
<1>1. PICK session \in rows[st] :
        /\ session.key = K("session", s)
        /\ Adds(st, {NewRow(K("episode", fresh), session.user, events \cup {session.key}),
                     [NewRow(K("memory", fresh + 1), session.user, {session.key}) EXCEPT !.marks = {"immutable"}]}, 2)
  BY DEF CallCompact
<1>2. importer' = importer /\ UNCHANGED loose
  BY DEF CallCompact, Called
<1>3. events \subseteq KeySet /\ \A k \in events : k[1] = "event" /\ (k \in Away(st) \/ Owned(rows[st], k, session.user))
  <2> SUFFICES ASSUME NEW v \in Of(rows[st], "event"), K("session", s) \in v.refs
               PROVE  /\ v.key \in KeySet /\ v.key[1] = "event"
                      /\ v.key \in Away(st) \/ Owned(rows[st], v.key, session.user)
    OBVIOUS
  <2>1. v \in rows[st] /\ v.key \in KeySet /\ v.key[1] = "event"
    BY RowsOf, RowFields DEF Of
  <2>2. CASE v.key \notin Away(st)
    <3>1. Owned(rows[st], K("session", s), v.user)
      BY <2>2, RowsOf DEF StoreSound, EventsOwned
    <3>2. PICK x \in rows[st] : x.key = K("session", s) /\ x.user = v.user
      BY <3>1 DEF Owned
    <3>3. x \in Of(rows[st], "session") /\ session \in Of(rows[st], "session")
      BY <1>1, <3>2, KeysAre DEF Of, Layer
    <3>4. x = session
      BY <1>1, <3>2, <3>3, RowsOf DEF StoreSound, SessionsApart
    <3> QED BY <2>1, <3>2, <3>4 DEF Owned
  <2> QED BY <2>1, <2>2
<1> HIDE DEF events
<1> DEFINE episode == NewRow(K("episode", fresh), session.user, events \cup {session.key})
           plain == NewRow(K("memory", fresh + 1), session.user, {session.key})
           memory == [plain EXCEPT !.marks = {"immutable"}]
           N == {episode, memory}
<1>4. session.user \in Users /\ session.key \in KeySet /\ session.key[1] = "session"
  BY <1>1, RowsOf, RowFields, KeysAre
<1>5. fresh \in Nat /\ fresh + 1 \in Nat /\ K("episode", fresh) \in KeySet /\ K("memory", fresh + 1) \in KeySet
  BY RowsOf, KeysAre DEF Layers
<1>6. /\ episode \in PortRow /\ episode.user = session.user /\ episode.refs = events \cup {session.key}
      /\ Layer(episode) = "episode" /\ MemoryKeys(episode) = {}
  <2>1. episode.key = K("episode", fresh) /\ ~Tells(episode)
    BY <1>3, <1>4, <1>5, NewRows
  <2>2. /\ episode \in PortRow /\ episode.user = session.user /\ episode.refs = events \cup {session.key}
        /\ Layer(episode) = "episode"
    <3>1. events \cup {session.key} \in SUBSET KeySet
      BY <1>3, <1>4
    <3> QED BY <1>4, <1>5, <3>1, NewRows, KeysAre
  <2> HIDE DEF episode
  <2>3. MemoryKeys(episode) = {}
    BY <2>1, KeysAre DEF MemoryKeys
  <2> QED BY <2>2, <2>3
<1>7. /\ memory \in PortRow /\ memory.user = session.user /\ memory.refs = {session.key}
      /\ Layer(memory) = "memory" /\ MemoryKeys(memory) = {K("memory", fresh + 1)}
  <2>1. /\ plain \in PortRow /\ plain.user = session.user /\ plain.refs = {session.key}
        /\ plain.key = K("memory", fresh + 1) /\ Layer(plain) = "memory"
    BY <1>4, <1>5, NewRows, KeysAre
  <2> HIDE DEF plain
  <2>2. /\ memory \in PortRow /\ memory.user = session.user /\ memory.refs = {session.key}
        /\ memory.key = K("memory", fresh + 1) /\ Layer(memory) = "memory"
    BY <2>1 DEF PortRow, Layer
  <2> HIDE DEF memory
  <2> QED BY <2>2, KeysAre DEF MemoryKeys, Tells
<1>8. rows' = [rows EXCEPT ![st] = rows[st] \cup N] /\ fresh' = fresh + 2 /\ N \in SUBSET PortRow
  BY <1>1, <1>6, <1>7 DEF Adds
<1> HIDE DEF episode, memory
<1>9. RowsTyped(N) /\ SessionsApart(N)
  <2>1. IsFiniteSet(N)
    <3>1. IsFiniteSet({episode}) /\ IsFiniteSet({memory}) /\ N = {episode} \cup {memory}
      BY FS_Singleton
    <3> QED BY <3>1, FS_Union
  <2> QED BY <1>3, <1>4, <1>6, <1>7, <2>1 DEF RowsTyped, SessionsApart, RefLayers, Of
<1>10. Fits(st, N, Away(st), session.user, 2)
  <2>1. Owned(rows[st], session.key, session.user)
    BY DEF Owned
  <2>2. \A k \in events \cup {session.key} : k \in Away(st) \/ Owned(rows[st] \cup N, k, session.user)
    BY <1>3, <2>1, MoreOwned
  <2>3. \A r \in N : r.user = session.user /\ \A k \in r.refs : k \in Away(st) \/ Owned(rows[st] \cup N, k, r.user)
    BY <1>6, <1>7, <2>2
  <2>4. New(memory, session.user, 2)
    BY <1>5, <1>7, KeysAre DEF New
  <2>5. \A r \in N : Layer(r) # "event" /\ Layer(r) # "session" /\ (MemoryKeys(r) = {} \/ New(r, session.user, 2))
    BY <1>6, <1>7, <2>4
  <2> QED BY <1>9, <2>3, <2>5 DEF Fits
<1>11. 2 \in Nat
  OBVIOUS
<1> QED BY <1>2, <1>8, <1>10, <1>11, CallAddsSafely

\* A call that adds one row of no memory, which refers in vain only to what it names.
LEMMA CallAddsOne ==
    ASSUME PortInv, NEW st \in Stores, NEW k \in KeySet, NEW u \in Users, NEW X \in SUBSET Loose,
           NEW refs \in SUBSET {l[1] : l \in X}, NEW n \in Nat,
           k[1] \in {"identity", "record"} \/ (k = K("memory", fresh) /\ n = 1),
           \A j \in refs : j[1] \in {"session", "event", "memory", "entity"},
           rows' = [rows EXCEPT ![st] = @ \cup {NewRow(k, u, refs)}], fresh' = fresh + n, importer' = importer,
           loose' = [loose EXCEPT ![st] = @ \cup X] \/ (X = {} /\ UNCHANGED loose)
    PROVE  PortInv'
<1> DEFINE row == NewRow(k, u, refs)
<1>1. refs \subseteq KeySet
  BY DEF Loose
<1>2. /\ row \in PortRow /\ row.key = k /\ row.user = u /\ row.refs = refs /\ Layer(row) = k[1] /\ ~Tells(row)
  BY <1>1, NewRows
<1>3. k[1] \in {"identity", "record", "memory"}
  BY KeysAre
<1>4. Turned(st, rows[st] \cup {row}, X, n)
  <2>1. rows[st] \cup {row} \in SUBSET PortRow
    BY <1>2, RowsOf
  <2>2. rows' = [rows EXCEPT ![st] = rows[st] \cup {row}]
    OBVIOUS
  <2> HIDE DEF row
  <2> QED BY <2>1, <2>2, Turns
<1> HIDE DEF row
<1>5. RowsTyped({row}) /\ SessionsApart({row})
  <2>1. \A j \in row.refs : j[1] \in RefLayers(row)
    BY <1>2, <1>3 DEF RefLayers
  <2> QED BY <1>2, <2>1, FS_Singleton DEF RowsTyped, SessionsApart, Of
<1>6. MemoryKeys(row) = {} \/ New(row, u, n)
  <2>1. CASE k[1] # "memory"
    BY <1>2, <2>1 DEF MemoryKeys
  <2>2. CASE k = K("memory", fresh) /\ n = 1
    <3>1. MemoryKeys(row) \subseteq {k} /\ k[2] = fresh /\ fresh \in Nat
      BY <1>2, <2>2, KeysAre, RowsOf DEF MemoryKeys
    <3> QED BY <1>2, <2>2, <3>1 DEF New
  <2> QED BY <2>1, <2>2
<1>7. Fits(st, {row}, Away(st) \cup {l[1] : l \in X}, u, n)
  BY <1>2, <1>3, <1>5, <1>6 DEF Fits
<1> QED BY <1>4, <1>7, CallAdds

LEMMA SmallCallsKeep ==
    ASSUME PortInv, NEW st \in Stores, NEW u \in Users,
           \/ CallAddDeferred(st, u) \/ CallRecord(st, u)
           \/ \E m \in Keys(Of(rows[st], "memory")) : CallLearn(st, u, m)
    PROVE  PortInv'
<1>0. fresh + 1 \in Nat /\ 1 \in Nat /\ \A layer \in Layers : K(layer, fresh) \in KeySet
  BY RowsOf, KeysAre
<1>1. ASSUME CallAddDeferred(st, u) \/ CallRecord(st, u) PROVE PortInv'
  <2>1. PICK k \in {K("memory", fresh), K("record", fresh)} :
          rows' = [rows EXCEPT ![st] = @ \cup {NewRow(k, u, {})}] /\ fresh' = fresh + 1
    BY <1>1 DEF CallAddDeferred, CallRecord, Adds
  <2>2. importer' = importer /\ UNCHANGED loose
    BY <1>1 DEF CallAddDeferred, CallRecord, Called
  <2>3. k \in KeySet /\ (k[1] \in {"identity", "record"} \/ (k = K("memory", fresh) /\ 1 = 1))
    BY <1>0, KeysAre DEF Layers
  <2>4. {} \in SUBSET Loose /\ {} \in SUBSET {l[1] : l \in {}}
    OBVIOUS
  <2> QED BY <1>0, <2>1, <2>2, <2>3, <2>4, CallAddsOne
<1>2. ASSUME NEW m \in Keys(Of(rows[st], "memory")), CallLearn(st, u, m) PROVE PortInv'
  <2> DEFINE X == {<<k, "unchecked">> : k \in {m}}
  <2>1. m \in KeySet /\ m[1] = "memory"
    BY RowsOf, RowFields DEF Keys, Of
  <2>2. X \in SUBSET Loose /\ {m} \in SUBSET {l[1] : l \in X}
    <3>1. <<m, "unchecked">> \in X /\ X = {<<m, "unchecked">>}
      OBVIOUS
    <3> HIDE DEF X
    <3> QED BY <2>1, <3>1 DEF Loose
  <2>3. /\ rows' = [rows EXCEPT ![st] = @ \cup {NewRow(K("identity", fresh), u, {m})}] /\ fresh' = fresh + 1
        /\ loose' = [loose EXCEPT ![st] = @ \cup X] /\ importer' = importer
    BY <1>2 DEF CallLearn, Called, Adds, Unchecked
  <2>4. K("identity", fresh) \in KeySet /\ K("identity", fresh)[1] = "identity"
    BY <1>0, KeysAre DEF Layers
  <2> HIDE DEF X
  <2> QED BY <1>0, <2>1, <2>2, <2>3, <2>4, CallAddsOne
<1> QED BY <1>1, <1>2

LEMMA ImportMemoriesKeeps ==
    ASSUME PortInv, NEW st \in Stores, NEW u \in Users, NEW from \in Stores, CallImportMemories(st, u, from)
    PROVE  PortInv'
<1> DEFINE B == {r \in Of(rows[from], "memory") : r.user = u}
           X == {<<k, "unchecked">> : k \in UNION {r.refs : r \in B}}
<1>1. \A r \in B : /\ r \in PortRow /\ r \in Everywhere /\ Layer(r) = "memory" /\ r.refs \subseteq KeySet
                   /\ \A k \in r.refs : k[1] \in RefLayers(r)
  BY RowsOf, RowFields DEF Of, RowsTyped
<1>2. B \subseteq rows[from]
  BY DEF Of
<1>3. /\ rows' = [rows EXCEPT ![st] = rows[st] \cup B] /\ fresh' = fresh + 0 /\ importer' = importer
      /\ loose' = [loose EXCEPT ![st] = @ \cup X]
  BY DEF CallImportMemories, Called, Adds, Unchecked
<1>4. RowsTyped(B) /\ SessionsApart(B)
  <2>1. IsFiniteSet(B)
    BY <1>2, RowsOf, FS_Subset
  <2> HIDE DEF B
  <2> QED BY <1>1, <2>1 DEF RowsTyped, SessionsApart, Of
<1>5. X \in SUBSET Loose
  <2> HIDE DEF B
  <2> QED BY <1>1 DEF Loose
<1>6. \A r \in B : r.refs \subseteq {l[1] : l \in X}
  <2> SUFFICES ASSUME NEW r \in B, NEW k \in r.refs PROVE k \in {l[1] : l \in X}
    OBVIOUS
  <2>1. <<k, "unchecked">> \in X
    OBVIOUS
  <2> HIDE DEF X
  <2> QED BY <2>1
<1> HIDE DEF B, X
<1>7. Turned(st, rows[st] \cup B, X, 0)
  <2>1. rows[st] \cup B \in SUBSET PortRow /\ 0 \in Nat
    BY <1>1, RowsOf
  <2> QED BY <1>3, <1>5, <2>1, Turns
<1>8. Fits(st, B, Away(st) \cup {l[1] : l \in X}, u, 0)
  <2>1. \A r \in B : Known(r)
    BY <1>1 DEF Known
  <2> QED BY <1>1, <1>4, <1>6, <2>1 DEF Fits
<1>9. 0 \in Nat
  OBVIOUS
<1> QED BY <1>7, <1>8, <1>9, CallAdds

LEMMA ExtractKeeps ==
    ASSUME PortInv, NEW st \in Stores, NEW m \in Of(rows[st], "memory"), CallExtract(st, m)
    PROVE  PortInv'
<1> DEFINE entity == NewRow(K("entity", fresh), m.user, {})
           mates == {r \in Of(rows[st], "entity") : r.user = m.user} \cup {entity}
<1>1. PICK mate \in mates :
        Adds(st, {entity, NewRow(K("relation", fresh + 1), m.user, {entity.key, mate.key}),
                  NewRow(K("link", <<m.key[2], fresh>>), m.user, {m.key, entity.key})}, 2)
  BY DEF CallExtract
<1>2. /\ m \in rows[st] /\ m.user \in Users /\ m.key \in KeySet /\ m.key[1] = "memory"
      /\ m.key[2] \in Nat /\ fresh \in Nat /\ fresh + 1 \in Nat
  <2>1. m \in rows[st] /\ m.user \in Users /\ m.key \in KeySet /\ m.key[1] = "memory"
    BY RowsOf, RowFields DEF Of
  <2>2. m.key \in MemoryKeys(m) /\ m \in Everywhere
    BY <2>1, RowsOf DEF MemoryKeys
  <2>3. m.key[2] \in Nat
    BY <2>2 DEF PortInv, Minted
  <2> QED BY <2>1, <2>3, RowsOf
<1>3. K("entity", fresh) \in KeySet /\ K("relation", fresh + 1) \in KeySet /\ K("link", <<m.key[2], fresh>>) \in KeySet
  BY <1>2, KeysAre DEF Layers
<1>4. /\ entity \in PortRow /\ entity.key = K("entity", fresh) /\ entity.user = m.user /\ entity.refs = {}
      /\ Layer(entity) = "entity" /\ ~Tells(entity)
  BY <1>2, <1>3, NewRows, KeysAre
<1>5. mate.key \in KeySet /\ mate.key[1] = "entity" /\ mate.user = m.user /\ (mate \in rows[st] \/ mate = entity)
  <2>1. CASE mate = entity
    BY <1>3, <1>4, <2>1, KeysAre
  <2>2. CASE mate \in Of(rows[st], "entity") /\ mate.user = m.user
    BY <2>2, RowsOf, RowFields DEF Of
  <2> QED BY <2>1, <2>2
<1> HIDE DEF entity
<1> DEFINE relation == NewRow(K("relation", fresh + 1), m.user, {entity.key, mate.key})
           link == NewRow(K("link", <<m.key[2], fresh>>), m.user, {m.key, entity.key})
           N == {entity, relation, link}
<1>6. /\ relation \in PortRow /\ relation.key[1] = "relation" /\ relation.user = m.user
      /\ relation.refs = {entity.key, mate.key} /\ Layer(relation) = "relation" /\ ~Tells(relation)
  <2>1. {entity.key, mate.key} \in SUBSET KeySet
    BY <1>3, <1>4, <1>5
  <2> QED BY <1>2, <1>3, <2>1, NewRows, KeysAre
<1>7. /\ link \in PortRow /\ link.key[1] = "link" /\ link.user = m.user
      /\ link.refs = {m.key, entity.key} /\ Layer(link) = "link" /\ ~Tells(link)
  <2>1. {m.key, entity.key} \in SUBSET KeySet
    BY <1>2, <1>3, <1>4
  <2> QED BY <1>2, <1>3, <2>1, NewRows, KeysAre
<1>8. rows' = [rows EXCEPT ![st] = rows[st] \cup N] /\ fresh' = fresh + 2 /\ importer' = importer /\ UNCHANGED loose
  BY <1>1 DEF Adds, CallExtract, Called
<1> HIDE DEF relation, link
<1>9. RowsTyped(N) /\ SessionsApart(N)
  <2>1. IsFiniteSet(N)
    <3>1. IsFiniteSet({entity}) /\ IsFiniteSet({relation}) /\ IsFiniteSet({link}) /\ N = ({entity} \cup {relation}) \cup {link}
      BY FS_Singleton
    <3>2. IsFiniteSet({entity} \cup {relation})
      BY <3>1, FS_Union
    <3> HIDE DEF N
    <3> QED BY <3>1, <3>2, FS_Union
  <2>2. \A r \in N : \A k \in r.refs : k[1] \in {"entity", "memory"}
    BY <1>2, <1>4, <1>5, <1>6, <1>7, KeysAre
  <2>3. \A r \in N : RefLayers(r) = {"session", "event", "memory", "entity"}
    BY <1>4, <1>6, <1>7 DEF RefLayers
  <2> QED BY <1>4, <1>6, <1>7, <2>1, <2>2, <2>3 DEF RowsTyped, SessionsApart, Of
<1>10. Fits(st, N, Away(st), m.user, 2)
  <2>1. /\ Owned(rows[st] \cup N, m.key, m.user) /\ Owned(rows[st] \cup N, mate.key, m.user)
        /\ Owned(rows[st] \cup N, entity.key, m.user)
    BY <1>2, <1>4, <1>5 DEF Owned
  <2>2. \A r \in N : r.user = m.user /\ \A k \in r.refs : Owned(rows[st] \cup N, k, r.user)
    BY <1>4, <1>6, <1>7, <2>1
  <2>3. \A r \in N : MemoryKeys(r) = {} /\ Layer(r) \notin {"event", "session"}
    BY <1>4, <1>6, <1>7, KeysAre DEF MemoryKeys
  <2> QED BY <1>9, <2>2, <2>3 DEF Fits
<1>11. 2 \in Nat /\ N \in SUBSET PortRow
  BY <1>4, <1>6, <1>7
<1> QED BY <1>8, <1>10, <1>11, CallAddsSafely

LEMMA AddKeeps ==
    ASSUME PortInv, NEW st \in Stores, NEW u \in Users, NEW s \in SessionIds \cup {NoSession},
           NEW old \in SUBSET Of(rows[st], "memory"), CallAdd(st, u, s, old)
    PROVE  PortInv'
<1> DEFINE refs == IF s = NoSession THEN {} ELSE {K("session", s)}
           memory == NewRow(K("memory", fresh), u, refs)
           event == NewRow(K("history", fresh + 1), u, {memory.key})
           X == {<<k, "unchecked">> : k \in refs}
           L == Away(st) \cup {l[1] : l \in X}
           Marked(r) == [r EXCEPT !.refs = @ \cup {memory.key}, !.marks = @ \cup {"superseded"}]
           N == {memory, event}
           M == {Marked(r) : r \in old}
           Q == ((rows[st] \cup N) \ old) \cup M
<1>1. /\ rows' = [rows EXCEPT ![st] = (rows[st] \ old) \cup M \cup N] /\ fresh' = fresh + 2 /\ importer' = importer
      /\ loose' = [loose EXCEPT ![st] = @ \cup X] /\ \A r \in old : r.user = u
  BY DEF CallAdd, Called, Unchecked
<1>2. /\ fresh \in Nat /\ fresh + 1 \in Nat /\ K("memory", fresh) \in KeySet /\ K("history", fresh + 1) \in KeySet
      /\ refs \subseteq KeySet /\ \A k \in refs : k[1] = "session"
  BY RowsOf, KeysAre DEF Layers
<1>3. /\ memory \in PortRow /\ memory.key = K("memory", fresh) /\ memory.user = u /\ memory.refs = refs
      /\ Layer(memory) = "memory" /\ ~Tells(memory)
  <2> HIDE DEF refs
  <2> QED BY <1>2, NewRows, KeysAre
<1>4. refs \subseteq {l[1] : l \in X} /\ X \in SUBSET Loose
  <2>1. ASSUME NEW k \in refs PROVE k \in {l[1] : l \in X}
    <3>1. <<k, "unchecked">> \in X
      OBVIOUS
    <3> HIDE DEF X
    <3> QED BY <3>1
  <2>2. X \in SUBSET Loose
    <3> HIDE DEF refs
    <3> QED BY <1>2 DEF Loose
  <2> QED BY <2>1, <2>2
<1> HIDE DEF refs, X
<1>5. /\ event \in PortRow /\ event.key = K("history", fresh + 1) /\ event.user = u /\ event.refs = {memory.key}
      /\ Layer(event) = "history" /\ ~Tells(event)
  <2> HIDE DEF memory
  <2> QED BY <1>2, <1>3, NewRows, KeysAre
<1> HIDE DEF memory, event
<1>6. New(memory, u, 2) /\ MemoryKeys(event) = {}
  <2>1. MemoryKeys(memory) \subseteq {K("memory", fresh)}
    BY <1>3 DEF MemoryKeys
  <2> QED BY <1>2, <1>3, <1>5, <2>1, KeysAre DEF New, MemoryKeys
<1>7. memory \notin rows[st]
  <2> SUFFICES ASSUME memory \in rows[st] PROVE FALSE
    OBVIOUS
  <2>1. memory \in Everywhere /\ K("memory", fresh) \in MemoryKeys(memory)
    BY <1>3, RowsOf, KeysAre DEF MemoryKeys
  <2>2. fresh < fresh
    BY <2>1, KeysAre DEF PortInv, Minted
  <2> QED BY <1>2, <2>2
<1>8. StoreSound(rows[st] \cup N, L)
  <2>1. RowsTyped(N) /\ SessionsApart(N)
    <3>1. IsFiniteSet({memory}) /\ IsFiniteSet({event}) /\ N = {memory} \cup {event}
      BY FS_Singleton
    <3>2. IsFiniteSet(N)
      <4> HIDE DEF N
      <4> QED BY <3>1, FS_Union
    <3> QED BY <1>2, <1>3, <1>5, <3>2, KeysAre DEF RowsTyped, SessionsApart, RefLayers, Of
  <2>2. \A n \in N : \A k \in n.refs \ L : Owned(rows[st] \cup N, k, n.user) \/ (Tells(n) /\ k \notin Keys(rows[st] \cup N))
    BY <1>3, <1>4, <1>5 DEF Owned
  <2>3. \A h \in rows[st] : Tells(h) => \A n \in N : n.key \in h.refs \ L => n.user = h.user
    <3> SUFFICES ASSUME NEW h \in rows[st], Tells(h), NEW n \in N, n.key \in h.refs PROVE FALSE
      OBVIOUS
    <3>1. n.key[1] = "memory"
      BY RowsOf DEF RowsTyped, RefLayers, Tells
    <3>2. n.key = K("memory", fresh)
      BY <1>3, <1>5, <3>1, KeysAre
    <3>3. n.key \in MemoryKeys(h) /\ h \in Everywhere
      BY <3>1, RowsOf DEF MemoryKeys
    <3>4. fresh < fresh
      BY <3>2, <3>3, KeysAre DEF PortInv, Minted
    <3> QED BY <1>2, <3>4
  <2>4. \A v \in N : Layer(v) \notin {"event", "session"}
    BY <1>3, <1>5
  <2>5. PICK R, A : R = rows[st] /\ A = Away(st)
    OBVIOUS
  <2>6. StoreSound(R, A) /\ A \subseteq L
    BY <2>5, RowsOf
  <2> HIDE DEF N, L
  <2>7. /\ \A v \in Of(N, "event") : v.key \in L \/ \A k \in v.refs : Owned(R \cup N, k, v.user)
        /\ \A x \in Of(N, "session") : x.key \notin Keys(R)
        /\ \A x \in Of(N, "session") : x.scope = "same"
        /\ \A v \in Of(N, "event") : v.scope = "same" \/ v.refs \cap L # {}
    BY <2>4 DEF Of
  <2> QED BY <2>1, <2>2, <2>3, <2>5, <2>6, <2>7, RowsAdded
<1>9. StoreSound(Q, L)
  <2>1. PICK R : R = rows[st] \cup N
    OBVIOUS
  <2>2. old \in SUBSET Of(R, "memory")
    BY <2>1 DEF Of
  <2>3. PICK new : new = memory.key
    OBVIOUS
  <2>4. new \in KeySet /\ new[1] = "memory" /\ \A r \in old : Owned(R, new, r.user)
    BY <1>1, <1>2, <1>3, <2>1, <2>3, KeysAre DEF Owned
  <2> HIDE DEF N, L
  <2>5. StoreSound(R, L)
    BY <1>8, <2>1
  <2>6. StoreSound((R \ old) \cup {[r EXCEPT !.refs = @ \cup {new}, !.marks = @ \cup {"superseded"}] : r \in old}, L)
    BY <2>2, <2>4, <2>5, RowsMarked
  <2> QED BY <2>1, <2>3, <2>6
<1>10. Q = (rows[st] \ old) \cup M \cup N
  <2>1. event \notin old
    BY <1>5 DEF Of
  <2>2. memory \notin old
    BY <1>7 DEF Of
  <2> QED BY <2>1, <2>2
<1>11. \A r \in old : /\ Marked(r) \in PortRow /\ Marked(r).key = r.key /\ Marked(r).user = r.user
                      /\ Layer(Marked(r)) = "memory" /\ Layer(r) = "memory" /\ r \in Everywhere
  <2>1. PICK new \in KeySet : new = memory.key
    BY <1>2, <1>3
  <2>2. \A r \in old : r \in PortRow /\ r \in Everywhere /\ Layer(r) = "memory"
    BY RowsOf DEF Of
  <2> QED BY <2>1, <2>2 DEF PortRow, Layer
<1> HIDE DEF Marked
<1>12. \A x \in Q : MemoryKeys(x) = {} \/ Known(x) \/ New(x, u, 2)
  <2>1. \A x \in rows[st] : Known(x)
    BY RowsOf DEF Known
  <2>2. ASSUME NEW r \in old PROVE Known(Marked(r))
    <3>1. MemoryKeys(Marked(r)) = MemoryKeys(r)
      BY <1>11 DEF MemoryKeys, Tells
    <3> QED BY <1>11, <3>1 DEF Known
  <2> QED BY <1>6, <2>1, <2>2
<1>13. Turned(st, Q, X, 2)
  <2>1. Q \in SUBSET PortRow /\ 2 \in Nat
    BY <1>3, <1>5, <1>11, RowsOf
  <2>2. rows' = [rows EXCEPT ![st] = Q]
    BY <1>1, <1>10
  <2> HIDE DEF Q
  <2> QED BY <1>1, <1>4, <2>1, <2>2, Turns
<1>14. 2 \in Nat
  OBVIOUS
<1> HIDE DEF Q
<1> QED BY <1>9, <1>12, <1>13, <1>14, CallKeeps

\* A call that takes rows out, names them, and may tell of them.
LEMMA CallRemoves ==
    ASSUME PortInv, NEW st \in Stores, NEW G \in SUBSET rows[st], NEW X \in SUBSET Loose, NEW n \in Nat, NEW N,
           rows' = [rows EXCEPT ![st] = (rows[st] \ G) \cup N], loose' = [loose EXCEPT ![st] = @ \cup X],
           fresh' = fresh + n, importer' = importer,
           \A g \in G : g.key \in {l[1] : l \in X} \/ Layer(g) = "link",
           \A v \in Of(rows[st] \ G, "event"), g \in G :
               g.key \in v.refs /\ g.user = v.user => v.key \in Away(st) \cup {l[1] : l \in X},
           RowsTyped(N), \A r \in N : Layer(r) = "history" /\ r.refs \subseteq {l[1] : l \in X} /\ Known(r)
    PROVE  PortInv'
<1> DEFINE L == Away(st) \cup {l[1] : l \in X}
           Q == (rows[st] \ G) \cup N
<1>1. PICK R, A : R = rows[st] /\ A = Away(st)
  OBVIOUS
<1>2. StoreSound(R, A) /\ A \subseteq L /\ {l[1] : l \in X} \subseteq L
  BY <1>1, RowsOf
<1>3. StoreSound(R \ G, L)
  <2>1. /\ \A g \in G : g.key \in L \/ Layer(g) = "link"
        /\ \A v \in Of(R \ G, "event"), g \in G : g.key \in v.refs /\ g.user = v.user => v.key \in L
    BY <1>1, <1>2
  <2> HIDE DEF L
  <2> QED BY <1>1, <1>2, <2>1, RowsTakenOut
<1>4. PICK T : T = R \ G
  OBVIOUS
<1>5. StoreSound(T \cup N, L)
  <2>1. \A r \in N : r.refs \subseteq L /\ Layer(r) = "history"
    OBVIOUS
  <2>2. \A h \in T : Tells(h) => \A r \in N : r.key \notin h.refs
    BY <1>1, <1>4, RowsOf, <2>1 DEF RowsTyped, RefLayers, Tells, Layer
  <2> HIDE DEF L
  <2>3. /\ SessionsApart(N)
        /\ \A v \in Of(N, "event") : v.key \in L \/ \A k \in v.refs : Owned(T \cup N, k, v.user)
        /\ \A x \in Of(N, "session") : x.key \notin Keys(T)
        /\ \A x \in Of(N, "session") : x.scope = "same"
        /\ \A v \in Of(N, "event") : v.scope = "same" \/ v.refs \cap L # {}
    BY <2>1 DEF Of, SessionsApart
  <2>4. StoreSound(T, L)
    BY <1>3, <1>4
  <2>5. \A r \in N : \A k \in r.refs \ L : Owned(T \cup N, k, r.user) \/ (Tells(r) /\ k \notin Keys(T \cup N))
    BY <2>1
  <2>6. \A h \in T : Tells(h) => \A r \in N : r.key \in h.refs \ L => r.user = h.user
    BY <2>2
  <2>7. L \subseteq L /\ RowsTyped(N)
    OBVIOUS
  <2> QED BY <2>3, <2>4, <2>5, <2>6, <2>7, RowsAdded
<1>6. Turned(st, Q, X, n)
  <2>1. Q \in SUBSET PortRow
    BY RowsOf DEF RowsTyped
  <2>2. rows' = [rows EXCEPT ![st] = Q]
    OBVIOUS
  <2> HIDE DEF Q
  <2> QED BY <2>1, <2>2, Turns
<1>7. \A x \in Q : Known(x)
  BY RowsOf DEF Known
<1>8. StoreSound(Q, L)
  BY <1>1, <1>4, <1>5
<1> HIDE DEF Q
<1> QED BY <1>6, <1>7, <1>8, CallKeeps

LEMMA ForgetKeeps ==
    ASSUME PortInv, NEW st \in Stores, NEW m \in Of(rows[st], "memory"), CallDelete(st, m) \/ CallForget(st, m)
    PROVE  PortInv'
<1> DEFINE ties == {r \in Of(rows[st], "link") : r.refs \cap Keys({m}) # {}}
           G == {m} \cup ties
           plain == NewRow(K("history", fresh), m.user, {m.key})
           told == [plain EXCEPT !.marks = {"delete"}]
<1>1. /\ m \in rows[st] /\ m \in Everywhere /\ m.user \in Users /\ m.key \in KeySet /\ m.key[1] = "memory"
      /\ Layer(m) = "memory" /\ fresh \in Nat /\ K("history", fresh) \in KeySet
  BY RowsOf, RowFields, KeysAre DEF Of, Layers
<1>2. G \in SUBSET rows[st] /\ (\A g \in G : g = m \/ Layer(g) = "link") /\ \A g \in G : g.key[1] # "session"
  BY <1>1 DEF Of, Layer
<1>3. /\ told \in PortRow /\ told.user = m.user /\ told.refs = {m.key} /\ Layer(told) = "history" /\ Known(told)
      /\ RowsTyped({told})
  <2>1. /\ plain \in PortRow /\ plain.user = m.user /\ plain.refs = {m.key} /\ plain.key = K("history", fresh)
        /\ Layer(plain) = "history"
    BY <1>1, NewRows, KeysAre
  <2> HIDE DEF plain
  <2>2. /\ told \in PortRow /\ told.user = m.user /\ told.refs = {m.key} /\ told.key = K("history", fresh)
        /\ Layer(told) = "history"
    BY <2>1 DEF PortRow, Layer
  <2> HIDE DEF told
  <2>3. MemoryKeys(told) \subseteq {m.key} /\ m.key \in MemoryKeys(m)
    BY <1>1, <2>2, KeysAre DEF MemoryKeys
  <2>4. Known(told)
    BY <1>1, <2>2, <2>3 DEF Known
  <2>5. RowsTyped({told})
    BY <1>1, <2>2, FS_Singleton DEF RowsTyped, RefLayers
  <2> QED BY <2>2, <2>4, <2>5
<1>4. \A v \in Of(rows[st] \ G, "event"), g \in G : g.key \notin v.refs
  BY <1>2, RowsOf DEF RowsTyped, RefLayers, Of
<1>5. PICK why \in {"deleted", "forgotten"}, N \in {{told}, {}}, n \in {0, 1} :
        Drops(st, {m}, why, N) /\ fresh' = fresh + n
  <2>1. CASE CallDelete(st, m)
    BY <2>1 DEF CallDelete
  <2>2. CASE CallForget(st, m)
    BY <1>1, <2>2 DEF CallForget
  <2> QED BY <2>1, <2>2
<1> DEFINE X == {<<k, why>> : k \in Keys({m})}
<1>6. /\ rows' = [rows EXCEPT ![st] = (rows[st] \ G) \cup N] /\ loose' = [loose EXCEPT ![st] = @ \cup X]
      /\ importer' = importer
  <2>1. ((rows[st] \ {m}) \ ties) \cup N = (rows[st] \ G) \cup N
    OBVIOUS
  <2>2. importer' = importer
    BY DEF CallDelete, CallForget, Called
  <2> QED BY <1>5, <2>1, <2>2 DEF Drops
<1>7. X \in SUBSET Loose /\ m.key \in {l[1] : l \in X}
  <2>1. X = {<<m.key, why>>}
    BY DEF Keys
  <2> HIDE DEF X
  <2> QED BY <1>1, <2>1 DEF Loose
<1>8. RowsTyped(N) /\ \A r \in N : Layer(r) = "history" /\ r.refs \subseteq {l[1] : l \in X} /\ Known(r)
  <2>1. RowsTyped({})
    BY FS_EmptySet DEF RowsTyped
  <2> HIDE DEF told, X
  <2> QED BY <1>3, <1>7, <2>1
<1>9. n \in Nat /\ \A g \in G : g.key \in {l[1] : l \in X} \/ Layer(g) = "link"
  <2> HIDE DEF G, X
  <2> QED BY <1>2, <1>7
<1> HIDE DEF G, X, told
<1> QED BY <1>2, <1>4, <1>5, <1>6, <1>7, <1>8, <1>9, CallRemoves

LEMMA DeleteOneKeeps ==
    ASSUME PortInv, NEW st \in Stores, NEW r \in Of(rows[st], "session") \cup Of(rows[st], "episode"), CallDeleteOne(st, r)
    PROVE  PortInv'
<1> DEFINE stray == Keys({v \in Of(rows[st], "event") : r.key \in v.refs})
           X == {<<r.key, "removed">>} \cup {<<k, "stray">> : k \in stray}
<1>1. r \in rows[st] /\ r.key \in KeySet /\ stray \subseteq KeySet
  BY RowsOf, RowFields DEF Of, Keys
<1>2. X \in SUBSET Loose
  <2> HIDE DEF stray
  <2> QED BY <1>1 DEF Loose
<1>3. r.key \in {l[1] : l \in X} /\ \A k \in stray : k \in {l[1] : l \in X}
  <2>1. <<r.key, "removed">> \in X /\ \A k \in stray : <<k, "stray">> \in X
    OBVIOUS
  <2> HIDE DEF X, stray
  <2> QED BY <2>1, Marks
<1>4. \A v \in Of(rows[st] \ {r}, "event"), g \in {r} : g.key \in v.refs => v.key \in {l[1] : l \in X}
  <2>1. \A v \in Of(rows[st] \ {r}, "event") : r.key \in v.refs => v.key \in stray
    BY DEF Of, Keys
  <2> HIDE DEF X, stray
  <2> QED BY <1>3, <2>1
<1>5. /\ rows' = [rows EXCEPT ![st] = (rows[st] \ {r}) \cup {}] /\ loose' = [loose EXCEPT ![st] = @ \cup X]
      /\ fresh' = fresh + 0 /\ importer' = importer
  <2>1. loose' = [loose EXCEPT ![st] = @ \cup {<<r.key, "removed">>} \cup {<<k, "stray">> : k \in stray}]
    BY DEF CallDeleteOne
  <2>2. (loose[st] \cup {<<r.key, "removed">>}) \cup {<<k, "stray">> : k \in stray} = loose[st] \cup X
    OBVIOUS
  <2>3. rows' = [rows EXCEPT ![st] = rows[st] \ {r}] /\ fresh' = fresh /\ importer' = importer
    BY DEF CallDeleteOne, Called
  <2> HIDE DEF X, stray
  <2> QED BY <2>1, <2>2, <2>3, RowsOf
<1>6. RowsTyped({}) /\ {r} \in SUBSET rows[st] /\ 0 \in Nat
  BY <1>1, FS_EmptySet DEF RowsTyped
<1> HIDE DEF X, stray
<1> QED BY <1>2, <1>3, <1>4, <1>5, <1>6, CallRemoves, ZenonT(40)

LEMMA EraseKeeps ==
    ASSUME PortInv, NEW st \in Stores, NEW u \in Users, CallErase(st, u)
    PROVE  PortInv'
<1> DEFINE mine == {r \in rows[st] : r.user = u}
           X == {<<k, "removed">> : k \in Keys(mine)}
<1>1. \A r \in mine : r.key \in Keys(mine)
  BY DEF Keys
<1>2. Keys(mine) \subseteq KeySet
  BY RowsOf, RowFields DEF Keys
<1>3. /\ rows' = [rows EXCEPT ![st] = (rows[st] \ mine) \cup {}] /\ loose' = [loose EXCEPT ![st] = @ \cup X]
      /\ fresh' = fresh + 0 /\ importer' = importer
  BY RowsOf DEF CallErase, Called
<1>4. X \in SUBSET Loose /\ \A k \in Keys(mine) : k \in {l[1] : l \in X}
  <2>1. \A k \in Keys(mine) : <<k, "removed">> \in X
    OBVIOUS
  <2>2. X \in SUBSET Loose
    <3> HIDE DEF mine
    <3> QED BY <1>2, Marks
  <2> HIDE DEF X, mine
  <2> QED BY <2>1, <2>2, Marks
<1>5. RowsTyped({}) /\ mine \in SUBSET rows[st] /\ 0 \in Nat
  BY FS_EmptySet DEF RowsTyped
<1>6. \A v \in Of(rows[st] \ mine, "event"), g \in mine : g.user # v.user
  BY DEF Of
<1> HIDE DEF X, mine
<1>7. /\ \A g \in mine : g.key \in {l[1] : l \in X} \/ Layer(g) = "link"
      /\ \A v \in Of(rows[st] \ mine, "event"), g \in mine :
            g.key \in v.refs /\ g.user = v.user => v.key \in Away(st) \cup {l[1] : l \in X}
      /\ \A r \in {} : Layer(r) = "history" /\ r.refs \subseteq {l[1] : l \in X} /\ Known(r)
  BY <1>1, <1>4, <1>6
<1> QED BY <1>3, <1>4, <1>5, <1>7, CallRemoves

\* No call of a store breaks the invariant.
LEMMA CallsKeep ==
    ASSUME PortInv, NEW st \in Stores, LiveCall(st)
    PROVE  PortInv'
<1>1. Of(rows[st], "memory") \subseteq rows[st]
  BY DEF Of
<1> QED
  BY AppendKeeps, IngestKeeps, AddKeeps, SmallCallsKeep, ImportMemoriesKeeps, EraseKeeps, CompactKeeps, ExtractKeeps,
     ForgetKeeps, DeleteOneKeeps DEF LiveCall

--------------------------------------------------------------------------------
(* The steps of an import *)

LEMMA ExportsAreRows ==
    ASSUME NEW R, NEW users
    PROVE  /\ FullExport(R, users) \subseteq R
           /\ \A r \in FullExport(R, users) : r.user \in users
           /\ \A r \in R : r.user \in users /\ Layer(r) \in {"session", "event", "memory", "entity"}
                  => r \in FullExport(R, users)
  BY DEF FullExport, ExportMemories, ExportStream, ExportGraph, ExportIdentity, ExportHistory, ExportRecords, Of

LEMMA PortStarts ==
    ASSUME PortInit PROVE PortInv
<1>1. /\ fresh = 1 /\ rows = [st \in Stores |-> {}] /\ loose = [st \in Stores |-> {}]
      /\ importer = [pc |-> "idle", bundle |-> {}, user |-> Users, target |-> CHOOSE st \in Stores : TRUE]
  BY DEF PortInit
<1>2. importer.pc = "idle" /\ importer.bundle = {}
  BY <1>1
<1>3. /\ RowsTyped({}) /\ SessionsApart({}) /\ Of({}, "session") = {} /\ Of({}, "event") = {} /\ BundleSound({})
  BY FS_EmptySet DEF RowsTyped, SessionsApart, Of, BundleSound
<1>4. PortTyped
  <2>1. /\ fresh \in Nat /\ rows \in [Stores -> SUBSET PortRow] /\ loose \in [Stores -> SUBSET Loose]
    BY <1>1
  <2>2. importer = [pc |-> importer.pc, bundle |-> importer.bundle, user |-> importer.user, target |-> importer.target]
    BY <1>1
  <2> QED BY <1>2, <1>3, <2>1, <2>2 DEF PortTyped
<1>5. Everywhere = {}
  BY <1>1, <1>2 DEF Everywhere
<1>6. \A st \in Stores : StoreSound(rows[st], Away(st))
  <2> SUFFICES ASSUME NEW st \in Stores PROVE StoreSound({}, Away(st))
    BY <1>1
  <2> QED BY <1>3 DEF StoreSound, RefsFind, EventsOwned, ScopesAgree
<1> QED BY <1>4, <1>5, <1>6 DEF PortInv, OneOwner, Minted

\* A step that only takes a bundle, or leaves it as it is.
LEMMA ImporterKeeps ==
    ASSUME PortInv, UNCHANGED <<rows, fresh, loose>>,
           importer' = [pc |-> importer'.pc, bundle |-> importer'.bundle, user |-> importer'.user,
                        target |-> importer'.target],
           importer'.pc \in {"idle", "exported", "embedding", "embedded", "done", "refused"},
           importer'.pc \in {"embedding", "embedded"} => importer'.target \in Stores,
           importer'.bundle = importer.bundle \/ \E st \in Stores : importer'.bundle \subseteq rows[st]
    PROVE  PortInv'
<1>1. PortTyped
  BY DEF PortInv
<1>2. BundleSound(importer'.bundle)
  <2>1. CASE importer'.bundle = importer.bundle
    BY <1>1, <2>1 DEF PortTyped
  <2>2. ASSUME NEW st \in Stores, NEW B, B \subseteq rows[st] PROVE BundleSound(B)
    <3>1. RowsTyped(rows[st]) /\ SessionsApart(rows[st]) /\ ScopesAgree(rows[st], Away(st))
      BY DEF PortInv, StoreSound
    <3>2. RowsTyped(B)
      BY <2>2, <3>1, FS_Subset DEF RowsTyped
    <3> QED BY <2>2, <3>1, <3>2 DEF BundleSound, SessionsApart, ScopesAgree, Of
  <2> QED BY <2>1, <2>2
<1>3. PortTyped'
  BY <1>1, <1>2 DEF PortTyped
<1>4. Everywhere' \subseteq Everywhere
  BY DEF Everywhere
<1>5. OneOwner' /\ Minted'
  <2>1. OneOwner /\ Minted
    BY DEF PortInv
  <2> QED BY <1>4, <2>1 DEF OneOwner, Minted
<1>6. \A st \in Stores : StoreSound(rows[st], Away(st))'
  BY DEF PortInv, Away
<1> QED BY <1>3, <1>5, <1>6 DEF PortInv

LEMMA ImporterSteps ==
    ASSUME PortInv,
           \/ \E st \in Stores, users \in Scopes : ExportBundle(st, users)
           \/ \E st \in Stores : Preflight(st)
           \/ ImportEmbeds
    PROVE  PortInv'
<1>1. /\ importer = [pc |-> importer.pc, bundle |-> importer.bundle, user |-> importer.user, target |-> importer.target]
      /\ importer.pc \in {"idle", "exported", "embedding", "embedded", "done", "refused"}
      /\ importer.pc \in {"embedding", "embedded"} => importer.target \in Stores
  BY DEF PortInv, PortTyped
<1>2. ASSUME NEW st \in Stores, NEW users \in Scopes, ExportBundle(st, users) PROVE PortInv'
  <2>1. importer' = [importer EXCEPT !.pc = "exported", !.bundle = FullExport(rows[st], users), !.user = users]
    BY <1>2 DEF ExportBundle
  <2>2. FullExport(rows[st], users) \subseteq rows[st]
    BY ExportsAreRows
  <2>3. PICK B : B = FullExport(rows[st], users)
    OBVIOUS
  <2>4. importer' = [pc |-> "exported", bundle |-> B, user |-> users, target |-> importer.target]
    BY <1>1, <2>1, <2>3
  <2>5. /\ importer'.pc = "exported" /\ importer'.bundle = B /\ importer'.user = users
        /\ importer'.target = importer.target
    BY <2>4
  <2> QED BY <1>2, <2>2, <2>3, <2>4, <2>5, ImporterKeeps DEF ExportBundle
<1>3. ASSUME NEW st \in Stores, Preflight(st) PROVE PortInv'
  <2>1. PICK pc \in {"embedding", "refused"} : importer' = [importer EXCEPT !.target = st, !.pc = pc]
    BY <1>3 DEF Preflight
  <2>2. importer' = [pc |-> pc, bundle |-> importer.bundle, user |-> importer.user, target |-> st]
    BY <1>1, <2>1
  <2>3. /\ importer'.pc = pc /\ importer'.bundle = importer.bundle /\ importer'.user = importer.user
        /\ importer'.target = st
    BY <2>2
  <2> QED BY <1>3, <2>2, <2>3, ImporterKeeps DEF Preflight
<1>4. ASSUME ImportEmbeds PROVE PortInv'
  <2>1. PICK pc \in {"embedded", "refused"} : importer' = [importer EXCEPT !.pc = pc]
    BY <1>4 DEF ImportEmbeds
  <2>2. importer' = [pc |-> pc, bundle |-> importer.bundle, user |-> importer.user, target |-> importer.target]
    BY <1>1, <2>1
  <2>3. /\ importer'.pc = pc /\ importer'.bundle = importer.bundle /\ importer'.user = importer.user
        /\ importer'.target = importer.target
    BY <2>2
  <2> QED BY <1>1, <1>4, <2>2, <2>3, ImporterKeeps DEF ImportEmbeds
<1> QED BY <1>2, <1>3, <1>4

\* What the envelope and the transaction of an import that comes through have asked.
Fine(R, B) ==
    /\ Envelope(B, importer.user)
    /\ \A x \in R, y \in B : x.key # y.key
    /\ importer' = [importer EXCEPT !.pc = "done"]
    /\ rows' = [rows EXCEPT ![importer.target] = R \cup B]

LEMMA ImportFine ==
    ASSUME PortInv, ImportCommit
    PROVE  \/ importer' = [importer EXCEPT !.pc = "refused"] /\ rows' = rows
           \/ Fine(rows[importer.target], importer.bundle)
<1>1. PICK R, B : R = rows[importer.target] /\ B = importer.bundle
  OBVIOUS
<1> DEFINE fine == /\ Envelope(B, importer.user)
                   /\ ImportSessions(R, B) /\ ImportEvents(R, B) /\ ImportEpisodes(R, B) /\ ImportMemories(R, B)
                   /\ ImportEntities(R, B) /\ ImportRelations(R, B) /\ ImportIdentity(R, B)
                   /\ ImportHistory(R, B) /\ ImportRecords(R, B) /\ ImportLinks(R, B)
<1>2. /\ importer' = [importer EXCEPT !.pc = IF fine THEN "done" ELSE "refused"]
      /\ rows' = IF fine THEN [rows EXCEPT ![importer.target] = R \cup B] ELSE rows
  BY <1>1 DEF ImportCommit
<1>3. ASSUME fine PROVE Fine(R, B)
  <2>1. \A layer \in Layers : FreeKeys(R, B, layer)
    BY <1>3 DEF ImportSessions, ImportEvents, ImportEpisodes, ImportMemories, ImportEntities, ImportRelations,
                ImportIdentity, ImportHistory, ImportRecords, ImportLinks, Layers
  <2>2. B \subseteq PortRow
    BY <1>1 DEF PortInv, PortTyped, BundleSound, RowsTyped
  <2>3. ASSUME NEW x \in R, NEW y \in B PROVE x.key # y.key
    <3>1. PICK layer \in Layers : layer = Layer(y)
      BY <2>2, RowFields
    <3>2. FreeKeys(R, B, layer)
      BY <2>1
    <3> QED BY <3>1, <3>2 DEF FreeKeys, Keys, Of
  <2>4. Envelope(B, importer.user)
    BY <1>3
  <2>5. importer' = [importer EXCEPT !.pc = "done"] /\ rows' = [rows EXCEPT ![importer.target] = R \cup B]
    <3> HIDE DEF fine
    <3> QED BY <1>2, <1>3
  <2> QED BY <2>3, <2>4, <2>5 DEF Fine
<1> HIDE DEF fine
<1> QED BY <1>1, <1>2, <1>3

LEMMA CommitKeeps ==
    ASSUME PortInv, ImportCommit
    PROVE  PortInv'
<1>0. PICK st : st = importer.target
  OBVIOUS
<1>1. /\ importer = [pc |-> importer.pc, bundle |-> importer.bundle, user |-> importer.user, target |-> st]
      /\ st \in Stores /\ UNCHANGED <<fresh, loose, calls>> /\ PortTyped
  BY <1>0 DEF ImportCommit, PortInv, PortTyped
<1>2. ASSUME importer' = [importer EXCEPT !.pc = "refused"] /\ rows' = rows PROVE PortInv'
  <2>1. importer' = [pc |-> "refused", bundle |-> importer.bundle, user |-> importer.user, target |-> st]
    BY <1>1, <1>2
  <2>2. /\ importer'.pc = "refused" /\ importer'.bundle = importer.bundle /\ importer'.user = importer.user
        /\ importer'.target = st
    BY <2>1
  <2> QED BY <1>1, <1>2, <2>1, <2>2, ImporterKeeps
<1>3. ASSUME Fine(rows[st], importer.bundle) PROVE PortInv'
  <2>1. PICK R, B, A : R = rows[st] /\ B = importer.bundle /\ A = Away(st)
    OBVIOUS
  <2>2. StoreSound(R, A) /\ RowsTyped(R) /\ BundleSound(B) /\ RowsTyped(B)
    BY <1>1, <2>1 DEF PortInv, PortTyped, BundleSound, StoreSound
  <2>3. /\ Envelope(B, importer.user) /\ (\A x \in R, y \in B : x.key # y.key)
        /\ importer' = [importer EXCEPT !.pc = "done"] /\ rows' = [rows EXCEPT ![st] = R \cup B]
    BY <1>0, <1>3, <2>1 DEF Fine
  <2>4. R \subseteq Everywhere /\ B \subseteq Everywhere
    BY <1>1, <2>1 DEF Everywhere
  <2>5. StoreSound(R \cup B, A)
    <3>1. \A n \in B : \A k \in n.refs \ A :
            Owned(R \cup B, k, n.user) \/ (Tells(n) /\ k \notin Keys(R \cup B))
      <4> SUFFICES ASSUME NEW n \in B, NEW k \in n.refs, ~Owned(R \cup B, k, n.user)
                   PROVE  Tells(n) /\ k \notin Keys(R \cup B)
        OBVIOUS
      <4>1. Tells(n) /\ k \notin Keys(B)
        BY <2>3 DEF Envelope, RefersWell, Owned, Tells
      <4>2. k[1] = "memory" /\ k \in MemoryKeys(n)
        BY <2>2, <4>1 DEF RowsTyped, RefLayers, Tells, MemoryKeys
      <4>3. ASSUME NEW x \in R, x.key = k PROVE FALSE
        <5>1. k \in MemoryKeys(x)
          BY <4>2, <4>3 DEF MemoryKeys
        <5>2. x.user = n.user
          BY <2>4, <4>2, <5>1 DEF PortInv, OneOwner
        <5> QED BY <4>3, <5>2 DEF Owned
      <4> QED BY <4>1, <4>3 DEF Keys
    <3>2. \A h \in R : Tells(h) => \A n \in B : n.key \in h.refs \ A => n.user = h.user
      <4> SUFFICES ASSUME NEW h \in R, Tells(h), NEW n \in B, n.key \in h.refs PROVE n.user = h.user
        OBVIOUS
      <4>1. n.key \in MemoryKeys(h) /\ n.key \in MemoryKeys(n)
        BY <2>2 DEF RowsTyped, RefLayers, Tells, MemoryKeys
      <4> QED BY <2>4, <4>1 DEF PortInv, OneOwner
    <3>3. \A v \in Of(B, "event") : \A k \in v.refs : Owned(B, k, v.user)
      BY <2>3 DEF Envelope, RefersWell, Of
    <3>4. \A v \in Of(B, "event") : v.key \in A \/ \A k \in v.refs : Owned(R \cup B, k, v.user)
      BY <3>3 DEF Owned
    <3>5. \A v \in Of(B, "event") : v.scope = "same"
      <4> SUFFICES ASSUME NEW v \in Of(B, "event"), NEW k \in v.refs PROVE v.scope = "same"
        BY <2>2 DEF BundleSound
      <4>1. PICK s \in B : s.key = k
        BY <3>3 DEF Owned
      <4>2. k[1] = "session" /\ v \in B /\ Layer(v) = "event"
        BY <2>2 DEF RowsTyped, RefLayers, Of
      <4>3. s.scope = "same"
        BY <2>2, <4>1, <4>2 DEF BundleSound, Of, Layer
      <4> QED BY <2>3, <4>1, <4>2, <4>3 DEF Envelope, ScopeAgrees
    <3>6. \A s \in Of(B, "session") : s.key \notin Keys(R)
      BY <2>3 DEF Of, Keys
    <3>7. A \subseteq A
      OBVIOUS
    <3>8. SessionsApart(B) /\ (\A s \in Of(B, "session") : s.scope = "same")
          /\ \A v \in Of(B, "event") : v.scope = "same" \/ v.refs \cap A # {}
      BY <2>2, <3>5 DEF BundleSound
    <3> QED BY <2>2, <3>1, <3>2, <3>4, <3>6, <3>7, <3>8, RowsAdded
  <2>6. PICK Q : Q = R \cup B
    OBVIOUS
  <2>7. Q \in SUBSET PortRow /\ StoreSound(Q, A)
    BY <2>2, <2>5, <2>6 DEF RowsTyped
  <2>8. rows' \in [Stores -> SUBSET PortRow] /\ \A s \in Stores : rows'[s] = IF s = st THEN Q ELSE rows[s]
    BY <1>1, <2>3, <2>6, <2>7 DEF PortTyped
  <2>9. importer' = [pc |-> "done", bundle |-> B, user |-> importer.user, target |-> st]
    BY <1>1, <2>1, <2>3
  <2>10. /\ importer'.pc = "done" /\ importer'.bundle = B /\ importer'.user = importer.user
         /\ importer'.target = st
    BY <2>9
  <2>11. PortTyped'
    BY <1>1, <2>2, <2>8, <2>9, <2>10 DEF PortTyped
  <2>12. \A s \in Stores : StoreSound(rows[s], Away(s))'
    BY <1>1, <2>1, <2>7, <2>8 DEF PortInv, Away
  <2>13. Everywhere' \subseteq Everywhere
    <3>1. \A s \in Stores : rows'[s] \subseteq Everywhere
      BY <2>1, <2>4, <2>6, <2>8 DEF Everywhere
    <3> QED BY <2>4, <2>10, <3>1 DEF Everywhere
  <2>14. OneOwner' /\ Minted'
    BY <1>1, <2>13 DEF PortInv, OneOwner, Minted
  <2> QED BY <2>11, <2>12, <2>14 DEF PortInv
<1> QED BY <1>0, <1>2, <1>3, ImportFine

LEMMA PortNextKeeps ==
    ASSUME PortInv, [PortNext]_portVars
    PROVE  PortInv'
<1>1. ASSUME PortNext PROVE PortInv'
  <2>1. Scopes = {{u} : u \in Users} \cup {Users}
    BY DEF Scopes
  <2>2. \/ \E st \in Stores : LiveCall(st)
        \/ \E st \in Stores : Preflight(st)
        \/ \E st \in Stores, users \in Scopes : ExportBundle(st, users)
        \/ ImportEmbeds
        \/ ImportCommit
    BY <1>1, <2>1 DEF PortNext
  <2> QED BY <2>2, CallsKeep, ImporterSteps, CommitKeeps
<1>2. CASE UNCHANGED portVars
  BY <1>2 DEF PortInv, PortTyped, OneOwner, Minted, Everywhere, Away, portVars
<1> QED BY <1>1, <1>2

\* What a sound store exports, whoever's it is, refers to nothing that the export does not have but to the
\* keys that may be referred to in vain.
LEMMA SoundExports ==
    ASSUME NEW R, NEW A, StoreSound(R, A), NEW users, NEW r \in FullExport(R, users)
    PROVE  /\ \A k \in r.refs \ A : RefersWell(FullExport(R, users), r, k)
           /\ r.refs \cap A = {} => ScopeAgrees(FullExport(R, users), r)
<1>1. PICK B : B = FullExport(R, users)
  OBVIOUS
<1>2. /\ B \subseteq R /\ r \in B /\ r \in R /\ r.user \in users
      /\ \A x \in R : x.user \in users /\ Layer(x) \in {"session", "event", "memory", "entity"} => x \in B
  BY <1>1, ExportsAreRows
<1>3. RowsTyped(R) /\ RefsFind(R, A) /\ ScopesAgree(R, A)
  BY DEF StoreSound
<1>4. \A k \in r.refs : k[1] \in RefLayers(r)
  BY <1>2, <1>3 DEF RowsTyped
<1>5. ASSUME NEW k \in r.refs \ A PROVE RefersWell(B, r, k)
  <2>1. RefersWell(R, r, k)
    BY <1>2, <1>3 DEF RefsFind
  <2>2. CASE Owned(R, k, r.user)
    <3>1. PICK x \in R : x.key = k /\ x.user = r.user
      BY <2>2 DEF Owned
    <3>2. Layer(x) \in {"session", "event", "memory", "entity"}
      BY <1>4, <3>1 DEF RefLayers, Layer
    <3>3. x \in B
      BY <1>2, <3>1, <3>2
    <3> QED BY <3>1, <3>3 DEF Owned, RefersWell
  <2>3. CASE Tells(r) /\ k \notin Keys(R)
    BY <1>2, <2>3 DEF RefersWell, Keys, Tells
  <2> QED BY <2>1, <2>2, <2>3 DEF RefersWell, Tells
<1>6. ASSUME r.refs \cap A = {}, Layer(r) = "event", NEW s \in B, s.key \in r.refs PROVE s.scope = r.scope
  <2>1. Layer(s) = "session"
    BY <1>4, <1>6 DEF RefLayers, Layer
  <2> QED BY <1>2, <1>3, <1>6, <2>1 DEF ScopesAgree, Of
<1> QED BY <1>1, <1>5, <1>6 DEF ScopeAgrees

\* What the full export of one user or of all refers to is in the export, whatever calls and imports have
\* made the store and in whatever order, but for references to what a call has removed or its caller named
\* unchecked, and to an event whose session was deleted under it: no append, compaction, addition,
\* extraction or import leaves a row whose owner or reference another store would reject
\* (validate_full_import_envelope, storage/portable_import.rs).
THEOREM ExportsCanBeImported == PortSpec => []Portable
<1>1. PortInit => PortInv
  BY PortStarts
<1>2. PortInv /\ [PortNext]_portVars => PortInv'
  BY PortNextKeeps
<1>3. PortInv => Portable
  <2> SUFFICES ASSUME PortInv, NEW st \in Stores, NEW users \in Scopes, NEW r \in FullExport(rows[st], users)
               PROVE  /\ \A k \in r.refs \ Away(st) : RefersWell(FullExport(rows[st], users), r, k)
                      /\ r.refs \cap Away(st) = {} => ScopeAgrees(FullExport(rows[st], users), r)
    BY DEF Portable, Away
  <2>1. PICK R, A : R = rows[st] /\ A = Away(st)
    OBVIOUS
  <2>2. StoreSound(R, A)
    BY <2>1 DEF PortInv
  <2> QED BY <2>1, <2>2, SoundExports
<1> QED BY <1>1, <1>2, <1>3, PTL DEF PortSpec

\* import_full_atomic (storage/portable_import.rs) is all or nothing: whatever calls come between the
\* preflight, the embedder and the transaction, a bundle that goes in goes in whole, beside every row that was
\* there, and otherwise the store is left as it was.
THEOREM ImportsAreWhole == PortSpec => ImportIsWhole
<1> DEFINE Whole ==
      importer.pc = "embedded" =>
        \/ importer'.pc # "done" /\ (importer' # importer => rows' = rows)
        \/ LET st == importer.target
           IN  /\ Cardinality(rows'[st]) = Cardinality(rows[st]) + Cardinality(importer.bundle)
               /\ Keys(rows'[st]) = Keys(rows[st]) \cup Keys(importer.bundle)
               /\ importer.bundle \cup rows[st] \subseteq rows'[st]
<1>1. PortInit => PortInv
  BY PortStarts
<1>2. PortInv /\ [PortNext]_portVars => PortInv'
  BY PortNextKeeps
<1>3. PortInv /\ [PortNext]_portVars => [Whole]_portVars
  <2> SUFFICES ASSUME PortInv, PortNext, importer.pc = "embedded" PROVE Whole
    BY DEF portVars
  <2>0. PortTyped
    BY DEF PortInv
  <2>1. ASSUME NEW st \in Stores, LiveCall(st) PROVE Whole
    <3>1. importer' = importer
      BY <2>1 DEF LiveCall, CallAppend, CallIngest, CallAdd, CallAddDeferred, CallRecord, CallImportMemories, CallLearn,
                  CallErase, CallCompact, CallExtract, CallDelete, CallForget, CallDeleteOne, Called
    <3> QED BY <3>1
  <2>2. CASE ImportEmbeds
    BY <2>0, <2>2 DEF ImportEmbeds, PortTyped
  <2>3. CASE ImportCommit
    <3>1. CASE importer' = [importer EXCEPT !.pc = "refused"] /\ rows' = rows
      BY <2>0, <3>1 DEF PortTyped
    <3>2. CASE Fine(rows[importer.target], importer.bundle)
      <4>1. PICK st, R, B : st = importer.target /\ R = rows[st] /\ B = importer.bundle
        OBVIOUS
      <4>2. st \in Stores /\ IsFiniteSet(R) /\ IsFiniteSet(B)
        <5>1. st \in Stores /\ RowsTyped(B)
          BY <2>0, <4>1 DEF PortTyped, BundleSound
        <5> QED BY <4>1, <5>1, RowsOf DEF RowsTyped
      <4>3. R \cap B = {} /\ rows' = [rows EXCEPT ![st] = R \cup B]
        BY <3>2, <4>1 DEF Fine
      <4>4. rows'[st] = R \cup B
        BY <2>0, <4>2, <4>3 DEF PortTyped
      <4>5. Cardinality(R \cup B) = Cardinality(R) + Cardinality(B)
        <5>1. PICK a, b : a = Cardinality(R) /\ b = Cardinality(B)
          OBVIOUS
        <5>2. a \in Nat /\ b \in Nat /\ Cardinality(R \cap B) = 0
          BY <4>2, <4>3, <5>1, FS_CardinalityType, FS_EmptySet
        <5>3. Cardinality(R \cup B) = a + b - Cardinality(R \cap B)
          BY <4>2, <5>1, FS_Union
        <5> QED BY <5>1, <5>2, <5>3
      <4>6. Keys(R \cup B) = Keys(R) \cup Keys(B)
        BY DEF Keys
      <4> QED BY <4>1, <4>4, <4>5, <4>6
    <3> QED BY <2>3, <3>1, <3>2, ImportFine
  <2> QED BY <2>1, <2>2, <2>3 DEF PortNext, Preflight, ExportBundle
<1>4. PortSpec => [][Whole]_portVars
  BY <1>1, <1>2, <1>3, PTL DEF PortSpec
<1> QED BY <1>4 DEF ImportIsWhole

--------------------------------------------------------------------------------
(* Filters: a recursive function over the nodes of an expression *)

\* Of a join, G says what it makes of the values of its parts.
JoinsUp(v, N, leaf, L, of, G) == v = [n \in 1..N |-> IF n \in leaf THEN L[n] ELSE G[<<n, {v[i] : i \in of[n]}>>]]

LEMMA JoinsExist ==
    ASSUME NEW N \in Nat, NEW T, NEW leaf, NEW L \in [1..N -> T], NEW of,
           \A n \in (1..N) \ leaf : of[n] \subseteq 1..(n - 1),
           NEW G \in [(1..N) \X (SUBSET T) -> T]
    PROVE  \E v \in [1..N -> T] : JoinsUp(v, N, leaf, L, of, G)
<1> DEFINE Goes(v, m) == \A n \in 1..m : v[n] = IF n \in leaf THEN L[n] ELSE G[<<n, {v[i] : i \in of[n]}>>]
           Missing == {m \in 0..N : ~ \E v \in [1..m -> T] : Goes(v, m)}
<1>1. Missing = {}
  <2> SUFFICES ASSUME Missing # {} PROVE FALSE
    OBVIOUS
  <2>1. PICK m \in Missing : \A k \in Missing : ~(k < m)
    <3>1. Missing \in SUBSET Nat
      OBVIOUS
    <3> HIDE DEF Missing
    <3> QED BY <3>1, Least
  <2>2. m \in 0..N /\ ~ \E v \in [1..m -> T] : Goes(v, m)
    BY <2>1
  <2>3. CASE m = 0
    <3>1. PICK v : v = [n \in 1..0 |-> n]
      OBVIOUS
    <3>2. v \in [1..m -> T] /\ Goes(v, m)
      BY <2>3, <3>1
    <3> QED BY <2>2, <3>2
  <2>4. CASE m # 0
    <3>1. m - 1 \in 0..N /\ m - 1 < m /\ m - 1 \notin Missing
      <4>1. m - 1 \in 0..N /\ m - 1 < m
        BY <2>2, <2>4
      <4> HIDE DEF Missing
      <4> QED BY <2>1, <4>1
    <3>2. PICK u \in [1..(m - 1) -> T] : Goes(u, m - 1)
      BY <3>1
    <3>3. PICK b : b = IF m \in leaf THEN L[m] ELSE G[<<m, {u[i] : i \in of[m]}>>]
      OBVIOUS
    <3>4. m \in 1..N
      BY <2>2, <2>4
    <3>5. b \in T
      <4>1. CASE m \in leaf
        BY <3>3, <3>4, <4>1
      <4>2. CASE m \notin leaf
        <5>1. of[m] \subseteq 1..(m - 1)
          BY <3>4, <4>2
        <5>2. {u[i] : i \in of[m]} \in SUBSET T
          BY <3>2, <5>1
        <5>3. <<m, {u[i] : i \in of[m]}>> \in (1..N) \X (SUBSET T)
          BY <3>4, <5>2
        <5> QED BY <3>3, <4>2, <5>3
      <4> QED BY <4>1, <4>2
    <3>6. PICK v : v = [n \in 1..m |-> IF n = m THEN b ELSE u[n]]
      OBVIOUS
    <3>7. v \in [1..m -> T]
      <4>1. \A n \in 1..m : n # m => n \in 1..(m - 1)
        BY <2>2
      <4> QED BY <3>2, <3>5, <3>6, <4>1
    <3>8. ASSUME NEW n \in 1..m PROVE v[n] = IF n \in leaf THEN L[n] ELSE G[<<n, {v[i] : i \in of[n]}>>]
      <4>1. v[n] = IF n = m THEN b ELSE u[n]
        BY <3>6
      <4>2. CASE n \in leaf
        <5>1. n # m => n \in 1..(m - 1)
          BY <2>2
        <5> QED BY <3>2, <3>3, <4>1, <4>2, <5>1
      <4>3. CASE n \notin leaf
        <5>1. n \in 1..N
          BY <2>2
        <5>2. of[n] \subseteq 1..(n - 1)
          BY <4>3, <5>1
        <5>3. \A i \in of[n] : i \in 1..m /\ i # m
          BY <2>2, <5>2
        <5>4. \A i \in of[n] : v[i] = u[i]
          BY <3>6, <5>3
        <5>5. {v[i] : i \in of[n]} = {u[i] : i \in of[n]}
          BY <5>4
        <5>6. n # m => n \in 1..(m - 1)
          BY <2>2
        <5> QED BY <3>2, <3>3, <4>1, <4>3, <5>5, <5>6
      <4> QED BY <4>2, <4>3
    <3> QED BY <2>2, <3>7, <3>8
  <2> QED BY <2>3, <2>4
<1>2. PICK v \in [1..N -> T] : Goes(v, N)
  <2>1. N \in 0..N
    OBVIOUS
  <2> QED BY <1>1, <2>1
<1>3. v = [n \in 1..N |-> v[n]]
  OBVIOUS
<1>4. v = [n \in 1..N |-> IF n \in leaf THEN L[n] ELSE G[<<n, {v[i] : i \in of[n]}>>]]
  BY <1>2, <1>3
<1> QED BY <1>4 DEF JoinsUp

--------------------------------------------------------------------------------
(* What SQLite makes of a text, and what a filter means *)

Truths == {"true", "false", Unknown}
Leaf(expr, n) == expr[n].kind = "is"
PartsBefore(expr, N) == \A n \in 1..N : ~Leaf(expr, n) => expr[n].of \subseteq 1..(n - 1)

TruthAt(t, sql, L, n) ==
    IF Leaf(sql, n) THEN L[n]
    ELSE IF sql[n].kind = "and" THEN ConjunctionOf({t[i] : i \in sql[n].of})
    ELSE DisjunctionOf({t[i] : i \in sql[n].of})

\* The conditions of a text have the truths L; and what the whole of it then has.
LeafTruths(L, row, sql, names, params, N) ==
    \A n \in 1..N : Leaf(sql, n) =>
        ConditionTruth(row, sql[n], [i \in DOMAIN sql[n].params |-> Bound(names, params, sql[n].params[i])]) = L[n]
TruthsOf(t, L, row, sql, names, params, N) ==
    TruthOf(row, sql, names, params) = t[N] /\ \A n \in 1..N : t[n] = TruthAt(t, sql, L, n)

LEMMA TruthIs ==
    ASSUME NEW row, NEW sql, NEW names, NEW params, NEW N \in Nat \ {0}, Len(sql) = N, NEW L \in [1..N -> Truths],
           LeafTruths(L, row, sql, names, params, N), PartsBefore(sql, N)
    PROVE  \E t \in [1..N -> Truths] : TruthsOf(t, L, row, sql, names, params, N)
<1> DEFINE leaf == {n \in 1..N : Leaf(sql, n)}
           of == [n \in 1..N |-> sql[n].of]
           G == [p \in (1..N) \X (SUBSET Truths) |-> IF sql[p[1]].kind = "and" THEN ConjunctionOf(p[2]) ELSE DisjunctionOf(p[2])]
           Body(t, n) == IF sql[n].kind = "is"
                         THEN ConditionTruth(row, sql[n], [i \in DOMAIN sql[n].params |-> Bound(names, params, sql[n].params[i])])
                         ELSE IF sql[n].kind = "and" THEN ConjunctionOf({t[i] : i \in sql[n].of})
                         ELSE DisjunctionOf({t[i] : i \in sql[n].of})
<1>1. \A n \in (1..N) \ leaf : of[n] \subseteq 1..(n - 1)
  BY DEF PartsBefore
<1>2. G \in [(1..N) \X (SUBSET Truths) -> Truths]
  BY DEF ConjunctionOf, DisjunctionOf, Truths
<1>3. PICK v \in [1..N -> Truths] : JoinsUp(v, N, leaf, L, of, G)
  <2> HIDE DEF leaf, of, G
  <2> QED BY <1>1, <1>2, JoinsExist
<1>4. \A t : (\A i \in 1..N : t[i] \in Truths) => \A n \in 1..N :
          /\ Body(t, n) = TruthAt(t, sql, L, n)
          /\ (IF n \in leaf THEN L[n] ELSE G[<<n, {t[i] : i \in of[n]}>>]) = TruthAt(t, sql, L, n)
  <2> SUFFICES ASSUME NEW t, \A i \in 1..N : t[i] \in Truths, NEW n \in 1..N
               PROVE  /\ Body(t, n) = TruthAt(t, sql, L, n)
                      /\ (IF n \in leaf THEN L[n] ELSE G[<<n, {t[i] : i \in of[n]}>>]) = TruthAt(t, sql, L, n)
    OBVIOUS
  <2>1. CASE Leaf(sql, n)
    BY <2>1 DEF TruthAt, Leaf, LeafTruths
  <2>2. CASE ~Leaf(sql, n)
    <3>1. \A i \in sql[n].of : i \in 1..N
      BY <2>2 DEF PartsBefore
    <3>2. {t[i] : i \in sql[n].of} \in SUBSET Truths
      BY <3>1
    <3>3. of[n] = sql[n].of /\ n \notin leaf
      BY <2>2
    <3>4. G[<<n, {t[i] : i \in sql[n].of}>>]
            = IF sql[n].kind = "and" THEN ConjunctionOf({t[i] : i \in sql[n].of}) ELSE DisjunctionOf({t[i] : i \in sql[n].of})
      BY <3>2
    <3> HIDE DEF G, leaf, of
    <3> QED BY <2>2, <3>3, <3>4 DEF TruthAt, Leaf
  <2> QED BY <2>1, <2>2
<1>5. \A i \in 1..N : v[i] \in Truths
  BY <1>3
<1>6. \A n \in 1..N : v[n] = Body(v, n)
  <2> HIDE DEF G, leaf, of, Body
  <2>1. \A n \in 1..N : v[n] = IF n \in leaf THEN L[n] ELSE G[<<n, {v[i] : i \in of[n]}>>]
    BY <1>3 DEF JoinsUp
  <2>2. \A n \in 1..N :
            /\ Body(v, n) = TruthAt(v, sql, L, n)
            /\ (IF n \in leaf THEN L[n] ELSE G[<<n, {v[i] : i \in of[n]}>>]) = TruthAt(v, sql, L, n)
    BY <1>4, <1>5
  <2> QED BY <2>1, <2>2
<1>7. v = [n \in 1..N |-> Body(v, n)]
  <2>1. v = [n \in 1..N |-> v[n]]
    BY <1>3
  <2> HIDE DEF Body
  <2> QED BY <1>6, <2>1
<1> DEFINE u == CHOOSE u : u = [n \in 1..N |-> Body(u, n)]
<1>8. u = [n \in 1..N |-> Body(u, n)]
  <2> HIDE DEF Body
  <2> QED BY <1>7
<1>9. TruthOf(row, sql, names, params) = u[N]
  BY DEF TruthOf
<1> HIDE DEF u, G, leaf, of
<1>10. \A n \in 0..N : \A i \in 1..n : u[i] \in Truths
  <2> DEFINE Missing == {n \in 0..N : ~ \A i \in 1..n : u[i] \in Truths}
  <2> SUFFICES ASSUME Missing # {} PROVE FALSE
    OBVIOUS
  <2>1. PICK m \in Missing : \A k \in Missing : ~(k < m)
    <3>1. Missing \in SUBSET Nat
      OBVIOUS
    <3> HIDE DEF Missing
    <3> QED BY <3>1, Least
  <2>2. m \in 1..N /\ m - 1 \in 0..N /\ m - 1 < m
    BY <2>1
  <2>3. \A i \in 1..(m - 1) : u[i] \in Truths
    <3>1. m - 1 \notin Missing
      <4> HIDE DEF Missing
      <4> QED BY <2>1, <2>2
    <3> QED BY <2>2, <3>1
  <2>4. u[m] = Body(u, m)
    BY <1>8, <2>2
  <2>5. u[m] \in Truths
    <3>1. CASE sql[m].kind = "is"
      <4>1. Body(u, m) = L[m]
        BY <2>2, <3>1 DEF Leaf, LeafTruths
      <4> HIDE DEF Body
      <4> QED BY <2>2, <2>4, <4>1
    <3>2. CASE sql[m].kind # "is"
      BY <2>4, <3>2 DEF ConjunctionOf, DisjunctionOf, Truths
    <3> QED BY <3>1, <3>2
  <2>6. \A i \in 1..m : i = m \/ i \in 1..(m - 1)
    BY <2>2
  <2> QED BY <2>1, <2>3, <2>5, <2>6
<1>11. N \in 0..N
  OBVIOUS
<1>12. \A i \in 1..N : u[i] \in Truths
  BY <1>10, <1>11
<1>13. \A n \in 1..N : u[n] = Body(u, n)
  <2> HIDE DEF Body
  <2> QED BY <1>8
<1>14. \A n \in 1..N : u[n] = TruthAt(u, sql, L, n)
  <2> HIDE DEF Body
  <2> QED BY <1>4, <1>12, <1>13
<1>15. u \in [1..N -> Truths]
  <2>1. u = [n \in 1..N |-> u[n]]
    <3> HIDE DEF Body
    <3> QED BY <1>8
  <2> QED BY <1>12, <2>1
<1> QED BY <1>9, <1>14, <1>15 DEF TruthsOf

MeantAt(m, expr, row, n) ==
    IF Leaf(expr, n) THEN Says(expr[n], row)
    ELSE IF expr[n].kind = "and" THEN \A i \in expr[n].of : m[i]
    ELSE \E i \in expr[n].of : m[i]

LEMMA MeantIs ==
    ASSUME NEW row, NEW expr, NEW N \in Nat \ {0}, Len(expr) = N, PartsBefore(expr, N)
    PROVE  \E m \in [1..N -> BOOLEAN] :
               Meant(expr, row) = m[N] /\ \A n \in 1..N : m[n] = MeantAt(m, expr, row, n)
<1> DEFINE leaf == {n \in 1..N : Leaf(expr, n)}
           L == [n \in 1..N |-> Says(expr[n], row)]
           of == [n \in 1..N |-> expr[n].of]
           G == [p \in (1..N) \X (SUBSET BOOLEAN) |->
                   (expr[p[1]].kind = "and" /\ FALSE \notin p[2]) \/ (expr[p[1]].kind # "and" /\ TRUE \in p[2])]
           Body(m, n) == IF expr[n].kind = "is" THEN Says(expr[n], row)
                         ELSE IF expr[n].kind = "and" THEN \A i \in expr[n].of : m[i]
                         ELSE \E i \in expr[n].of : m[i]
<1>1. \A n \in (1..N) \ leaf : of[n] \subseteq 1..(n - 1)
  BY DEF PartsBefore
<1>2. G \in [(1..N) \X (SUBSET BOOLEAN) -> BOOLEAN] /\ L \in [1..N -> BOOLEAN]
  <2>1. \A n \in 1..N : Says(expr[n], row) \in BOOLEAN
    BY DEF Says
  <2>3. G \in [(1..N) \X (SUBSET BOOLEAN) -> BOOLEAN]
    OBVIOUS
  <2>4. L \in [1..N -> BOOLEAN]
    BY <2>1
  <2> QED BY <2>3, <2>4
<1>3. PICK v \in [1..N -> BOOLEAN] : JoinsUp(v, N, leaf, L, of, G)
  <2> HIDE DEF leaf, of, G, L
  <2> QED BY <1>1, <1>2, JoinsExist
<1>4. \A n \in 1..N : v[n] = Body(v, n)
  <2> SUFFICES ASSUME NEW n \in 1..N PROVE v[n] = Body(v, n)
    OBVIOUS
  <2>1. v[n] = IF n \in leaf THEN L[n] ELSE G[<<n, {v[i] : i \in of[n]}>>]
    <3> HIDE DEF leaf, of, G, L
    <3> QED BY <1>3 DEF JoinsUp
  <2>2. CASE Leaf(expr, n)
    BY <2>1, <2>2 DEF Leaf
  <2>3. CASE ~Leaf(expr, n)
    <3>1. \A i \in expr[n].of : i \in 1..N
      BY <2>3 DEF PartsBefore
    <3>2. \A i \in expr[n].of : v[i] \in BOOLEAN
      BY <1>3, <3>1
    <3>3. {v[i] : i \in expr[n].of} \in SUBSET BOOLEAN
      BY <3>2
    <3>4. v[n] = G[<<n, {v[i] : i \in expr[n].of}>>]
      BY <2>1, <2>3
    <3>5. v[n] = ((expr[n].kind = "and" /\ FALSE \notin {v[i] : i \in expr[n].of})
                    \/ (expr[n].kind # "and" /\ TRUE \in {v[i] : i \in expr[n].of}))
      BY <3>3, <3>4
    <3>6. (FALSE \notin {v[i] : i \in expr[n].of}) <=> \A i \in expr[n].of : v[i]
      BY <3>2
    <3>7. (TRUE \in {v[i] : i \in expr[n].of}) <=> \E i \in expr[n].of : v[i]
      BY <3>2
    <3> QED BY <2>3, <3>5, <3>6, <3>7 DEF Leaf
  <2> QED BY <2>2, <2>3
<1>5. v = [n \in 1..N |-> Body(v, n)]
  <2>1. v = [n \in 1..N |-> v[n]]
    BY <1>3
  <2> HIDE DEF Body
  <2> QED BY <1>4, <2>1
<1> DEFINE u == CHOOSE u : u = [n \in 1..N |-> Body(u, n)]
<1>6. u = [n \in 1..N |-> Body(u, n)]
  <2> HIDE DEF Body
  <2> QED BY <1>5
<1>7. Meant(expr, row) = u[N]
  BY DEF Meant
<1> HIDE DEF u
<1>8. \A n \in 1..N : u[n] = Body(u, n)
  <2> HIDE DEF Body
  <2> QED BY <1>6
<1>9. \A n \in 1..N : u[n] \in BOOLEAN /\ u[n] = MeantAt(u, expr, row, n)
  <2> SUFFICES ASSUME NEW n \in 1..N PROVE u[n] \in BOOLEAN /\ u[n] = MeantAt(u, expr, row, n)
    OBVIOUS
  <2>1. Body(u, n) \in BOOLEAN
    BY DEF Says
  <2>2. Body(u, n) = MeantAt(u, expr, row, n)
    BY DEF MeantAt, Leaf
  <2> HIDE DEF Body
  <2> QED BY <1>8, <2>1, <2>2
<1>10. u \in [1..N -> BOOLEAN]
  <2>1. u = [n \in 1..N |-> u[n]]
    <3> HIDE DEF Body
    <3> QED BY <1>6
  <2> QED BY <1>9, <2>1
<1> QED BY <1>7, <1>9, <1>10

\* A text is true of a row where its conditions are, if it joins them as the filter does.
LEMMA TruthAgrees ==
    ASSUME NEW row, NEW sql, NEW expr, NEW names, NEW params, NEW N \in Nat \ {0}, Len(sql) = N, Len(expr) = N,
           PartsBefore(expr, N), NEW L \in [1..N -> Truths],
           \A n \in 1..N : (Leaf(sql, n) <=> Leaf(expr, n)) /\ (~Leaf(expr, n) => sql[n] = expr[n]),
           LeafTruths(L, row, sql, names, params, N),
           \A n \in 1..N : Leaf(expr, n) => ((L[n] = "true") <=> Says(expr[n], row))
    PROVE  (TruthOf(row, sql, names, params) = "true") <=> Meant(expr, row)
<1>1. PartsBefore(sql, N)
  BY DEF PartsBefore
<1>2. PICK t \in [1..N -> Truths] :
          TruthsOf(t, L, row, sql, names, params, N)
  BY <1>1, TruthIs
<1>3. PICK m \in [1..N -> BOOLEAN] :
          Meant(expr, row) = m[N] /\ \A n \in 1..N : m[n] = MeantAt(m, expr, row, n)
  BY MeantIs
<1> DEFINE Missing == {n \in 1..N : ~((t[n] = "true") <=> m[n])}
<1>4. Missing = {}
  <2> SUFFICES ASSUME Missing # {} PROVE FALSE
    OBVIOUS
  <2>1. PICK n \in Missing : \A k \in Missing : ~(k < n)
    <3>1. Missing \in SUBSET Nat
      OBVIOUS
    <3> HIDE DEF Missing
    <3> QED BY <3>1, Least
  <2>2. n \in 1..N /\ ~((t[n] = "true") <=> m[n])
    BY <2>1
  <2>3. \A k \in 1..(n - 1) : (t[k] = "true") <=> m[k]
    <3> SUFFICES ASSUME NEW k \in 1..(n - 1) PROVE (t[k] = "true") <=> m[k]
      OBVIOUS
    <3>1. k \in 1..N /\ k < n
      BY <2>2
    <3>2. k \notin Missing
      <4> HIDE DEF Missing
      <4> QED BY <2>1, <3>1
    <3> QED BY <3>1, <3>2
  <2>4. t[n] = TruthAt(t, sql, L, n) /\ m[n] = MeantAt(m, expr, row, n)
    BY <1>2, <1>3, <2>2 DEF TruthsOf
  <2>5. CASE Leaf(expr, n)
    BY <2>2, <2>4, <2>5 DEF TruthAt, MeantAt
  <2>6. CASE ~Leaf(expr, n)
    <3>1. sql[n] = expr[n] /\ ~Leaf(sql, n)
      BY <2>2, <2>6
    <3>2. \A i \in expr[n].of : i \in 1..(n - 1) /\ i \in 1..N
      BY <2>2, <2>6 DEF PartsBefore
    <3>3. \A i \in expr[n].of : t[i] \in Truths /\ ((t[i] = "true") <=> m[i])
      BY <1>2, <2>3, <3>2
    <3>4. CASE expr[n].kind = "and"
      <4>1. t[n] = ConjunctionOf({t[i] : i \in expr[n].of})
        BY <2>4, <3>1, <3>4 DEF TruthAt
      <4>2. m[n] <=> \A i \in expr[n].of : m[i]
        BY <2>4, <2>6, <3>4 DEF MeantAt
      <4>3. (t[n] = "true") <=> \A i \in expr[n].of : t[i] = "true"
        BY <4>1, <3>3 DEF ConjunctionOf, Truths, Unknown
      <4> QED BY <2>2, <3>3, <4>2, <4>3
    <3>5. CASE expr[n].kind # "and"
      <4>1. t[n] = DisjunctionOf({t[i] : i \in expr[n].of})
        BY <2>4, <3>1, <3>5 DEF TruthAt
      <4>2. m[n] <=> \E i \in expr[n].of : m[i]
        BY <2>4, <2>6, <3>5 DEF MeantAt
      <4>3. (t[n] = "true") <=> \E i \in expr[n].of : t[i] = "true"
        BY <4>1, <3>3 DEF DisjunctionOf, Truths, Unknown
      <4> QED BY <2>2, <3>3, <4>2, <4>3
    <3> QED BY <3>4, <3>5
  <2> QED BY <2>5, <2>6
<1> QED BY <1>2, <1>3, <1>4 DEF TruthsOf

RowIsWhole(row) ==
    /\ \A column \in (PlainColumns \cup PathNames \cup {"words"}) \ {"categories"} : row[column] \in Nat
    /\ row.categories \subseteq Nat \ {0}

LEMMA ComparesTruly ==
    ASSUME NEW op \in {"eq", "ne", "gt", "gte", "lt", "lte", "contains", "icontains"}, NEW v, NEW p
    PROVE  /\ Compares(op, v, p) \in Truths
           /\ Compares(op, v, p) = "true" <=>
                 /\ v # 0 /\ p # 0
                 /\ CASE op = "eq" -> v = p [] op = "ne" -> v # p [] op = "gt" -> v > p [] op = "gte" -> v >= p
                      [] op = "lt" -> v < p [] op = "lte" -> v <= p
                      [] op \in {"contains", "icontains"} -> Fold(v) = Fold(p)
  BY DEF Compares, Truth, Truths, Unknown

LEMMA CaselessIs ==
    ASSUME NEW c, IsCondition(c)
    PROVE  /\ Caseless(c).kind = "is" /\ Caseless(c).field = c.field /\ Caseless(c).values = c.values
           /\ Caseless(c).op = IF c.op = "contains" /\ c.field # "categories" THEN "icontains" ELSE c.op
<1>1. c = [kind |-> "is", field |-> c.field, op |-> c.op, values |-> c.values]
  BY DEF IsCondition, Is
<1> QED BY <1>1 DEF Caseless

\* One condition in the text says of a row what it says in the filter, without case.
LEMMA ConditionSays ==
    ASSUME NEW c, IsCondition(c), NEW row, RowIsWhole(row), NEW sql, sql.field = sanitize_field_name(c.field), sql.op = c.op
    PROVE  /\ ConditionTruth(row, sql, c.values) \in Truths
           /\ ConditionTruth(row, sql, c.values) = "true" <=> Says(Caseless(c), row)
<1>0. PICK d : /\ d = Caseless(c) /\ d.field = c.field /\ d.values = c.values
               /\ d.op = IF c.op = "contains" /\ c.field # "categories" THEN "icontains" ELSE c.op
  BY CaselessIs
<1>1. PICK values \in Seq(Nat) : values = c.values
  BY DEF IsCondition
<1>2. DOMAIN values = 1..Len(values) /\ \A i \in 1..Len(values) : values[i] \in Nat
  OBVIOUS
<1>3. CASE c.field = "categories"
  <2>1. Len(values) = 1 /\ values[1] \in Nat /\ DOMAIN values = {1}
    BY <1>1, <1>2, <1>3 DEF IsCondition
  <2>2. sql.field = "categories" /\ c.field \in PlainColumns
    BY <1>3 DEF sanitize_field_name, PlainColumns
  <2>3. \A x \in row.categories : x \in Nat /\ x # 0
    BY DEF RowIsWhole
  <2>4. {values[i] : i \in DOMAIN values} \ {0} = {values[1]} \ {0}
    BY <2>1
  <2>7. d.field = c.field /\ d.values = c.values /\ d.op = c.op
    BY <1>0, <1>3
  <2>5. CASE c.op = "contains"
    <3>1. ConditionTruth(row, sql, c.values) = Truth(\E x \in row.categories : x = values[1])
      BY <1>1, <2>2, <2>5 DEF ConditionTruth
    <3>2. Says(d, row) <=> \E x \in row.categories : x = values[1]
      BY <1>1, <1>3, <2>2, <2>3, <2>4, <2>5, <2>7, ZenonT(60) DEF Says
    <3> QED BY <1>0, <3>1, <3>2 DEF Truth, Truths
  <2>6. CASE c.op = "icontains"
    <3>1. ConditionTruth(row, sql, c.values) = Truth(\E x \in row.categories : Fold(x) = Fold(values[1]))
      BY <1>1, <2>2, <2>6 DEF ConditionTruth
    <3>2. Says(d, row) <=> \E x \in row.categories : Fold(x) = Fold(values[1])
      <4>1. Says(d, row) <=> \E p \in {values[1]} \ {0}, x \in row.categories : Fold(x) = Fold(p)
        BY <1>1, <1>3, <2>2, <2>4, <2>6, <2>7, ZenonT(60) DEF Says
      <4>2. \A x \in row.categories : Fold(x) # Fold(0)
        BY <2>3 DEF Fold
      <4> QED BY <4>1, <4>2
    <3> QED BY <1>0, <3>1, <3>2 DEF Truth, Truths
  <2> QED BY <1>3, <2>5, <2>6 DEF IsCondition
<1>4. CASE c.field # "categories"
  <2>1. PICK v : v = IF sql.field = "NULL" THEN 0 ELSE row[sql.field]
    OBVIOUS
  <2>2. c.field \notin PlainColumns \cup PathNames => sql.field = "NULL" /\ v = 0
    BY <2>1 DEF sanitize_field_name
  <2>3. c.field \in PlainColumns \cup PathNames => sql.field = c.field /\ sql.field # "NULL" /\ v = row[c.field]
    BY <2>1 DEF sanitize_field_name, PlainColumns, PathNames
  <2>4. sql.field # "categories"
    BY <1>4, <2>2, <2>3
  <2>5. CASE c.op = "in"
    <3>1. ConditionTruth(row, sql, c.values) = DisjunctionOf({Compares("eq", v, values[i]) : i \in DOMAIN values})
      BY <1>1, <2>1, <2>4, <2>5 DEF ConditionTruth
    <3>2. \A i \in DOMAIN values : (Compares("eq", v, values[i]) = "true") <=> (v # 0 /\ values[i] # 0 /\ v = values[i])
      BY ComparesTruly
    <3>3. ConditionTruth(row, sql, c.values) = "true" <=> \E i \in DOMAIN values : v # 0 /\ values[i] # 0 /\ v = values[i]
      BY <3>1, <3>2 DEF DisjunctionOf, Unknown
    <3>4. ConditionTruth(row, sql, c.values) \in Truths
      BY <3>1 DEF DisjunctionOf, Truths
    <3>5. CASE c.field \in PlainColumns \cup PathNames
      <4>1. Says(d, row) <=> (v # 0 /\ \E p \in {values[i] : i \in DOMAIN values} \ {0} : v = p)
        BY <1>0, <1>1, <1>4, <2>3, <2>5, <3>5 DEF Says, Meets
      <4> QED BY <1>0, <3>3, <3>4, <4>1
    <3>6. CASE c.field \notin PlainColumns \cup PathNames
      BY <1>0, <2>2, <3>3, <3>4, <3>6 DEF Says
    <3> QED BY <3>5, <3>6
  <2>6. CASE c.op # "in"
    <3>1. c.op \in {"eq", "ne", "gt", "gte", "lt", "lte", "contains", "icontains"} /\ c.op # "global"
      BY <2>6 DEF IsCondition
    <3>2. Len(values) = 1 /\ values[1] \in Nat /\ DOMAIN values = {1}
      BY <1>1, <1>2, <2>6 DEF IsCondition
    <3>3. ConditionTruth(row, sql, c.values) = Compares(c.op, v, values[1])
      BY <1>1, <2>1, <2>4, <2>6, <3>1 DEF ConditionTruth
    <3>4. {values[i] : i \in DOMAIN values} \ {0} = {values[1]} \ {0}
      BY <3>2
    <3>5. CASE c.field \in PlainColumns \cup PathNames
      <4>1. Says(d, row) <=>
              (v # 0 /\ \E p \in {values[i] : i \in DOMAIN values} \ {0} : Meets(d.op, v, p))
        BY <1>0, <1>1, <1>4, <2>3, <3>5 DEF Says
      <4>2. Compares(c.op, v, values[1]) \in Truths
        BY <3>1, ComparesTruly
      <4>3. Compares(c.op, v, values[1]) = "true" <=> Says(d, row)
        <5>1. Says(d, row) <=> (v # 0 /\ values[1] # 0 /\ Meets(d.op, v, values[1]))
          BY <3>4, <4>1
        <5> QED BY <1>0, <1>4, <3>1, <5>1 DEF Compares, Truth, Unknown, Meets
      <4> QED BY <1>0, <3>3, <4>2, <4>3
    <3>6. CASE c.field \notin PlainColumns \cup PathNames
      <4>1. ~Says(d, row)
        BY <1>0, <3>6 DEF Says
      <4>2. Compares(c.op, v, values[1]) = Unknown
        BY <2>2, <3>6 DEF Compares
      <4> QED BY <1>0, <3>3, <4>1, <4>2 DEF Unknown, Truths
    <3> QED BY <3>5, <3>6
  <2> QED BY <2>5, <2>6
<1> QED BY <1>0, <1>3, <1>4

--------------------------------------------------------------------------------
(* Filters: to_sql *)

SqlNodes(expr) == {condition_to_sql(expr[n], k) : n \in DOMAIN expr, k \in Nat} \cup {expr[n] : n \in DOMAIN expr}
SqlRecords(expr) == [sql : Seq(SqlNodes(expr)), names : Seq(Nat), offset : Nat, params : Seq(Nat)]
NoSql(offset) == [sql |-> <<>>, names |-> <<>>, offset |-> offset, params |-> <<>>]
SqlAfter(expr, n, x) ==
    IF expr[n].kind = "is"
    THEN [sql |-> Append(x.sql, condition_to_sql(expr[n], x.offset)),
          names |-> x.names \o condition_to_sql(expr[n], x.offset).params,
          offset |-> x.offset + Len(expr[n].values), params |-> x.params \o expr[n].values]
    ELSE [x EXCEPT !.sql = Append(@, expr[n])]

LEMMA LeafIs ==
    ASSUME NEW expr, IsFilter(expr), NEW n \in 1..Len(expr)
    PROVE  /\ expr[n].kind = "is" => IsCondition(expr[n]) /\ expr[n].values \in Seq(Nat)
           /\ expr[n].kind # "is" => \E places \in SUBSET (1..(n - 1)) : expr[n] \in {And(places), Or(places)}
<1>1. n \in DOMAIN expr
  BY DEF IsFilter
<1>2. IsCondition(expr[n]) \/ \E places \in SUBSET (1..(n - 1)) : expr[n] \in {And(places), Or(places)}
  BY <1>1 DEF IsFilter
<1>3. IsCondition(expr[n]) => expr[n].kind = "is" /\ expr[n].values \in Seq(Nat)
  BY DEF IsCondition
<1>4. \A places : And(places).kind # "is" /\ Or(places).kind # "is"
  BY DEF And, Or
<1> QED BY <1>2, <1>3, <1>4

LEMMA SqlIsTyped ==
    ASSUME NEW expr, IsFilter(expr), NEW n \in 1..Len(expr), NEW x \in SqlRecords(expr)
    PROVE  SqlAfter(expr, n, x) \in SqlRecords(expr)
<1>1. n \in DOMAIN expr
  BY DEF IsFilter
<1>2. x.sql \in Seq(SqlNodes(expr)) /\ x.names \in Seq(Nat) /\ x.offset \in Nat /\ x.params \in Seq(Nat)
  BY DEF SqlRecords
<1>3. CASE expr[n].kind = "is"
  <2>1. expr[n].values \in Seq(Nat)
    BY <1>3, LeafIs
  <2>2. condition_to_sql(expr[n], x.offset) \in SqlNodes(expr)
    BY <1>1, <1>2 DEF SqlNodes
  <2>3. condition_to_sql(expr[n], x.offset).params \in Seq(Nat)
    <3>1. condition_to_sql(expr[n], x.offset).params = [i \in 1..Len(expr[n].values) |-> x.offset + i]
      BY <2>1 DEF condition_to_sql
    <3>2. Len(expr[n].values) \in Nat
      BY <2>1
    <3> QED BY <1>2, <3>1, <3>2
  <2>4. Append(x.sql, condition_to_sql(expr[n], x.offset)) \in Seq(SqlNodes(expr))
    BY <1>2, <2>2
  <2>5. x.names \o condition_to_sql(expr[n], x.offset).params \in Seq(Nat)
    BY <1>2, <2>3
  <2>6. x.offset + Len(expr[n].values) \in Nat /\ x.params \o expr[n].values \in Seq(Nat)
    BY <1>2, <2>1
  <2> QED BY <1>3, <2>4, <2>5, <2>6 DEF SqlAfter, SqlRecords
<1>4. CASE expr[n].kind # "is"
  <2>1. expr[n] \in SqlNodes(expr)
    BY <1>1 DEF SqlNodes
  <2>2. Append(x.sql, expr[n]) \in Seq(SqlNodes(expr))
    BY <1>2, <2>1
  <2> QED BY <1>4, <2>2 DEF SqlAfter, SqlRecords
<1> QED BY <1>3, <1>4

\* A condition in the text has the numbers from b on, and the values belong to them.
NodeFits(e, sql, offset, end, params) ==
    IF e.kind = "is"
    THEN \E b \in Nat : /\ sql = condition_to_sql(e, b) /\ offset <= b /\ b + Len(e.values) <= end
                        /\ \A i \in 1..Len(e.values) : params[(b - offset) + i] = e.values[i]
    ELSE sql = e
NodesFit(expr, k, offset, x) == \A n \in 1..k : NodeFits(expr[n], x.sql[n], offset, x.offset, x.params)
Counted(x, offset) ==
    \E m \in Nat : /\ x.offset = offset + m /\ x.params \in [1..m -> Nat] /\ x.names = [i \in 1..m |-> offset + i]
CompiledTo(expr, k, offset, x) ==
    Len(x.sql) = k /\ x.sql \in Seq(SqlNodes(expr)) /\ Counted(x, offset) /\ NodesFit(expr, k, offset, x)

\* r is p and then q.
Follows(m, l, p, q, r) ==
    r \in [1..(m + l) -> Nat] /\ (\A i \in 1..m : r[i] = p[i]) /\ (\A i \in 1..l : r[m + i] = q[i])

LEMMA Joining ==
    ASSUME NEW m \in Nat, NEW l \in Nat, NEW p \in [1..m -> Nat], NEW q \in [1..l -> Nat]
    PROVE  Follows(m, l, p, q, p \o q)
<1>1. p \in Seq(Nat) /\ q \in Seq(Nat) /\ Len(p) = m /\ Len(q) = l
  OBVIOUS
<1>2. PICK r : r = p \o q
  OBVIOUS
<1>3. r \in Seq(Nat) /\ Len(r) = m + l
  BY <1>1, <1>2, ConcatProperties
<1>4. \A i \in 1..(m + l) : r[i] = IF i <= m THEN p[i] ELSE q[i - m]
  BY <1>1, <1>2, <1>3, ConcatProperties
<1>5. \A i \in 1..m : i \in 1..(m + l) /\ i <= m
  OBVIOUS
<1>6. \A i \in 1..l : m + i \in 1..(m + l) /\ ~(m + i <= m) /\ (m + i) - m = i
  OBVIOUS
<1>7. r \in [1..(m + l) -> Nat]
  <2>1. PICK k \in Nat : k = m + l
    OBVIOUS
  <2>2. r \in [1..k -> Nat]
    BY <1>3, <2>1
  <2> QED BY <2>1, <2>2
<1>8. \A i \in 1..m : r[i] = p[i]
  BY <1>4, <1>5
<1>9. \A i \in 1..l : r[m + i] = q[i]
  BY <1>4, <1>6
<1> QED BY <1>2, <1>7, <1>8, <1>9 DEF Follows

LEMMA SqlStepFits ==
    ASSUME NEW expr, IsFilter(expr), NEW k \in 1..Len(expr), NEW offset \in Nat,
           NEW x \in SqlRecords(expr), CompiledTo(expr, k - 1, offset, x)
    PROVE  CompiledTo(expr, k, offset, SqlAfter(expr, k, x))
<1>1. Len(expr) \in Nat /\ k \in DOMAIN expr
  <2>1. DOMAIN expr = 1..Len(expr)
    BY DEF IsFilter
  <2> QED BY <2>1
<1>2. PICK N \in Nat : N = Len(expr)
  BY <1>1
<1>3. PICK sql \in Seq(SqlNodes(expr)) : sql = x.sql /\ Len(sql) = k - 1
  BY DEF CompiledTo
<1>4. PICK m \in Nat : x.offset = offset + m /\ x.params \in [1..m -> Nat] /\ x.names = [i \in 1..m |-> offset + i]
  BY DEF CompiledTo, Counted
<1>5. \A n \in 1..(k - 1) : NodeFits(expr[n], sql[n], offset, offset + m, x.params)
  BY <1>3, <1>4 DEF CompiledTo, NodesFit
<1>6. \A n \in 1..k : n = k \/ n \in 1..(k - 1)
  OBVIOUS
<1>7. PICK y : y = SqlAfter(expr, k, x)
  OBVIOUS
<1>8. \A e : e \in SqlNodes(expr) => Append(sql, e) \in Seq(SqlNodes(expr)) /\ Len(Append(sql, e)) = k
                 /\ Append(sql, e)[k] = e /\ \A n \in 1..(k - 1) : Append(sql, e)[n] = sql[n]
  BY <1>2, <1>3
<1>9. CASE expr[k].kind = "is"
  <2>1. PICK values \in Seq(Nat) : values = expr[k].values
    BY <1>9, LeafIs
  <2>2. PICK l \in Nat : l = Len(values) /\ values \in [1..l -> Nat]
    <3>1. Len(values) \in Nat /\ values \in [1..Len(values) -> Nat]
      OBVIOUS
    <3> QED BY <3>1
  <2>3. PICK c : c = condition_to_sql(expr[k], offset + m)
    OBVIOUS
  <2>4. c \in SqlNodes(expr)
    <3>1. offset + m \in Nat
      OBVIOUS
    <3> QED BY <1>1, <2>3, <3>1 DEF SqlNodes
  <2>5. c.params = [i \in 1..l |-> (offset + m) + i]
    BY <2>1, <2>2, <2>3 DEF condition_to_sql
  <2>6. y = [sql |-> Append(sql, c), names |-> x.names \o c.params, offset |-> (offset + m) + l, params |-> x.params \o values]
    BY <1>3, <1>4, <1>7, <1>9, <2>1, <2>2, <2>3 DEF SqlAfter
  <2>7. /\ y.sql = Append(sql, c) /\ y.names = x.names \o c.params /\ y.offset = (offset + m) + l
        /\ y.params = x.params \o values
    BY <2>6
  <2>8. x.names \in [1..m -> Nat] /\ c.params \in [1..l -> Nat]
    BY <1>4, <2>5, SMTT(30)
  <2>9. y.names = [i \in 1..(m + l) |-> offset + i]
    <3>1. Follows(m, l, x.names, c.params, y.names)
      BY <2>7, <2>8, Joining
    <3>2. \A i \in 1..m : y.names[i] = offset + i
      BY <1>4, <3>1 DEF Follows
    <3>3. \A i \in 1..l : y.names[m + i] = (offset + m) + i
      BY <2>5, <3>1 DEF Follows
    <3>4. ASSUME NEW i \in 1..(m + l) PROVE y.names[i] = offset + i
      <4>1. CASE i <= m
        BY <3>2, <4>1
      <4>2. CASE ~(i <= m)
        <5>1. PICK j \in 1..l : i = m + j
          <6>1. i - m \in 1..l /\ i = m + (i - m)
            BY <4>2
          <6> QED BY <6>1
        <5>2. y.names[i] = (offset + m) + j
          BY <3>3, <5>1
        <5> QED BY <5>1, <5>2
      <4> QED BY <4>1, <4>2
    <3>5. y.names = [i \in 1..(m + l) |-> y.names[i]]
      BY <3>1 DEF Follows
    <3> QED BY <3>4, <3>5
  <2>10. /\ y.params \in [1..(m + l) -> Nat]
         /\ \A i \in 1..m : y.params[i] = x.params[i]
         /\ \A i \in 1..l : y.params[m + i] = values[i]
    <3>1. Follows(m, l, x.params, values, y.params)
      BY <1>4, <2>2, <2>7, Joining
    <3> QED BY <3>1 DEF Follows
  <2>11. Counted(y, offset)
    <3>1. m + l \in Nat /\ y.offset = offset + (m + l)
      BY <2>7
    <3> QED BY <2>9, <2>10, <3>1 DEF Counted
  <2>12. NodeFits(expr[k], c, offset, y.offset, y.params)
    <3>1. PICK b \in Nat : b = offset + m
      OBVIOUS
    <3>2. c = condition_to_sql(expr[k], b) /\ offset <= b /\ b + Len(expr[k].values) <= y.offset /\ b - offset = m
      <4>1. offset <= b /\ b - offset = m /\ b + l <= (offset + m) + l
        BY <3>1
      <4>2. b + Len(expr[k].values) <= y.offset
        BY <2>1, <2>2, <2>7, <4>1
      <4> QED BY <2>3, <3>1, <4>1, <4>2
    <3>3. \A i \in 1..Len(expr[k].values) : y.params[(b - offset) + i] = expr[k].values[i]
      BY <2>1, <2>2, <2>10, <3>2
    <3>4. \E a \in Nat : /\ c = condition_to_sql(expr[k], a) /\ offset <= a /\ a + Len(expr[k].values) <= y.offset
                         /\ \A i \in 1..Len(expr[k].values) : y.params[(a - offset) + i] = expr[k].values[i]
      BY <3>2, <3>3
    <3> QED BY <1>9, <3>4 DEF NodeFits
  <2>13. ASSUME NEW n \in 1..(k - 1) PROVE NodeFits(expr[n], sql[n], offset, y.offset, y.params)
    <3>1. NodeFits(expr[n], sql[n], offset, offset + m, x.params)
      BY <1>5
    <3>2. CASE expr[n].kind = "is"
      <4>1. PICK b \in Nat : /\ sql[n] = condition_to_sql(expr[n], b) /\ offset <= b
                             /\ b + Len(expr[n].values) <= offset + m
                             /\ \A i \in 1..Len(expr[n].values) : x.params[(b - offset) + i] = expr[n].values[i]
        BY <3>1, <3>2 DEF NodeFits
      <4>2. n \in DOMAIN expr
        BY <1>1 DEF IsFilter
      <4>3. PICK j \in Nat : j = Len(expr[n].values)
        <5>1. n \in 1..Len(expr)
          BY <1>2
        <5>2. expr[n].values \in Seq(Nat)
          BY <3>2, <5>1, LeafIs
        <5> QED BY <5>2
      <4>4. b + j <= y.offset
        <5>1. b + j <= offset + m
          BY <4>1, <4>3
        <5> QED BY <2>7, <5>1
      <4>5. \A i \in 1..j : (b - offset) + i \in 1..m
        BY <4>1, <4>3, SMTT(30)
      <4>6. \A i \in 1..j : y.params[(b - offset) + i] = expr[n].values[i]
        BY <2>10, <4>1, <4>3, <4>5
      <4> QED BY <3>2, <4>1, <4>3, <4>4, <4>6 DEF NodeFits
    <3>3. CASE expr[n].kind # "is"
      BY <3>1, <3>3 DEF NodeFits
    <3> QED BY <3>2, <3>3
  <2>14. NodesFit(expr, k, offset, y)
    BY <1>6, <1>8, <2>4, <2>7, <2>12, <2>13, SMTT(30) DEF NodesFit
  <2>15. Len(y.sql) = k /\ y.sql \in Seq(SqlNodes(expr))
    BY <1>8, <2>4, <2>7
  <2> QED BY <1>7, <2>11, <2>14, <2>15 DEF CompiledTo
<1>10. CASE expr[k].kind # "is"
  <2>1. PICK e : e = expr[k]
    OBVIOUS
  <2>2. e \in SqlNodes(expr)
    BY <1>1, <2>1 DEF SqlNodes
  <2>3. y.sql = Append(sql, e) /\ y.names = x.names /\ y.offset = x.offset /\ y.params = x.params
    <3>1. y = [x EXCEPT !.sql = Append(@, expr[k])]
      BY <1>7, <1>10 DEF SqlAfter
    <3> QED BY <1>3, <2>1, <3>1 DEF SqlRecords
  <2>4. Counted(y, offset)
    BY <1>4, <2>3 DEF Counted
  <2>5. NodeFits(expr[k], e, offset, y.offset, y.params)
    BY <1>10, <2>1 DEF NodeFits
  <2>6. NodesFit(expr, k, offset, y)
    BY <1>4, <1>5, <1>6, <1>8, <2>2, <2>3, <2>5 DEF NodesFit
  <2>7. Len(y.sql) = k /\ y.sql \in Seq(SqlNodes(expr))
    BY <1>8, <2>2, <2>3
  <2> QED BY <1>7, <2>4, <2>6, <2>7 DEF CompiledTo
<1> QED BY <1>9, <1>10

LEMMA SqlFits ==
    ASSUME NEW expr, IsFilter(expr), NEW offset \in Nat
    PROVE  CompiledTo(expr, Len(expr), offset, to_sql(expr, offset)) /\ to_sql(expr, offset) \in SqlRecords(expr)
<1>1. Len(expr) \in Nat
  BY DEF IsFilter
<1>2. PICK N \in Nat : N = Len(expr)
  BY <1>1
<1> DEFINE F == [p \in (1..N) \X SqlRecords(expr) |-> SqlAfter(expr, p[1], p[2])]
           Body(so, n) == IF n = 0 THEN NoSql(offset) ELSE SqlAfter(expr, n, so[n - 1])
<1>3. NoSql(offset) \in SqlRecords(expr)
  BY DEF NoSql, SqlRecords
<1>4. F \in [(1..N) \X SqlRecords(expr) -> SqlRecords(expr)]
  <2>1. \A p \in (1..N) \X SqlRecords(expr) : SqlAfter(expr, p[1], p[2]) \in SqlRecords(expr)
    BY <1>2, SqlIsTyped
  <2> QED BY <2>1
<1>5. PICK g \in [0..N -> SqlRecords(expr)] : Stepwise(g, N, NoSql(offset), F)
  <2> HIDE DEF F
  <2> QED BY <1>3, <1>4, StepsExist
<1>6. \A n \in 0..N : g[n] = Body(g, n)
  <2> SUFFICES ASSUME NEW n \in 0..N PROVE g[n] = Body(g, n)
    OBVIOUS
  <2>1. g[n] = IF n = 0 THEN NoSql(offset) ELSE F[<<n, g[n - 1]>>]
    <3> HIDE DEF F
    <3> QED BY <1>5 DEF Stepwise
  <2>2. n # 0 => n \in 1..N /\ g[n - 1] \in SqlRecords(expr)
    BY <1>5
  <2> QED BY <2>1, <2>2
<1>7. g = [n \in 0..N |-> Body(g, n)]
  <2>1. g = [n \in 0..N |-> g[n]]
    BY <1>5
  <2> HIDE DEF Body
  <2> QED BY <1>6, <2>1
<1> DEFINE so == CHOOSE so : so = [n \in 0..N |-> Body(so, n)]
<1>8. so = [n \in 0..N |-> Body(so, n)]
  <2> HIDE DEF Body
  <2> QED BY <1>7
<1>9. to_sql(expr, offset) = so[N]
  BY <1>2 DEF to_sql, NoSql, SqlAfter
<1> HIDE DEF so
<1>10. \A n \in 0..N : so[n] = Body(so, n)
  <2> HIDE DEF Body
  <2> QED BY <1>8
<1> DEFINE IsFine(n) == so[n] \in SqlRecords(expr) /\ CompiledTo(expr, n, offset, so[n])
           Missing == {n \in 0..N : ~IsFine(n)}
<1>11. Missing = {}
  <2> SUFFICES ASSUME Missing # {} PROVE FALSE
    OBVIOUS
  <2>1. PICK n \in Missing : \A k \in Missing : ~(k < n)
    <3>1. Missing \in SUBSET Nat
      OBVIOUS
    <3> HIDE DEF Missing
    <3> QED BY <3>1, Least
  <2>2. n \in 0..N /\ ~IsFine(n)
    BY <2>1
  <2>3. CASE n = 0
    <3>1. so[n] = NoSql(offset)
      BY <1>10, <2>2, <2>3
    <3>2. NoSql(offset).sql = <<>> /\ NoSql(offset).names = <<>> /\ NoSql(offset).offset = offset /\ NoSql(offset).params = <<>>
      BY DEF NoSql
    <3>3. offset = offset + 0 /\ <<>> \in [1..0 -> Nat] /\ <<>> = [i \in 1..0 |-> offset + i]
      OBVIOUS
    <3>4. Counted(NoSql(offset), offset)
      BY <3>2, <3>3 DEF Counted
    <3>5. NodesFit(expr, 0, offset, NoSql(offset))
      BY DEF NodesFit
    <3>6. Len(NoSql(offset).sql) = 0 /\ NoSql(offset).sql \in Seq(SqlNodes(expr))
      BY <3>2
    <3> QED BY <1>3, <2>2, <2>3, <3>1, <3>4, <3>5, <3>6 DEF CompiledTo
  <2>4. CASE n # 0
    <3>1. n \in 1..N /\ n - 1 \in 0..N /\ n - 1 < n
      BY <2>2, <2>4
    <3>2. IsFine(n - 1)
      <4>1. n - 1 \notin Missing
        <5> HIDE DEF Missing
        <5> QED BY <2>1, <3>1
      <4> QED BY <3>1, <4>1
    <3>3. so[n] = SqlAfter(expr, n, so[n - 1])
      BY <1>10, <2>2, <2>4
    <3>4. IsFine(n)
      BY <1>2, <3>1, <3>2, <3>3, SqlIsTyped, SqlStepFits
    <3> QED BY <2>2, <3>4
  <2> QED BY <2>3, <2>4
<1>12. IsFine(N)
  BY <1>11
<1> QED BY <1>2, <1>9, <1>12

--------------------------------------------------------------------------------
(* Filters: the clause *)

NumberedTo(c, m) == c.last = m /\ c.params \in [1..m -> Nat] /\ c.names = [i \in 1..m |-> i]

LEMMA BoundIs ==
    ASSUME NEW m \in Nat, NEW names, names = [i \in 1..m |-> i], NEW params, NEW n \in 1..m
    PROVE  Bound(names, params, n) = params[n]
<1>1. DOMAIN names = 1..m /\ \A i \in 1..m : names[i] = i
  OBVIOUS
<1>2. PICK p : p = FirstPlace(names, n)
  OBVIOUS
<1>3. p = n
  <2>1. names[n] = n /\ \A j \in DOMAIN names : names[j] = n => n <= j
    BY <1>1
  <2>2. n \in DOMAIN names
    BY <1>1
  <2>3. p \in DOMAIN names /\ names[p] = n
    BY <1>2, <2>1, <2>2 DEF FirstPlace
  <2> QED BY <1>1, <2>3
<1>4. \A j \in 1..n : j \in 1..m
  OBVIOUS
<1>5. {names[j] : j \in 1..n} = 1..n
  BY <1>1, <1>4
<1>6. Cardinality(1..n) = n
  BY FS_Interval
<1>7. Bound(names, params, n) = params[Cardinality({names[j] : j \in 1..p})]
  BY <1>2 DEF Bound
<1> QED BY <1>3, <1>5, <1>6, <1>7

\* A condition of the query itself: a column, an operator and a value; and the filter.
OwnFits(sql, t, params, m) ==
    \E b \in 1..m : /\ sql = <<[kind |-> "is", field |-> t.field, op |-> t.op, params |-> <<b>>]>>
                    /\ params[b] = t.value
FilterFits(sql, expr, params, m) ==
    Len(sql) = Len(expr) /\ \A n \in 1..Len(expr) : NodeFits(expr[n], sql[n], 0, m, params)

OwnSays(t, row) ==
    CASE t.op = "eq" -> row[t.field] = t.value
      [] t.op = "global" -> row[t.field] = t.value \/ row[t.field] = 0
      [] t.op = "gte" -> row[t.field] >= t.value
Own(t) == /\ t.op \in {"eq", "global", "gte"} /\ t.value \in Nat \ {0}
          /\ t.field \in (PlainColumns \cup PathNames \cup {"words"}) \ {"categories"}

LEMMA OwnIs ==
    ASSUME NEW row, RowIsWhole(row), NEW t, Own(t), NEW m \in Nat, NEW params \in [1..m -> Nat],
           NEW sql, OwnFits(sql, t, params, m)
    PROVE  (TruthOf(row, sql, [i \in 1..m |-> i], params) = "true") <=> OwnSays(t, row)
<1>1. PICK b \in 1..m : /\ sql = <<[kind |-> "is", field |-> t.field, op |-> t.op, params |-> <<b>>]>>
                       /\ params[b] = t.value
  BY DEF OwnFits
<1>2. PICK names : names = [i \in 1..m |-> i]
  OBVIOUS
<1>3. /\ Len(sql) = 1 /\ Leaf(sql, 1) /\ sql[1].field = t.field /\ sql[1].op = t.op
      /\ sql[1].params = <<b>>
  BY <1>1 DEF Leaf
<1>4. PICK vals : vals = [i \in DOMAIN sql[1].params |-> Bound(names, params, sql[1].params[i])]
  OBVIOUS
<1>5. vals[1] = t.value
  <2>1. DOMAIN <<b>> = {1} /\ <<b>>[1] = b
    OBVIOUS
  <2>2. vals[1] = Bound(names, params, b)
    BY <1>3, <1>4, <2>1
  <2>3. Bound(names, params, b) = params[b]
    BY <1>2, BoundIs
  <2> QED BY <1>1, <2>2, <2>3
<1>6. row[t.field] \in Nat /\ t.field # "categories" /\ t.field # "NULL"
  BY DEF Own, RowIsWhole, PlainColumns, PathNames
<1>7. PICK a : a = ConditionTruth(row, sql[1], vals)
  OBVIOUS
<1>8. a \in Truths /\ ((a = "true") <=> OwnSays(t, row))
  <2>1. CASE t.op = "eq"
    <3>1. a = Compares("eq", row[t.field], t.value)
      BY <1>3, <1>5, <1>6, <1>7, <2>1 DEF ConditionTruth
    <3> QED BY <1>6, <2>1, <3>1 DEF Own, OwnSays, Compares, Truth, Truths, Unknown
  <2>2. CASE t.op = "global"
    <3>1. a = DisjunctionOf({Compares("eq", row[t.field], t.value), Truth(row[t.field] = 0)})
      BY <1>3, <1>5, <1>6, <1>7, <2>2 DEF ConditionTruth
    <3>2. (Compares("eq", row[t.field], t.value) = "true") <=> row[t.field] = t.value
      BY <1>6 DEF Own, Compares, Truth, Unknown
    <3>3. (Truth(row[t.field] = 0) = "true") <=> row[t.field] = 0
      BY DEF Truth
    <3> QED BY <2>2, <3>1, <3>2, <3>3 DEF OwnSays, DisjunctionOf, Truths, Unknown
  <2>3. CASE t.op = "gte"
    <3>1. a = Compares("gte", row[t.field], t.value)
      BY <1>3, <1>5, <1>6, <1>7, <2>3 DEF ConditionTruth
    <3>2. (a = "true") <=> row[t.field] # 0 /\ row[t.field] >= t.value
      BY <3>1 DEF Own, Compares, Truth, Unknown
    <3>3. a \in Truths
      BY <3>1 DEF Compares, Truth, Truths
    <3>4. t.value \in Nat /\ t.value # 0
      BY DEF Own
    <3>5. row[t.field] >= t.value => row[t.field] # 0
      BY <1>6, <3>4
    <3> QED BY <2>3, <3>2, <3>3, <3>5 DEF OwnSays
  <2> QED BY <2>1, <2>2, <2>3 DEF Own
<1>9. PICK L : L = [n \in 1..1 |-> a]
  OBVIOUS
<1>10. L \in [1..1 -> Truths] /\ L[1] = a
  BY <1>8, <1>9
<1>11. LeafTruths(L, row, sql, names, params, 1) /\ PartsBefore(sql, 1)
  <2>1. \A n \in 1..1 : n = 1
    OBVIOUS
  <2>2. PartsBefore(sql, 1)
    BY <1>3, <2>1 DEF PartsBefore
  <2>3. LeafTruths(L, row, sql, names, params, 1)
    BY <1>3, <1>4, <1>7, <1>10, <2>1 DEF LeafTruths
  <2> QED BY <2>2, <2>3
<1>12. PICK u \in [1..1 -> Truths] : TruthsOf(u, L, row, sql, names, params, 1)
  <2>1. 1 \in Nat \ {0}
    OBVIOUS
  <2> QED BY <1>3, <1>10, <1>11, <2>1, TruthIs
<1>13. TruthOf(row, sql, names, params) = a
  BY <1>3, <1>10, <1>12 DEF TruthsOf, TruthAt
<1> QED BY <1>2, <1>8, <1>13

LEMMA FilterIs ==
    ASSUME NEW row, RowIsWhole(row), NEW expr, IsFilter(expr), NEW m \in Nat, NEW params \in [1..m -> Nat],
           NEW sql, FilterFits(sql, expr, params, m)
    PROVE  (TruthOf(row, sql, [i \in 1..m |-> i], params) = "true") <=> Meant(WithoutCase(expr), row)
<1>1. PICK N \in Nat \ {0} : Len(expr) = N /\ Len(sql) = N
  BY DEF IsFilter, FilterFits
<1>2. PICK names : names = [i \in 1..m |-> i]
  OBVIOUS
<1>3. \A n \in 1..N : NodeFits(expr[n], sql[n], 0, m, params)
  BY <1>1 DEF FilterFits
<1>4. \A n \in 1..N :
          /\ Leaf(expr, n) => IsCondition(expr[n]) /\ expr[n].values \in Seq(Nat)
          /\ ~Leaf(expr, n) => \E places \in SUBSET (1..(n - 1)) : expr[n] \in {And(places), Or(places)}
  BY <1>1, LeafIs DEF Leaf
<1>5. PartsBefore(expr, N)
  <2>1. \A places : And(places).of = places /\ Or(places).of = places
    BY DEF And, Or
  <2> QED BY <1>4, <2>1, ZenonT(40) DEF PartsBefore
<1>6. \A n \in 1..N : (Leaf(sql, n) <=> Leaf(expr, n)) /\ (~Leaf(expr, n) => sql[n] = expr[n])
  <2>1. \A e, b : condition_to_sql(e, b).kind = "is"
    BY DEF condition_to_sql
  <2> QED BY <1>3, <2>1 DEF NodeFits, Leaf
<1> DEFINE ValuesAt(n) == [i \in DOMAIN sql[n].params |-> Bound(names, params, sql[n].params[i])]
           L == [n \in 1..N |-> IF Leaf(expr, n) THEN ConditionTruth(row, sql[n], ValuesAt(n)) ELSE "true"]
<1>7. ASSUME NEW n \in 1..N, Leaf(expr, n)
      PROVE  /\ ConditionTruth(row, sql[n], ValuesAt(n)) \in Truths
             /\ (ConditionTruth(row, sql[n], ValuesAt(n)) = "true") <=> Says(Caseless(expr[n]), row)
  <2>1. PICK values \in Seq(Nat) : values = expr[n].values
    BY <1>4, <1>7
  <2>2. PICK l \in Nat : l = Len(values)
    OBVIOUS
  <2>3. PICK b \in Nat : /\ sql[n] = condition_to_sql(expr[n], b) /\ 0 <= b /\ b + l <= m
                        /\ \A i \in 1..l : params[(b - 0) + i] = values[i]
    BY <1>3, <1>7, <2>1, <2>2 DEF NodeFits, Leaf
  <2>4. sql[n].params = [i \in 1..l |-> b + i] /\ sql[n].field = sanitize_field_name(expr[n].field) /\ sql[n].op = expr[n].op
    BY <2>1, <2>2, <2>3 DEF condition_to_sql
  <2>5. ASSUME NEW i \in 1..l PROVE Bound(names, params, b + i) = values[i]
    <3>1. b + i \in 1..m /\ (b - 0) + i = b + i
      BY <2>3
    <3>2. Bound(names, params, b + i) = params[b + i]
      BY <1>2, <3>1, BoundIs
    <3> QED BY <2>3, <3>1, <3>2
  <2>6. ValuesAt(n) = [i \in 1..l |-> values[i]]
    BY <2>4, <2>5
  <2>7. values = [i \in 1..l |-> values[i]]
    BY <2>2
  <2>8. ValuesAt(n) = expr[n].values
    BY <2>1, <2>6, <2>7
  <2> HIDE DEF ValuesAt
  <2> QED BY <1>4, <1>7, <2>4, <2>8, ConditionSays, ZenonT(40)
<1>8. L \in [1..N -> Truths]
  <2>1. "true" \in Truths
    BY DEF Truths
  <2> HIDE DEF ValuesAt
  <2> QED BY <1>7, <2>1
<1>9. LeafTruths(L, row, sql, names, params, N)
  BY <1>6 DEF LeafTruths
<1>10. \A n \in 1..N : Leaf(expr, n) => ((L[n] = "true") <=> Says(Caseless(expr[n]), row))
  <2> HIDE DEF ValuesAt
  <2> QED BY <1>7
<1> HIDE DEF L
<1>11. PICK relaxed : relaxed = WithoutCase(expr)
  OBVIOUS
<1>12. \A n \in 1..N : relaxed[n] = Caseless(expr[n])
  <2>1. DOMAIN expr = 1..N
    BY <1>1 DEF IsFilter
  <2> QED BY <1>11, <2>1 DEF WithoutCase
<1>13. Len(relaxed) = N
  <2>1. DOMAIN expr = 1..N
    BY <1>1 DEF IsFilter
  <2>2. relaxed = [n \in 1..N |-> Caseless(expr[n])]
    BY <1>11, <2>1 DEF WithoutCase
  <2> QED BY <2>2
<1>14. \A n \in 1..N : (Leaf(relaxed, n) <=> Leaf(expr, n)) /\ (~Leaf(expr, n) => relaxed[n] = expr[n])
  <2> SUFFICES ASSUME NEW n \in 1..N PROVE (Leaf(relaxed, n) <=> Leaf(expr, n)) /\ (~Leaf(expr, n) => relaxed[n] = expr[n])
    OBVIOUS
  <2>1. CASE Leaf(expr, n)
    BY <1>4, <1>12, <2>1, CaselessIs DEF Leaf
  <2>2. CASE ~Leaf(expr, n)
    <3>1. Caseless(expr[n]) = expr[n]
      BY <2>2 DEF Leaf, Caseless
    <3> QED BY <1>12, <2>2, <3>1 DEF Leaf
  <2> QED BY <2>1, <2>2
<1>15. PartsBefore(relaxed, N)
  BY <1>5, <1>14 DEF PartsBefore
<1>16. \A n \in 1..N : (Leaf(sql, n) <=> Leaf(relaxed, n)) /\ (~Leaf(relaxed, n) => sql[n] = relaxed[n])
  BY <1>6, <1>14
<1>17. \A n \in 1..N : Leaf(relaxed, n) => ((L[n] = "true") <=> Says(relaxed[n], row))
  BY <1>10, <1>12, <1>14
<1>18. (TruthOf(row, sql, names, params) = "true") <=> Meant(relaxed, row)
  BY <1>1, <1>8, <1>9, <1>13, <1>15, <1>16, <1>17, TruthAgrees, SMTT(30)
<1> QED BY <1>2, <1>11, <1>18

--------------------------------------------------------------------------------
(* Filters: the queries *)

\* The conditions that the call asks for, up to a step
Wanted(field, op, value) == IF value = 0 THEN {} ELSE {[field |-> field, op |-> op, value |-> value]}
OfOwner(r) == Wanted("user_id", "eq", Owner) \cup Wanted("words", "eq", IF r.query = "words" THEN Words ELSE 0)
OfScope(r) ==
    Wanted("agent_id", IF r.query = "list" THEN "eq" ELSE "global", r.scope.agent)
        \cup Wanted("run_id", "eq", r.scope.run) \cup Wanted("app_id", "eq", r.scope.app)
OfRest(r) == Wanted("importance", "gte", r.importance) \cup Wanted("created_at", "gte", r.since)
AskedAt(r, s) ==
    CASE s = "owner" -> {} [] s = "scope" -> OfOwner(r) [] s \in {"filter", "rest"} -> OfOwner(r) \cup OfScope(r)
      [] s \in {"run", "done"} -> (OfOwner(r) \cup OfScope(r)) \cup OfRest(r)
Filtered(s) == s \in {"rest", "run", "done"}

\* The clause has the conditions of A, those of the filters of F, and no others.
FitsOneOf(sql, A, F, params, m) ==
    (\E t \in A : OwnFits(sql, t, params, m)) \/ (\E e \in F : FilterFits(sql, e, params, m))
HasTo(c, A, F, m, q) ==
    /\ \A k \in 1..q : FitsOneOf(c.conditions[k], A, F, c.params, m)
    /\ \A t \in A : \E k \in 1..q : OwnFits(c.conditions[k], t, c.params, m)
    /\ \A e \in F : \E k \in 1..q : FilterFits(c.conditions[k], e, c.params, m)
Has(c, A, F) ==
    /\ \E m \in Nat : NumberedTo(c, m) /\ HasTo(c, A, F, m, Len(c.conditions))
    /\ \E S : c.conditions \in Seq(S)

Asks(r) ==
    /\ r.query \in {"list", "scan", "words"} /\ r.scope \in CallScopes
    /\ IsFilter(r.filter) /\ r.importance \in Nat /\ r.since \in Nat
RowsMeant(r) ==
    {i \in DOMAIN MemoryRows :
        (\A t \in AskedAt(r, "done") : OwnSays(t, MemoryRows[i])) /\ Meant(WithoutCase(r.filter), MemoryRows[i])}
FilterHolds(r, s, c, given) ==
    /\ Asks(r) /\ s \in {"owner", "scope", "filter", "rest", "run", "done"}
    /\ Has(c, AskedAt(r, s), IF Filtered(s) THEN {r.filter} ELSE {})
    /\ s = "done" => given = RowsMeant(r)
FilterInv == FilterHolds(request, step, clause, answer)

\* More parameters at the end change nothing of what fits.
LEMMA StillFits ==
    ASSUME NEW m \in Nat, NEW l \in Nat, NEW p \in [1..m -> Nat], NEW r \in [1..(m + l) -> Nat],
           \A i \in 1..m : r[i] = p[i], NEW sql
    PROVE  /\ \A t : OwnFits(sql, t, p, m) => OwnFits(sql, t, r, m + l)
           /\ \A e : IsFilter(e) /\ FilterFits(sql, e, p, m) => FilterFits(sql, e, r, m + l)
<1>1. \A t : OwnFits(sql, t, p, m) => OwnFits(sql, t, r, m + l)
  <2>1. \A b \in 1..m : b \in 1..(m + l)
    OBVIOUS
  <2> QED BY <2>1 DEF OwnFits
<1>2. ASSUME NEW e, IsFilter(e), FilterFits(sql, e, p, m) PROVE FilterFits(sql, e, r, m + l)
  <2>1. ASSUME NEW n \in 1..Len(e) PROVE NodeFits(e[n], sql[n], 0, m + l, r)
    <3>1. NodeFits(e[n], sql[n], 0, m, p)
      BY <1>2 DEF FilterFits
    <3>2. CASE e[n].kind = "is"
      <4>1. PICK values \in Seq(Nat) : values = e[n].values
        BY <1>2, <3>2, LeafIs
      <4>2. PICK j \in Nat : j = Len(values)
        OBVIOUS
      <4>3. PICK b \in Nat : /\ sql[n] = condition_to_sql(e[n], b) /\ 0 <= b /\ b + j <= m
                            /\ \A i \in 1..j : p[(b - 0) + i] = values[i]
        BY <3>1, <3>2, <4>1, <4>2 DEF NodeFits
      <4>4. b + j <= m + l
        BY <4>3
      <4>5. \A i \in 1..j : (b - 0) + i \in 1..m
        BY <4>3
      <4>6. \A i \in 1..j : r[(b - 0) + i] = values[i]
        BY <4>3, <4>5
      <4> QED BY <3>2, <4>1, <4>2, <4>3, <4>4, <4>6 DEF NodeFits
    <3>3. CASE e[n].kind # "is"
      BY <3>1, <3>3 DEF NodeFits
    <3> QED BY <3>2, <3>3
  <2> QED BY <1>2, <2>1 DEF FilterFits
<1> QED BY <1>1, <1>2

\* One condition more, of the query itself or of its filter
LEMMA OneMore ==
    ASSUME NEW c, NEW A, NEW F, \A e \in F : IsFilter(e), NEW m \in Nat, NumberedTo(c, m), Has(c, A, F),
           NEW l \in Nat, NEW d, NumberedTo(d, m + l), \A i \in 1..m : d.params[i] = c.params[i],
           NEW sql, d.conditions = Append(c.conditions, sql),
           NEW B, NEW G, A \subseteq B, F \subseteq G, \A e \in G : IsFilter(e),
           \/ (B = A /\ \E e : G = F \cup {e} /\ FilterFits(sql, e, d.params, m + l))
           \/ (G = F /\ \E t : B = A \cup {t} /\ OwnFits(sql, t, d.params, m + l))
    PROVE  Has(d, B, G)
<1>1. PICK S : c.conditions \in Seq(S)
  BY DEF Has
<1>2. PICK T : T = S \cup {sql}
  OBVIOUS
<1>3. c.conditions \in Seq(T) /\ sql \in T
  BY <1>1, <1>2
<1>4. PICK q \in Nat : q = Len(c.conditions)
  BY <1>1
<1>5. /\ d.conditions \in Seq(T) /\ Len(d.conditions) = q + 1 /\ d.conditions[q + 1] = sql
      /\ \A k \in 1..q : d.conditions[k] = c.conditions[k]
  BY <1>3, <1>4
<1>6. \A k \in 1..(q + 1) : k = q + 1 \/ k \in 1..q
  OBVIOUS
<1>7. q + 1 \in 1..(q + 1) /\ \A k \in 1..q : k \in 1..(q + 1)
  OBVIOUS
<1>8. c.params \in [1..m -> Nat] /\ d.params \in [1..(m + l) -> Nat]
  BY DEF NumberedTo
<1>9. HasTo(c, A, F, m, q)
  <2>1. PICK n \in Nat : NumberedTo(c, n) /\ HasTo(c, A, F, n, q)
    BY <1>4 DEF Has
  <2>2. n = m
    BY <2>1 DEF NumberedTo
  <2> QED BY <2>1, <2>2
<1>10. \A s :
           /\ \A t : OwnFits(s, t, c.params, m) => OwnFits(s, t, d.params, m + l)
           /\ \A e : IsFilter(e) /\ FilterFits(s, e, c.params, m) => FilterFits(s, e, d.params, m + l)
  BY <1>8, StillFits
<1>11. ASSUME NEW k \in 1..(q + 1) PROVE FitsOneOf(d.conditions[k], B, G, d.params, m + l)
  <2>1. CASE k = q + 1
    BY <1>5, <2>1 DEF FitsOneOf
  <2>2. CASE k \in 1..q
    <3>1. FitsOneOf(c.conditions[k], A, F, c.params, m)
      BY <1>9, <2>2 DEF HasTo
    <3> QED BY <1>5, <1>10, <2>2, <3>1 DEF FitsOneOf
  <2> QED BY <1>6, <2>1, <2>2
<1>12. \A t \in B : \E k \in 1..(q + 1) : OwnFits(d.conditions[k], t, d.params, m + l)
  <2> SUFFICES ASSUME NEW t \in B PROVE \E k \in 1..(q + 1) : OwnFits(d.conditions[k], t, d.params, m + l)
    OBVIOUS
  <2>1. CASE t \in A
    BY <1>5, <1>7, <1>9, <1>10, <2>1 DEF HasTo
  <2>2. CASE t \notin A
    BY <1>5, <1>7, <2>2
  <2> QED BY <2>1, <2>2
<1>13. \A e \in G : \E k \in 1..(q + 1) : FilterFits(d.conditions[k], e, d.params, m + l)
  <2> SUFFICES ASSUME NEW e \in G PROVE \E k \in 1..(q + 1) : FilterFits(d.conditions[k], e, d.params, m + l)
    OBVIOUS
  <2>1. CASE e \in F
    BY <1>5, <1>7, <1>9, <1>10, <2>1 DEF HasTo
  <2>2. CASE e \notin F
    BY <1>5, <1>7, <2>2
  <2> QED BY <2>1, <2>2
<1>14. PICK n \in Nat : n = m + l
  OBVIOUS
<1> QED BY <1>5, <1>11, <1>12, <1>13, <1>14 DEF Has, HasTo

\* r is p and then v.
Extends(m, p, v, r) == r \in [1..(m + 1) -> Nat] /\ r[m + 1] = v /\ \A i \in 1..m : r[i] = p[i]

LEMMA Appending ==
    ASSUME NEW m \in Nat, NEW p \in [1..m -> Nat], NEW v \in Nat
    PROVE  Extends(m, p, v, Append(p, v))
<1>1. p \in Seq(Nat) /\ Len(p) = m
  OBVIOUS
<1>2. PICK r : r = Append(p, v)
  OBVIOUS
<1>3. r \in Seq(Nat) /\ Len(r) = m + 1 /\ r[m + 1] = v /\ \A i \in 1..m : r[i] = p[i]
  BY <1>1, <1>2, AppendProperties
<1>4. r \in [1..(m + 1) -> Nat]
  <2>1. PICK k \in Nat : k = m + 1
    OBVIOUS
  <2>2. r \in [1..k -> Nat]
    BY <1>3, <2>1
  <2> QED BY <2>1, <2>2
<1> QED BY <1>2, <1>3, <1>4 DEF Extends

LEMMA WithHas ==
    ASSUME NEW c, NEW A, NEW F, \A e \in F : IsFilter(e), Has(c, A, F), NEW field, NEW op, NEW value \in Nat \ {0}
    PROVE  Has(With(c, field, op, value), A \cup {[field |-> field, op |-> op, value |-> value]}, F)
<1>1. PICK m \in Nat : NumberedTo(c, m)
  BY DEF Has
<1>2. PICK d : d = With(c, field, op, value)
  OBVIOUS
<1>3. PICK sql : sql = <<[kind |-> "is", field |-> field, op |-> op, params |-> <<m + 1>>]>>
  OBVIOUS
<1>4. /\ d.conditions = Append(c.conditions, sql) /\ d.names = Append(c.names, m + 1) /\ d.last = m + 1
      /\ d.params = Append(c.params, value)
  BY <1>1, <1>2, <1>3 DEF With, NumberedTo
<1>5. c.params \in [1..m -> Nat] /\ c.names \in [1..m -> Nat] /\ \A i \in 1..m : c.names[i] = i
  BY <1>1 DEF NumberedTo
<1>6. Extends(m, c.params, value, d.params) /\ Extends(m, c.names, m + 1, d.names)
  <2>1. value \in Nat /\ m + 1 \in Nat
    OBVIOUS
  <2>2. Extends(m, c.params, value, d.params)
    BY <1>4, <1>5, <2>1, Appending
  <2>3. PICK n \in Nat : n = m + 1
    BY <2>1
  <2>4. Extends(m, c.names, n, Append(c.names, n))
    BY <1>5, Appending
  <2> QED BY <1>4, <2>2, <2>3, <2>4
<1>7. \A i \in 1..(m + 1) : i = m + 1 \/ i \in 1..m
  OBVIOUS
<1>8. d.params \in [1..(m + 1) -> Nat] /\ d.params[m + 1] = value /\ \A i \in 1..m : d.params[i] = c.params[i]
  BY <1>6 DEF Extends
<1>9. d.names = [i \in 1..(m + 1) |-> i]
  <2>1. d.names \in [1..(m + 1) -> Nat] /\ d.names[m + 1] = m + 1 /\ \A i \in 1..m : d.names[i] = c.names[i]
    BY <1>6 DEF Extends
  <2>2. \A i \in 1..(m + 1) : d.names[i] = i
    BY <1>5, <1>7, <2>1
  <2>3. d.names = [i \in 1..(m + 1) |-> d.names[i]]
    BY <2>1
  <2> QED BY <2>2, <2>3
<1>10. NumberedTo(d, m + 1)
  BY <1>4, <1>8, <1>9 DEF NumberedTo
<1>11. PICK t : t = [field |-> field, op |-> op, value |-> value]
  OBVIOUS
<1>12. OwnFits(sql, t, d.params, m + 1)
  <2>1. m + 1 \in 1..(m + 1) /\ t.field = field /\ t.op = op /\ t.value = value
    BY <1>11
  <2> QED BY <1>3, <1>8, <2>1 DEF OwnFits
<1>13. \E u : A \cup {t} = A \cup {u} /\ OwnFits(sql, u, d.params, m + 1)
  BY <1>12
<1>14. Has(d, A \cup {t}, F)
  <2>1. PICK B : B = A \cup {t}
    OBVIOUS
  <2>2. PICK l \in Nat : l = 1
    OBVIOUS
  <2>3. A \subseteq B /\ F \subseteq F
    BY <2>1
  <2> QED BY <1>1, <1>4, <1>8, <1>10, <1>13, <2>1, <2>2, <2>3, OneMore
<1> QED BY <1>2, <1>11, <1>14

LEMMA PerhapsHas ==
    ASSUME NEW c, NEW A, NEW F, \A e \in F : IsFilter(e), Has(c, A, F), NEW field, NEW op, NEW value \in Nat
    PROVE  Has(Perhaps(c, field, op, value), A \cup Wanted(field, op, value), F)
<1>1. CASE value = 0
  <2>1. A \cup Wanted(field, op, value) = A
    BY <1>1 DEF Wanted
  <2> QED BY <1>1, <2>1 DEF Perhaps
<1>2. CASE value # 0
  BY <1>2, WithHas DEF Perhaps, Wanted
<1> QED BY <1>1, <1>2

LEMMA FilterHas ==
    ASSUME NEW c, NEW A, Has(c, A, {}), NEW expr, IsFilter(expr), NEW x, x = to_sql(expr, c.last),
           NEW d, d = [conditions |-> Append(c.conditions, x.sql), names |-> c.names \o x.names,
                       last |-> x.offset, params |-> c.params \o x.params]
    PROVE  Has(d, A, {expr})
<1>1. PICK m \in Nat : NumberedTo(c, m)
  BY DEF Has
<1>2. c.last = m /\ c.params \in [1..m -> Nat] /\ c.names = [i \in 1..m |-> i]
  BY <1>1 DEF NumberedTo
<1>3. CompiledTo(expr, Len(expr), m, x)
  BY <1>2, SqlFits
<1>4. PICK l \in Nat : x.offset = m + l /\ x.params \in [1..l -> Nat] /\ x.names = [i \in 1..l |-> m + i]
  BY <1>3 DEF CompiledTo, Counted
<1>5. PICK sql : sql = x.sql
  OBVIOUS
<1>6. /\ d.conditions = Append(c.conditions, sql) /\ d.names = c.names \o x.names /\ d.last = m + l
      /\ d.params = c.params \o x.params
  BY <1>4, <1>5
<1>7. /\ d.params \in [1..(m + l) -> Nat] /\ \A i \in 1..m : d.params[i] = c.params[i]
      /\ \A i \in 1..l : d.params[m + i] = x.params[i]
  <2>1. Follows(m, l, c.params, x.params, d.params)
    BY <1>2, <1>4, <1>6, Joining
  <2> QED BY <2>1 DEF Follows
<1>8. d.names = [i \in 1..(m + l) |-> i]
  <2>1. c.names \in [1..m -> Nat] /\ x.names \in [1..l -> Nat]
    BY <1>2, <1>4
  <2>2. Follows(m, l, c.names, x.names, d.names)
    BY <1>6, <2>1, Joining
  <2>3. /\ d.names \in [1..(m + l) -> Nat] /\ \A i \in 1..m : d.names[i] = i
        /\ \A i \in 1..l : d.names[m + i] = m + i
    BY <1>2, <1>4, <2>2 DEF Follows
  <2>4. ASSUME NEW i \in 1..(m + l) PROVE d.names[i] = i
    <3>1. CASE i <= m
      <4>1. i \in 1..m
        BY <3>1
      <4> QED BY <2>3, <4>1
    <3>2. CASE ~(i <= m)
      <4>1. i - m \in 1..l /\ m + (i - m) = i
        BY <3>2
      <4> QED BY <2>3, <4>1
    <3> QED BY <3>1, <3>2
  <2>5. d.names = [i \in 1..(m + l) |-> d.names[i]]
    BY <2>3
  <2> QED BY <2>4, <2>5
<1>9. NumberedTo(d, m + l)
  BY <1>6, <1>7, <1>8 DEF NumberedTo
<1>10. FilterFits(sql, expr, d.params, m + l)
  <2>1. Len(sql) = Len(expr)
    BY <1>3, <1>5 DEF CompiledTo
  <2>2. ASSUME NEW n \in 1..Len(expr) PROVE NodeFits(expr[n], sql[n], 0, m + l, d.params)
    <3>1. NodeFits(expr[n], sql[n], m, m + l, x.params)
      BY <1>3, <1>4, <1>5 DEF CompiledTo, NodesFit
    <3>2. CASE expr[n].kind = "is"
      <4>1. PICK values \in Seq(Nat) : values = expr[n].values
        BY <3>2, LeafIs
      <4>2. PICK j \in Nat : j = Len(values)
        OBVIOUS
      <4>3. PICK b \in Nat : /\ sql[n] = condition_to_sql(expr[n], b) /\ m <= b /\ b + j <= m + l
                            /\ \A i \in 1..j : x.params[(b - m) + i] = values[i]
        BY <3>1, <3>2, <4>1, <4>2 DEF NodeFits
      <4>4. ASSUME NEW i \in 1..j PROVE d.params[(b - 0) + i] = values[i]
        <5>1. (b - m) + i \in 1..l /\ m + ((b - m) + i) = (b - 0) + i
          BY <4>3
        <5>2. d.params[m + ((b - m) + i)] = x.params[(b - m) + i]
          BY <1>7, <5>1, ZenonT(40)
        <5> QED BY <4>3, <5>1, <5>2
      <4>5. 0 <= b
        OBVIOUS
      <4> QED BY <3>2, <4>1, <4>2, <4>3, <4>4, <4>5 DEF NodeFits
    <3>3. CASE expr[n].kind # "is"
      BY <3>1, <3>3 DEF NodeFits
    <3> QED BY <3>2, <3>3
  <2> QED BY <2>1, <2>2 DEF FilterFits
<1>11. PICK G : G = {expr}
  OBVIOUS
<1>12. PICK F : F = {}
  OBVIOUS
<1>13. \E e : G = F \cup {e} /\ FilterFits(sql, e, d.params, m + l)
  <2>1. G = F \cup {expr}
    BY <1>11, <1>12
  <2> QED BY <1>10, <2>1
<1>14. Has(d, A, G)
  <2>1. A \subseteq A /\ F \subseteq G /\ (\A e \in F : IsFilter(e)) /\ (\A e \in G : IsFilter(e)) /\ Has(c, A, F)
    BY <1>11, <1>12
  <2>2. d.conditions = Append(c.conditions, sql) /\ \A i \in 1..m : d.params[i] = c.params[i]
    BY <1>6, <1>7
  <2>3. \/ (A = A /\ \E e : G = F \cup {e} /\ FilterFits(sql, e, d.params, m + l))
        \/ (G = F /\ \E t : A = A \cup {t} /\ OwnFits(sql, t, d.params, m + l))
    BY <1>13
  <2> QED BY ONLY <1>1, <1>9, <2>1, <2>2, <2>3, OneMore, m \in Nat, l \in Nat
<1> QED BY <1>11, <1>14

LEMMA NothingHas == Has([conditions |-> <<>>, names |-> <<>>, last |-> 0, params |-> <<>>], {}, {})
<1>1. PICK c : c = [conditions |-> <<>>, names |-> <<>>, last |-> 0, params |-> <<>>]
  OBVIOUS
<1>2. c.conditions = <<>> /\ c.names = <<>> /\ c.last = 0 /\ c.params = <<>>
  BY <1>1
<1>3. NumberedTo(c, 0)
  <2>1. <<>> \in [1..0 -> Nat] /\ <<>> = [i \in 1..0 |-> i]
    OBVIOUS
  <2> QED BY <1>2, <2>1 DEF NumberedTo
<1>4. HasTo(c, {}, {}, 0, Len(c.conditions))
  <2>1. Len(c.conditions) = 0 /\ 1..0 = {}
    BY <1>2
  <2> QED BY <2>1 DEF HasTo
<1>5. c.conditions \in Seq({})
  BY <1>2
<1> QED BY <1>1, <1>3, <1>4, <1>5 DEF Has

\* What a call asks for are conditions on columns of numbers.
LEMMA AskedIsOwn ==
    ASSUME NEW r, Asks(r), NEW t \in AskedAt(r, "done")
    PROVE  Own(t)
<1>1. Owner \in Nat \ {0} /\ Words \in Nat \ {0}
  BY DEF Owner, Words
<1>2. r.scope.agent \in Nat /\ r.scope.run \in Nat /\ r.scope.app \in Nat /\ r.importance \in Nat /\ r.since \in Nat
  BY FilterAssumption DEF Asks
<1>3. {"user_id", "agent_id", "run_id", "app_id", "importance", "created_at", "words"}
          \subseteq (PlainColumns \cup PathNames \cup {"words"}) \ {"categories"}
  BY DEF PlainColumns, PathNames
<1>4. \A field, op, value : t \in Wanted(field, op, value) => t.field = field /\ t.op = op /\ t.value = value /\ value # 0
  BY DEF Wanted
<1>5. t \in (OfOwner(r) \cup OfScope(r)) \cup OfRest(r)
  BY DEF AskedAt
<1>6. CASE t \in OfOwner(r)
  <2>1. t \in Wanted("user_id", "eq", Owner) \/ t \in Wanted("words", "eq", IF r.query = "words" THEN Words ELSE 0)
    BY <1>6 DEF OfOwner
  <2> QED BY <1>1, <1>3, <1>4, <2>1 DEF Own
<1>7. CASE t \in OfScope(r)
  <2>1. \/ t \in Wanted("agent_id", IF r.query = "list" THEN "eq" ELSE "global", r.scope.agent)
        \/ t \in Wanted("run_id", "eq", r.scope.run)
        \/ t \in Wanted("app_id", "eq", r.scope.app)
    BY <1>7 DEF OfScope
  <2> QED BY <1>2, <1>3, <1>4, <2>1 DEF Own
<1>8. CASE t \in OfRest(r)
  <2>1. t \in Wanted("importance", "gte", r.importance) \/ t \in Wanted("created_at", "gte", r.since)
    BY <1>8 DEF OfRest
  <2> QED BY <1>2, <1>3, <1>4, <2>1 DEF Own
<1> QED BY <1>5, <1>6, <1>7, <1>8

\* The conditions hold of a row together just when the row has what was asked for.
LEMMA ClauseIs ==
    ASSUME NEW row, RowIsWhole(row), NEW c, NEW A, \A t \in A : Own(t), NEW expr, IsFilter(expr), Has(c, A, {expr})
    PROVE  (\A k \in DOMAIN c.conditions : TruthOf(row, c.conditions[k], c.names, c.params) = "true")
               <=> ((\A t \in A : OwnSays(t, row)) /\ Meant(WithoutCase(expr), row))
<1>1. PICK m \in Nat : NumberedTo(c, m) /\ HasTo(c, A, {expr}, m, Len(c.conditions))
  BY DEF Has
<1>2. PICK q : q = Len(c.conditions) /\ DOMAIN c.conditions = 1..q
  BY DEF Has
<1>3. c.params \in [1..m -> Nat] /\ c.names = [i \in 1..m |-> i]
  BY <1>1 DEF NumberedTo
<1> DEFINE Holds(k) == TruthOf(row, c.conditions[k], c.names, c.params) = "true"
<1>4. \A k \in 1..q, t \in A : OwnFits(c.conditions[k], t, c.params, m) => (Holds(k) <=> OwnSays(t, row))
  BY <1>3, OwnIs
<1>5. \A k \in 1..q : FilterFits(c.conditions[k], expr, c.params, m) => (Holds(k) <=> Meant(WithoutCase(expr), row))
  BY <1>3, FilterIs, SMTT(30)
<1>6. HasTo(c, A, {expr}, m, q)
  BY <1>1, <1>2
<1> HIDE DEF Holds
<1>7. ASSUME \A k \in 1..q : Holds(k) PROVE (\A t \in A : OwnSays(t, row)) /\ Meant(WithoutCase(expr), row)
  BY <1>4, <1>5, <1>6, <1>7 DEF HasTo
<1>8. ASSUME \A t \in A : OwnSays(t, row), Meant(WithoutCase(expr), row), NEW k \in 1..q PROVE Holds(k)
  <2>1. FitsOneOf(c.conditions[k], A, {expr}, c.params, m)
    BY <1>6 DEF HasTo
  <2> QED BY <1>4, <1>5, <1>8, <2>1 DEF FitsOneOf
<1> QED BY <1>2, <1>7, <1>8 DEF Holds

LEMMA RunIs ==
    ASSUME NEW r, Asks(r), NEW c, Has(c, AskedAt(r, "run"), {r.filter})
    PROVE  /\ Cardinality({c.names[i] : i \in DOMAIN c.names}) = Len(c.params)
           /\ {i \in DOMAIN MemoryRows :
                  \A k \in DOMAIN c.conditions :
                     TruthOf(MemoryRows[i], c.conditions[k], c.names, c.params) = "true"} = RowsMeant(r)
<1>1. PICK A : A = AskedAt(r, "done") /\ A = AskedAt(r, "run")
  BY DEF AskedAt
<1>2. \A t \in A : Own(t)
  BY <1>1, AskedIsOwn
<1>3. Cardinality({c.names[i] : i \in DOMAIN c.names}) = Len(c.params)
  <2>1. PICK m \in Nat : NumberedTo(c, m)
    BY DEF Has
  <2>2. {c.names[i] : i \in DOMAIN c.names} = 1..m
    BY <2>1 DEF NumberedTo
  <2>3. Len(c.params) = m
    BY <2>1 DEF NumberedTo
  <2>4. Cardinality(1..m) = m
    BY FS_Interval
  <2> QED BY <2>2, <2>3, <2>4
<1>4. IsFilter(r.filter)
  BY DEF Asks
<1>5. ASSUME NEW i \in DOMAIN MemoryRows
      PROVE  (\A k \in DOMAIN c.conditions : TruthOf(MemoryRows[i], c.conditions[k], c.names, c.params) = "true")
                 <=> ((\A t \in A : OwnSays(t, MemoryRows[i])) /\ Meant(WithoutCase(r.filter), MemoryRows[i]))
  <2>1. RowIsWhole(MemoryRows[i])
    BY FilterAssumption DEF RowIsWhole
  <2> QED BY <1>1, <1>2, <1>4, <2>1, ClauseIs
<1> QED BY <1>1, <1>3, <1>5 DEF RowsMeant

\* What a call asks for, one condition after the other, is what the property says of its rows.
LEMMA AskedSays ==
    ASSUME NEW r, Asks(r), NEW row
    PROVE  (\A t \in AskedAt(r, "done") : OwnSays(t, row)) <=>
              (/\ row.user_id = Owner /\ (r.query = "words" => row.words = Words)
               /\ r.scope.agent # 0 => row.agent_id = r.scope.agent \/ (r.query # "list" /\ row.agent_id = 0)
               /\ r.scope.run # 0 => row.run_id = r.scope.run
               /\ r.scope.app # 0 => row.app_id = r.scope.app
               /\ r.importance # 0 => row.importance >= r.importance
               /\ r.since # 0 => row.created_at >= r.since)
<1>1. \A field, op, value :
          (\A t \in Wanted(field, op, value) : OwnSays(t, row))
              <=> (value # 0 => OwnSays([field |-> field, op |-> op, value |-> value], row))
  BY DEF Wanted
<1>2. \A field, value :
          /\ OwnSays([field |-> field, op |-> "eq", value |-> value], row) <=> row[field] = value
          /\ OwnSays([field |-> field, op |-> "global", value |-> value], row) <=> (row[field] = value \/ row[field] = 0)
          /\ OwnSays([field |-> field, op |-> "gte", value |-> value], row) <=> row[field] >= value
  BY DEF OwnSays
<1> DEFINE All(A) == \A t \in A : OwnSays(t, row)
<1>3. \A A, B : All(A \cup B) <=> (All(A) /\ All(B))
  OBVIOUS
<1>4. \A field, value :
          /\ All(Wanted(field, "eq", value)) <=> (value # 0 => row[field] = value)
          /\ All(Wanted(field, "global", value)) <=> (value # 0 => (row[field] = value \/ row[field] = 0))
          /\ All(Wanted(field, "gte", value)) <=> (value # 0 => row[field] >= value)
  BY <1>1, <1>2
<1> HIDE DEF All
<1>5. All(OfOwner(r)) <=> (row.user_id = Owner /\ (r.query = "words" => row.words = Words))
  <2>1. Owner # 0 /\ Words # 0
    BY DEF Owner, Words
  <2>2. All(Wanted("user_id", "eq", Owner)) <=> row.user_id = Owner
    <3>1. All(Wanted("user_id", "eq", Owner)) <=> (Owner # 0 => row["user_id"] = Owner)
      BY <1>4
    <3> QED BY <2>1, <3>1
  <2>3. PICK w : w = IF r.query = "words" THEN Words ELSE 0
    OBVIOUS
  <2>4. All(Wanted("words", "eq", w)) <=> (w # 0 => row["words"] = w)
    BY <1>4
  <2>5. All(Wanted("words", "eq", w)) <=> (r.query = "words" => row.words = Words)
    BY <2>1, <2>3, <2>4
  <2>6. All(OfOwner(r)) <=> (All(Wanted("user_id", "eq", Owner)) /\ All(Wanted("words", "eq", w)))
    BY <1>3, <2>3 DEF OfOwner
  <2> QED BY <2>2, <2>5, <2>6
<1>6. All(OfScope(r)) <=>
          (/\ r.scope.agent # 0 => row.agent_id = r.scope.agent \/ (r.query # "list" /\ row.agent_id = 0)
           /\ r.scope.run # 0 => row.run_id = r.scope.run
           /\ r.scope.app # 0 => row.app_id = r.scope.app)
  <2>1. PICK op : op = IF r.query = "list" THEN "eq" ELSE "global"
    OBVIOUS
  <2>2. All(Wanted("agent_id", op, r.scope.agent)) <=>
            (r.scope.agent # 0 => row.agent_id = r.scope.agent \/ (r.query # "list" /\ row.agent_id = 0))
    <3>1. CASE r.query = "list"
      <4>1. All(Wanted("agent_id", "eq", r.scope.agent)) <=> (r.scope.agent # 0 => row["agent_id"] = r.scope.agent)
        BY <1>4
      <4> QED BY <2>1, <3>1, <4>1
    <3>2. CASE r.query # "list"
      <4>1. All(Wanted("agent_id", "global", r.scope.agent)) <=>
                (r.scope.agent # 0 => (row["agent_id"] = r.scope.agent \/ row["agent_id"] = 0))
        BY <1>4
      <4> QED BY <2>1, <3>2, <4>1
    <3> QED BY <3>1, <3>2
  <2>3. All(Wanted("run_id", "eq", r.scope.run)) <=> (r.scope.run # 0 => row["run_id"] = r.scope.run)
    BY <1>4
  <2>4. All(Wanted("app_id", "eq", r.scope.app)) <=> (r.scope.app # 0 => row["app_id"] = r.scope.app)
    BY <1>4
  <2>5. All(OfScope(r)) <=>
            (/\ All(Wanted("agent_id", op, r.scope.agent)) /\ All(Wanted("run_id", "eq", r.scope.run))
             /\ All(Wanted("app_id", "eq", r.scope.app)))
    <3>1. OfScope(r) = (Wanted("agent_id", op, r.scope.agent) \cup Wanted("run_id", "eq", r.scope.run))
                           \cup Wanted("app_id", "eq", r.scope.app)
      BY <2>1 DEF OfScope
    <3>2. \A A, B, C : All((A \cup B) \cup C) <=> (All(A) /\ All(B) /\ All(C))
      BY <1>3
    <3> QED BY <3>1, <3>2
  <2>6. All(OfScope(r)) <=>
            (/\ (r.scope.agent # 0 => row.agent_id = r.scope.agent \/ (r.query # "list" /\ row.agent_id = 0))
             /\ (r.scope.run # 0 => row["run_id"] = r.scope.run)
             /\ (r.scope.app # 0 => row["app_id"] = r.scope.app))
    BY <2>2, <2>3, <2>4, <2>5
  <2> QED BY <2>6
<1>7. All(OfRest(r)) <=>
          (/\ r.importance # 0 => row.importance >= r.importance
           /\ r.since # 0 => row.created_at >= r.since)
  BY <1>3, <1>4 DEF OfRest
<1>8. AskedAt(r, "done") = (OfOwner(r) \cup OfScope(r)) \cup OfRest(r)
  BY DEF AskedAt
<1>9. All(AskedAt(r, "done")) <=> (All(OfOwner(r)) /\ All(OfScope(r)) /\ All(OfRest(r)))
  BY <1>3, <1>8
<1> QED BY <1>5, <1>6, <1>7, <1>9 DEF All

LEMMA FilterBegins == FilterInit => FilterInv
<1> SUFFICES ASSUME FilterInit PROVE FilterInv
  OBVIOUS
<1>1. request.query \in {"list", "scan", "words"} /\ request.scope \in CallScopes /\ request.filter \in Expressions
      /\ request.importance \in Nat /\ request.since \in Nat
  BY DEF FilterInit
<1>2. Asks(request)
  BY <1>1, FilterAssumption DEF Asks
<1>3. AskedAt(request, "owner") = {} /\ ~Filtered("owner")
  BY DEF AskedAt, Filtered
<1>4. Has(clause, {}, {})
  BY NothingHas DEF FilterInit
<1> QED BY <1>2, <1>3, <1>4 DEF FilterInit, FilterInv, FilterHolds

LEMMA FilterGoesOn == FilterInv /\ [FilterNext]_filterVars => FilterInv'
<1> SUFFICES ASSUME FilterInv, [FilterNext]_filterVars PROVE FilterHolds(request', step', clause', answer')
  BY DEF FilterInv
<1>1. /\ Asks(request) /\ step \in {"owner", "scope", "filter", "rest", "run", "done"}
      /\ Has(clause, AskedAt(request, step), IF Filtered(step) THEN {request.filter} ELSE {})
      /\ step = "done" => answer = RowsMeant(request)
  BY DEF FilterInv, FilterHolds
<1>2. IsFilter(request.filter) /\ \A e \in {request.filter} : IsFilter(e)
  BY <1>1 DEF Asks
<1>3. /\ request.scope.agent \in Nat /\ request.scope.run \in Nat /\ request.scope.app \in Nat
      /\ request.importance \in Nat /\ request.since \in Nat
  BY <1>1, FilterAssumption DEF Asks
<1>4. CASE BuildOwner
  <2>1. Has(clause, {}, {})
    BY <1>1, <1>4 DEF BuildOwner, AskedAt, Filtered
  <2>2. Owner \in Nat \ {0} /\ Words \in Nat \ {0}
    BY DEF Owner, Words
  <2>3. PICK u : u = [field |-> "user_id", op |-> "eq", value |-> Owner]
    OBVIOUS
  <2>4. PICK w : w = [field |-> "words", op |-> "eq", value |-> Words]
    OBVIOUS
  <2>5. Has(clause', AskedAt(request, "scope"), {})
    <3>1. CASE request.query = "words"
      <4>1. PICK c : c = With(clause, "words", "eq", Words)
        OBVIOUS
      <4>2. Has(c, {} \cup {w}, {})
        BY <2>1, <2>2, <2>4, <4>1, WithHas
      <4>3. Has(With(c, "user_id", "eq", Owner), ({} \cup {w}) \cup {u}, {})
        BY <2>2, <2>3, <4>2, WithHas
      <4>4. AskedAt(request, "scope") = ({} \cup {w}) \cup {u}
        BY <2>2, <2>3, <2>4, <3>1 DEF AskedAt, OfOwner, Wanted
      <4>5. clause' = With(c, "user_id", "eq", Owner)
        BY <1>4, <3>1, <4>1 DEF BuildOwner
      <4> QED BY <4>3, <4>4, <4>5
    <3>2. CASE request.query # "words"
      <4>1. Has(With(clause, "user_id", "eq", Owner), {} \cup {u}, {})
        BY <2>1, <2>2, <2>3, WithHas
      <4>2. AskedAt(request, "scope") = {} \cup {u}
        BY <2>2, <2>3, <3>2 DEF AskedAt, OfOwner, Wanted
      <4>3. clause' = With(clause, "user_id", "eq", Owner)
        BY <1>4, <3>2 DEF BuildOwner
      <4> QED BY <4>1, <4>2, <4>3
    <3> QED BY <3>1, <3>2
  <2>6. request' = request /\ step' = "scope"
    BY <1>4 DEF BuildOwner, FilterGoes
  <2>7. ~Filtered("scope")
    BY DEF Filtered
  <2> QED BY <1>1, <2>5, <2>6, <2>7 DEF FilterHolds
<1>5. CASE BuildScope
  <2>1. Has(clause, OfOwner(request), {})
    BY <1>1, <1>5 DEF BuildScope, AskedAt, Filtered
  <2>2. PICK op : op = IF request.query = "list" THEN "eq" ELSE "global"
    OBVIOUS
  <2>3. PICK c : c = Perhaps(clause, "agent_id", op, request.scope.agent)
    OBVIOUS
  <2>4. PICK d : d = Perhaps(c, "run_id", "eq", request.scope.run)
    OBVIOUS
  <2>5. PICK A : A = Wanted("agent_id", op, request.scope.agent)
    OBVIOUS
  <2>6. PICK B : B = Wanted("run_id", "eq", request.scope.run)
    OBVIOUS
  <2>7. Has(c, OfOwner(request) \cup A, {})
    BY <1>3, <2>1, <2>3, <2>5, PerhapsHas
  <2>8. Has(d, (OfOwner(request) \cup A) \cup B, {})
    BY <1>3, <2>4, <2>6, <2>7, PerhapsHas
  <2>9. Has(Perhaps(d, "app_id", "eq", request.scope.app),
            ((OfOwner(request) \cup A) \cup B) \cup Wanted("app_id", "eq", request.scope.app), {})
    BY <1>3, <2>8, PerhapsHas
  <2>10. clause' = Perhaps(d, "app_id", "eq", request.scope.app)
    BY <1>5, <2>2, <2>3, <2>4 DEF BuildScope
  <2>11. AskedAt(request, "filter") = ((OfOwner(request) \cup A) \cup B) \cup Wanted("app_id", "eq", request.scope.app)
    BY <2>2, <2>5, <2>6 DEF AskedAt, OfScope
  <2>12. request' = request /\ step' = "filter"
    BY <1>5 DEF BuildScope, FilterGoes
  <2>13. ~Filtered("filter")
    BY DEF Filtered
  <2> QED BY <1>1, <2>9, <2>10, <2>11, <2>12, <2>13 DEF FilterHolds
<1>6. CASE BuildFilter
  <2>1. Has(clause, AskedAt(request, "filter"), {})
    BY <1>1, <1>6 DEF BuildFilter, Filtered
  <2>2. PICK x : x = to_sql(request.filter, clause.last)
    OBVIOUS
  <2>3. clause' = [conditions |-> Append(clause.conditions, x.sql), names |-> clause.names \o x.names,
                   last |-> x.offset, params |-> clause.params \o x.params]
    BY <1>6, <2>2 DEF BuildFilter
  <2>4. Has(clause', AskedAt(request, "filter"), {request.filter})
    BY <1>2, <2>1, <2>2, <2>3, FilterHas
  <2>5. AskedAt(request, "rest") = AskedAt(request, "filter") /\ Filtered("rest")
    BY DEF AskedAt, Filtered
  <2>6. request' = request /\ step' = "rest"
    BY <1>6 DEF BuildFilter, FilterGoes
  <2> QED BY <1>1, <2>4, <2>5, <2>6 DEF FilterHolds
<1>7. CASE BuildRest
  <2>1. PICK A : A = OfOwner(request) \cup OfScope(request)
    OBVIOUS
  <2>2. PICK F : F = {request.filter}
    OBVIOUS
  <2>3. Has(clause, A, F)
    BY <1>1, <1>7, <2>1, <2>2 DEF BuildRest, AskedAt, Filtered
  <2>4. PICK c : c = Perhaps(clause, "importance", "gte", request.importance)
    OBVIOUS
  <2>5. PICK B : B = Wanted("importance", "gte", request.importance)
    OBVIOUS
  <2>6. Has(c, A \cup B, F)
    BY <1>2, <1>3, <2>2, <2>3, <2>4, <2>5, PerhapsHas
  <2>7. Has(Perhaps(c, "created_at", "gte", request.since), (A \cup B) \cup Wanted("created_at", "gte", request.since), F)
    BY <1>2, <1>3, <2>2, <2>6, PerhapsHas
  <2>8. clause' = Perhaps(c, "created_at", "gte", request.since)
    BY <1>7, <2>4 DEF BuildRest
  <2>9. AskedAt(request, "run") = (A \cup B) \cup Wanted("created_at", "gte", request.since)
    BY <2>1, <2>5 DEF AskedAt, OfRest
  <2>10. request' = request /\ step' = "run" /\ Filtered("run")
    BY <1>7 DEF BuildRest, FilterGoes, Filtered
  <2> QED BY <1>1, <2>2, <2>7, <2>8, <2>9, <2>10 DEF FilterHolds
<1>8. CASE RunQuery
  <2>1. Has(clause, AskedAt(request, "run"), {request.filter})
    BY <1>1, <1>8 DEF RunQuery, Filtered
  <2>2. answer' = RowsMeant(request)
    BY <1>1, <1>8, <2>1, RunIs DEF RunQuery
  <2>3. AskedAt(request, "done") = AskedAt(request, "run") /\ Filtered("done")
    BY DEF AskedAt, Filtered
  <2>4. request' = request /\ clause' = clause /\ step' = "done"
    BY <1>8 DEF RunQuery
  <2> QED BY <1>1, <2>1, <2>2, <2>3, <2>4 DEF FilterHolds
<1>9. CASE UNCHANGED filterVars
  BY <1>1, <1>9 DEF filterVars, FilterHolds
<1> QED BY <1>4, <1>5, <1>6, <1>7, <1>8, <1>9 DEF FilterNext

LEMMA FilterHoldsMeans == FilterInv => FilterMeansWhatItSays
<1> SUFFICES ASSUME FilterInv, step = "done" PROVE FilterMeansWhatItSays
  BY DEF FilterMeansWhatItSays
<1>1. Asks(request) /\ answer = RowsMeant(request)
  BY DEF FilterInv, FilterHolds
<1> QED BY <1>1, AskedSays DEF FilterMeansWhatItSays, RowsMeant

\* However many parameters the parts of a filter take, and whatever options stand before and after it, each
\* value meets its own condition: the numbers are counted on through the clause and through the filter, so
\* that the n-th name is bound to the n-th value, and three-valued logic without NOT agrees with plain logic.
THEOREM FiltersMeanWhatTheySay == FilterSpec => []FilterMeansWhatItSays
<1> QED BY FilterBegins, FilterGoesOn, FilterHoldsMeans, PTL DEF FilterSpec

--------------------------------------------------------------------------------
(* The calendar *)

\* The number of 1 March of a year, that of 1 January, and the days of a year before a month.
YearStart(y) == (365 * y) + (y \div 4) - (y \div 100) + (y \div 400)
FirstDay(y) == YearStart(y - 1) + 306
LeapDay(y) == IF Leap(y) THEN 1 ELSE 0
Elapsed(y, m) ==
    CASE m = 1 -> 0 [] m = 2 -> 31 [] m = 3 -> 59 + LeapDay(y) [] m = 4 -> 90 + LeapDay(y)
      [] m = 5 -> 120 + LeapDay(y) [] m = 6 -> 151 + LeapDay(y) [] m = 7 -> 181 + LeapDay(y)
      [] m = 8 -> 212 + LeapDay(y) [] m = 9 -> 243 + LeapDay(y) [] m = 10 -> 273 + LeapDay(y)
      [] m = 11 -> 304 + LeapDay(y) [] OTHER -> 334 + LeapDay(y)

LEMMA YearsAbut ==
    ASSUME NEW y \in Int
    PROVE  /\ YearStart(y) \in Int /\ FirstDay(y) \in Int /\ LeapDay(y) \in {0, 1}
           /\ FirstDay(y + 1) = FirstDay(y) + 365 + LeapDay(y)
           /\ YearStart(y) = FirstDay(y) + 59 + LeapDay(y)
  BY SMTT(60) DEF YearStart, FirstDay, LeapDay, Leap

LEMMA YearsGrow ==
    ASSUME NEW y \in Int, NEW z \in Int, y <= z
    PROVE  FirstDay(z) >= FirstDay(y) + (365 * (z - y))
  BY SMTT(60) DEF YearStart, FirstDay

LEMMA MonthsAbut ==
    ASSUME NEW y \in Int
    PROVE  /\ \A m \in 1..12 : Elapsed(y, m) \in Nat /\ MonthDays(y, m) \in 28..31
           /\ \A m \in 1..11 : Elapsed(y, m + 1) = Elapsed(y, m) + MonthDays(y, m)
           /\ Elapsed(y, 12) + MonthDays(y, 12) = 365 + LeapDay(y)
           /\ \A m, n \in 1..12 : m < n => Elapsed(y, m) + MonthDays(y, m) <= Elapsed(y, n)
  BY SMTT(60) DEF Elapsed, MonthDays, LeapDay

LEMMA MonthIs ==
    ASSUME NEW y \in Int, NEW m \in 1..12
    PROVE  Elapsed(y, m) \in Nat /\ MonthDays(y, m) \in 28..31
  BY MonthsAbut

LEMMA MonthsPass ==
    ASSUME NEW y \in Int, NEW m \in 1..12, NEW n \in 1..12, m < n
    PROVE  Elapsed(y, m) + MonthDays(y, m) <= Elapsed(y, n)
  BY MonthsAbut

LEMMA DayOfYear ==
    ASSUME NEW x \in AnyDate
    PROVE  DayNumber(x) = FirstDay(x.y) + Elapsed(x.y, x.m) + x.d - 1
<1>1. PICK y \in Int, m \in 1..12, d \in 1..31 : x.y = y /\ x.m = m /\ x.d = d
  BY DEF AnyDate
<1>2. DayNumber(x) = YearStart(IF m <= 2 THEN y - 1 ELSE y) + (((153 * ((m + 9) % 12)) + 2) \div 5) + d - 1
  BY <1>1 DEF DayNumber, YearStart
<1>3. ((153 * ((m + 9) % 12)) + 2) \div 5 =
         CASE m = 1 -> 306 [] m = 2 -> 337 [] m = 3 -> 0 [] m = 4 -> 31 [] m = 5 -> 61 [] m = 6 -> 92
           [] m = 7 -> 122 [] m = 8 -> 153 [] m = 9 -> 184 [] m = 10 -> 214 [] m = 11 -> 245 [] OTHER -> 275
  BY SMTT(60)
<1>4. YearStart(y - 1) \in Int /\ YearStart(y - 1) = FirstDay(y) - 306 /\ FirstDay(y) \in Int
  BY YearsAbut DEF FirstDay
<1>5. YearStart(y) = FirstDay(y) + 59 + LeapDay(y) /\ LeapDay(y) \in {0, 1}
  BY YearsAbut
<1> QED BY <1>1, <1>2, <1>3, <1>4, <1>5, SMTT(60) DEF Elapsed

Dates == {x \in AnyDate : IsDate(x)}

LEMMA DateIs ==
    ASSUME NEW x \in Dates
    PROVE  /\ x \in AnyDate /\ IsDate(x) /\ x = [y |-> x.y, m |-> x.m, d |-> x.d]
           /\ x.y \in Int /\ x.m \in 1..12 /\ x.d \in 1..MonthDays(x.y, x.m)
           /\ DayNumber(x) \in Int
           /\ DayNumber(x) = FirstDay(x.y) + Elapsed(x.y, x.m) + x.d - 1
           /\ FirstDay(x.y) <= DayNumber(x) /\ DayNumber(x) < FirstDay(x.y + 1)
<1>1. /\ x \in AnyDate /\ IsDate(x) /\ x = [y |-> x.y, m |-> x.m, d |-> x.d]
      /\ x.y \in Int /\ x.m \in 1..12 /\ x.d \in 1..MonthDays(x.y, x.m)
  BY DEF Dates, AnyDate, IsDate
<1>2. DayNumber(x) = FirstDay(x.y) + Elapsed(x.y, x.m) + x.d - 1
  BY <1>1, DayOfYear
<1>3. PICK y \in Int, m \in 1..12 : x.y = y /\ x.m = m
  BY <1>1
<1>4. /\ FirstDay(y) \in Int /\ LeapDay(y) \in {0, 1} /\ FirstDay(y + 1) = FirstDay(y) + 365 + LeapDay(y)
  BY YearsAbut
<1>5. PICK e \in Nat, n \in 28..31 : e = Elapsed(y, m) /\ n = MonthDays(y, m)
  <2>1. Elapsed(y, m) \in Nat /\ MonthDays(y, m) \in 28..31
    BY MonthIs
  <2> QED BY <2>1
<1>6. e + n <= 365 + LeapDay(y)
  <2>1. CASE m = 12
    BY <1>5, <2>1, MonthsAbut
  <2>2. CASE m < 12
    <3>1. e + n <= Elapsed(y, 12)
      BY <1>5, <2>2, MonthsPass
    <3>2. Elapsed(y, 12) + MonthDays(y, 12) = 365 + LeapDay(y)
      BY MonthsAbut
    <3>3. Elapsed(y, 12) \in Nat /\ MonthDays(y, 12) \in 28..31
      BY MonthsAbut
    <3> QED BY <1>4, <3>1, <3>2, <3>3
  <2> QED BY <2>1, <2>2
<1>7. PICK d \in 1..n : d = x.d
  BY <1>1, <1>3, <1>5
<1>8. DayNumber(x) = FirstDay(y) + e + d - 1
  BY <1>2, <1>3, <1>5, <1>7
<1> QED BY <1>1, <1>2, <1>3, <1>4, <1>6, <1>7, <1>8

LEMMA EarlierIsLess ==
    ASSUME NEW x \in Dates, NEW z \in Dates, Before(x, z)
    PROVE  DayNumber(x) < DayNumber(z)
<1>1. /\ x.y \in Int /\ x.m \in 1..12 /\ x.d \in 1..MonthDays(x.y, x.m) /\ DayNumber(x) \in Int
      /\ DayNumber(x) = FirstDay(x.y) + Elapsed(x.y, x.m) + x.d - 1 /\ DayNumber(x) < FirstDay(x.y + 1)
  BY DateIs
<1>2. /\ z.y \in Int /\ z.m \in 1..12 /\ z.d \in 1..MonthDays(z.y, z.m) /\ DayNumber(z) \in Int
      /\ DayNumber(z) = FirstDay(z.y) + Elapsed(z.y, z.m) + z.d - 1 /\ FirstDay(z.y) <= DayNumber(z)
  BY DateIs
<1>3. CASE x.y < z.y
  <2>1. PICK p \in Int : p = x.y
    BY <1>1
  <2>2. PICK q \in Int : q = z.y
    BY <1>2
  <2>3. p + 1 <= q
    BY <1>3, <2>1, <2>2
  <2>4. FirstDay(q) >= FirstDay(p + 1) + (365 * (q - (p + 1)))
    BY <2>3, YearsGrow
  <2>5. FirstDay(q) \in Int /\ FirstDay(p + 1) \in Int
    BY YearsAbut
  <2>6. DayNumber(x) < FirstDay(p + 1) /\ FirstDay(q) <= DayNumber(z)
    BY <1>1, <1>2, <2>1, <2>2
  <2> QED BY <1>1, <1>2, <2>3, <2>4, <2>5, <2>6
<1>4. CASE x.y = z.y /\ x.m < z.m
  <2> DEFINE e == Elapsed(x.y, x.m)  n == MonthDays(x.y, x.m)  f == Elapsed(z.y, z.m)
  <2>1. e \in Nat /\ n \in 28..31 /\ f \in Nat
    BY <1>1, <1>2, MonthIs
  <2>2. e + n <= f
    BY <1>1, <1>2, <1>4, MonthsPass
  <2>3. PICK b \in Int : b = FirstDay(x.y)
    <3>1. \A y \in Int : FirstDay(y) \in Int
      BY YearsAbut
    <3>2. FirstDay(x.y) \in Int
      BY <1>1, <3>1
    <3> QED BY <3>2
  <2>4. MonthDays(z.y, z.m) \in 28..31
    BY <1>2, MonthIs
  <2>5. x.d \in Int /\ z.d \in Int /\ x.d <= n /\ z.d >= 1
    BY <1>1, <1>2, <2>1, <2>4
  <2>6. DayNumber(x) = b + e + x.d - 1 /\ DayNumber(z) = b + f + z.d - 1
    BY <1>1, <1>2, <1>4, <2>3
  <2> HIDE DEF e, n, f
  <2> QED BY <2>1, <2>2, <2>3, <2>5, <2>6
<1>5. CASE x.y = z.y /\ x.m = z.m /\ x.d < z.d
  <2>1. FirstDay(x.y) \in Int
    <3>1. \A y \in Int : FirstDay(y) \in Int
      BY YearsAbut
    <3> QED BY <1>1, <3>1
  <2>2. Elapsed(x.y, x.m) \in Nat /\ MonthDays(x.y, x.m) \in 28..31
    BY <1>1, MonthIs
  <2>3. x.d \in Int /\ z.d \in Int
    BY <1>1, <1>2, <1>5, <2>2
  <2> QED BY <1>1, <1>2, <1>5, <2>1, <2>2, <2>3
<1> QED BY <1>3, <1>4, <1>5 DEF Before

\* The order of the dates is that of their numbers.
LEMMA OrderOfDays ==
    ASSUME NEW x \in Dates, NEW z \in Dates
    PROVE  /\ Before(x, z) <=> DayNumber(x) < DayNumber(z)
           /\ x = z <=> DayNumber(x) = DayNumber(z)
<1>1. /\ x = [y |-> x.y, m |-> x.m, d |-> x.d] /\ x.y \in Int /\ x.m \in 1..12 /\ x.d \in 1..MonthDays(x.y, x.m)
      /\ DayNumber(x) \in Int
  BY DateIs
<1>2. /\ z = [y |-> z.y, m |-> z.m, d |-> z.d] /\ z.y \in Int /\ z.m \in 1..12 /\ z.d \in 1..MonthDays(z.y, z.m)
      /\ DayNumber(z) \in Int
  BY DateIs
<1>3. x.d \in Int /\ z.d \in Int
  BY <1>1, <1>2, MonthsAbut
<1>4. Before(x, z) \/ Before(z, x) \/ x = z
  BY <1>1, <1>2, <1>3 DEF Before
<1>5. (Before(x, z) => DayNumber(x) < DayNumber(z)) /\ (Before(z, x) => DayNumber(z) < DayNumber(x))
  BY EarlierIsLess
<1> QED BY <1>1, <1>2, <1>4, <1>5

LEMMA DayExists ==
    ASSUME NEW y \in Int, NEW N \in Int, FirstDay(y) <= N, N < FirstDay(y + 1)
    PROVE  \E x \in Dates : x.y = y /\ DayNumber(x) = N
<1> DEFINE b == FirstDay(y)  l == LeapDay(y)
<1>1. b \in Int /\ l \in {0, 1} /\ FirstDay(y + 1) = b + 365 + l
  BY YearsAbut
<1>2. PICK k \in Nat : k = N - b /\ k < 365 + l
  BY <1>1
<1>3. PICK m \in 1..12 : Elapsed(y, m) <= k /\ k < Elapsed(y, m) + MonthDays(y, m)
  <2>1. Elapsed(y, 1) = 0
    BY DEF Elapsed
  <2>2. /\ \A m \in 1..12 : Elapsed(y, m) \in Nat /\ MonthDays(y, m) \in 28..31
        /\ \A m \in 1..11 : Elapsed(y, m + 1) = Elapsed(y, m) + MonthDays(y, m)
        /\ Elapsed(y, 12) + MonthDays(y, 12) = 365 + l
    BY <1>1, MonthsAbut
  <2>3. PICK T : T = {m \in Nat : m \in 1..12 /\ k < Elapsed(y, m) + MonthDays(y, m)}
    OBVIOUS
  <2>4. 12 \in T
    BY <1>2, <2>2, <2>3
  <2>5. PICK m \in T : \A i \in T : ~(i < m)
    BY <2>3, <2>4, Least
  <2>6. m \in 1..12 /\ k < Elapsed(y, m) + MonthDays(y, m)
    BY <2>3
  <2>7. Elapsed(y, m) <= k
    <3>1. CASE m = 1
      BY <2>1, <3>1
    <3>2. CASE m # 1
      <4>1. PICK i \in 1..11 : m = i + 1
        BY <2>6, <3>2
      <4>2. i \notin T
        BY <2>5, <4>1
      <4>3. Elapsed(y, i) \in Nat /\ MonthDays(y, i) \in 28..31 /\ Elapsed(y, m) = Elapsed(y, i) + MonthDays(y, i)
        BY <2>2, <4>1
      <4> QED BY <2>3, <4>1, <4>2, <4>3
    <3> QED BY <3>1, <3>2
  <2> QED BY <2>6, <2>7
<1>4. PICK e \in Nat, n \in 28..31 : e = Elapsed(y, m) /\ n = MonthDays(y, m)
  BY MonthsAbut
<1>5. PICK d \in 1..n : d = k - e + 1
  BY <1>3, <1>4
<1>6. PICK x : x = [y |-> y, m |-> m, d |-> d]
  OBVIOUS
<1>7. x \in AnyDate /\ x \in Dates /\ x.y = y /\ x.m = m /\ x.d = d
  BY <1>4, <1>6 DEF Dates, AnyDate, IsDate
<1>8. DayNumber(x) = b + e + d - 1
  BY <1>1, <1>4, <1>7, DayOfYear
<1> QED BY <1>1, <1>2, <1>5, <1>7, <1>8

\* The day a number of days away is a date.
LEMMA DaysIs ==
    ASSUME NEW x \in Dates, NEW k \in Int
    PROVE  Days(x, k) \in Dates /\ DayNumber(Days(x, k)) = DayNumber(x) + k
<1>1. PICK a \in Nat : a = IF k < 0 THEN -k ELSE k
  OBVIOUS
<1>2. PICK r \in Nat : r = 1 + (a \div 365) /\ a < 365 * r
  BY SMT
<1>3. PICK y \in Int, N \in Int : y = x.y /\ N = DayNumber(x) + k
  BY DateIs
<1>4. FirstDay(y) <= DayNumber(x) /\ DayNumber(x) < FirstDay(y + 1) /\ DayNumber(x) \in Int
  BY <1>3, DateIs
<1>5. \A z \in Int : FirstDay(z) \in Int
  BY YearsAbut
<1>6. FirstDay(y - r) <= N /\ N < FirstDay(y + r + 1)
  <2>1. FirstDay(y) >= FirstDay(y - r) + (365 * (y - (y - r)))
    BY YearsGrow
  <2>2. FirstDay((y + 1) + r) >= FirstDay(y + 1) + (365 * (((y + 1) + r) - (y + 1)))
    BY YearsGrow
  <2>3. FirstDay(y) >= FirstDay(y - r) + (365 * r) /\ FirstDay(y + r + 1) >= FirstDay(y + 1) + (365 * r)
    <3>1. y - (y - r) = r /\ ((y + 1) + r) - (y + 1) = r /\ (y + 1) + r = y + r + 1
      OBVIOUS
    <3> QED BY <2>1, <2>2, <3>1
  <2>4. PICK p \in Int, q \in Int, s \in Int, t \in Int :
           p = FirstDay(y - r) /\ q = FirstDay(y) /\ s = FirstDay(y + 1) /\ t = FirstDay(y + r + 1)
    <3>1. y - r \in Int /\ y + 1 \in Int /\ y + r + 1 \in Int
      OBVIOUS
    <3>2. FirstDay(y - r) \in Int /\ FirstDay(y) \in Int /\ FirstDay(y + 1) \in Int /\ FirstDay(y + r + 1) \in Int
      BY <1>5, <3>1
    <3> QED BY <3>2
  <2> QED BY <1>1, <1>2, <1>3, <1>4, <2>3, <2>4
<1>7. PICK i \in Nat : /\ i <= r + r /\ FirstDay((y - r) + i) <= N /\ N < FirstDay((y - r) + i + 1)
  <2>1. PICK T : T = {i \in Nat : N < FirstDay((y - r) + i + 1)}
    OBVIOUS
  <2>2. r + r \in T
    <3>1. (y - r) + (r + r) + 1 = y + r + 1
      OBVIOUS
    <3> QED BY <1>6, <2>1, <3>1
  <2>3. PICK i \in T : \A j \in T : ~(j < i)
    BY <2>1, <2>2, Least
  <2>4. FirstDay((y - r) + i) <= N
    <3>1. CASE i = 0
      BY <1>6, <3>1
    <3>2. CASE i # 0
      <4>1. PICK j \in Nat : i = j + 1
        BY <2>1, <3>2
      <4>2. j \notin T
        BY <2>3, <4>1
      <4>3. (y - r) + j + 1 = (y - r) + i /\ FirstDay((y - r) + i) \in Int
        BY <1>5, <2>1, <4>1
      <4> QED BY <2>1, <4>2, <4>3
    <3> QED BY <3>1, <3>2
  <2>5. i \in Nat /\ N < FirstDay((y - r) + i + 1)
    BY <2>1
  <2>6. i <= r + r
    BY <2>2, <2>3, <2>5
  <2> QED BY <2>4, <2>5, <2>6
<1>8. PICK z \in Dates : z.y = (y - r) + i /\ DayNumber(z) = N
  BY <1>7, DayExists
<1>9. z \in Near(x.y, r)
  <2>1. z \in AnyDate /\ IsDate(z)
    BY DateIs
  <2>2. z.y \in y - r .. y + r
    BY <1>7, <1>8
  <2>3. z \in [y : y - r .. y + r, m : 1..12, d : 1..31]
    BY <2>1, <2>2 DEF AnyDate
  <2> QED BY <1>3, <2>1, <2>3 DEF Near
<1>10. Days(x, k) = CHOOSE other \in Near(x.y, r) : DayNumber(other) = DayNumber(x) + k
  BY <1>1, <1>2 DEF Days
<1>11. Days(x, k) \in Near(x.y, r) /\ DayNumber(Days(x, k)) = DayNumber(x) + k
  BY <1>3, <1>8, <1>9, <1>10
<1>12. Near(x.y, r) \subseteq Dates
  BY <1>3 DEF Near, Dates, AnyDate
<1> QED BY <1>11, <1>12

--------------------------------------------------------------------------------
(* What a reference means *)

LEMMA DateOf ==
    ASSUME NEW y \in Int, NEW m \in 1..12, NEW d \in 1..MonthDays(y, m)
    PROVE  /\ FromYmd(y, m, d) = [y |-> y, m |-> m, d |-> d] /\ FromYmd(y, m, d) \in Dates
           /\ \A other : UnwrapOr(FromYmd(y, m, d), other) = [y |-> y, m |-> m, d |-> d]
<1>1. PICK x : x = [y |-> y, m |-> m, d |-> d]
  OBVIOUS
<1>2. MonthDays(y, m) \in 28..31
  BY MonthIs
<1>3. x \in AnyDate /\ x.y = y /\ x.m = m /\ x.d = d
  BY <1>1, <1>2 DEF AnyDate
<1>4. IsDate(x)
  BY <1>3 DEF IsDate
<1>5. x # NoDate
  BY <1>3, TimeAssumption
<1> QED BY <1>1, <1>3, <1>4, <1>5 DEF FromYmd, UnwrapOr, Dates

\* What is meant are the dates from one to another.
Spans(ref, a, b) ==
    /\ a \in Dates /\ b \in Dates /\ DayNumber(a) <= DayNumber(b)
    /\ \A x \in Dates : Means(ref, x) <=> DayNumber(a) <= DayNumber(x) /\ DayNumber(x) <= DayNumber(b)
IsMeant(ref) == Spans(ref, RangeOf(ref).start, RangeOf(ref).end)

LEMMA MonthIsWhole ==
    ASSUME NEW y \in Int, NEW m \in 1..12, NEW R, R = MonthOf(y, m)
    PROVE  /\ R.start \in Dates /\ R.end \in Dates /\ DayNumber(R.start) <= DayNumber(R.end)
           /\ \A x \in Dates : x.y = y /\ x.m = m
                                  <=> DayNumber(R.start) <= DayNumber(x) /\ DayNumber(x) <= DayNumber(R.end)
<1>1. PICK s : s = [y |-> y, m |-> m, d |-> 1]
  OBVIOUS
<1>2. PICK z \in Int : z = IF m = 12 THEN y + 1 ELSE y
  OBVIOUS
<1>3. PICK n \in 1..12 : n = IF m = 12 THEN 1 ELSE m + 1
  OBVIOUS
<1>4. PICK t : t = [y |-> z, m |-> n, d |-> 1]
  OBVIOUS
<1>5. 1 \in 1..MonthDays(y, m) /\ 1 \in 1..MonthDays(z, n)
  <2>1. MonthDays(y, m) \in 28..31 /\ MonthDays(z, n) \in 28..31
    BY MonthIs
  <2> QED BY <2>1
<1>6. s \in Dates /\ UnwrapOr(FromYmd(y, m, 1), today) = s
  BY <1>1, <1>5, DateOf
<1>7. t \in Dates /\ FromYmd(z, n, 1) = t
  BY <1>4, <1>5, DateOf
<1>8. MonthLastDay(y, m) = Days(t, -1)
  BY <1>2, <1>3, <1>7 DEF MonthLastDay
<1>9. R.start = s /\ R.end = Days(t, -1)
  BY <1>6, <1>8 DEF MonthOf
<1>10. R.end \in Dates /\ DayNumber(R.end) = DayNumber(t) - 1 /\ DayNumber(s) \in Int /\ DayNumber(t) \in Int
  <2>1. -1 \in Int
    OBVIOUS
  <2>2. Days(t, -1) \in Dates /\ DayNumber(Days(t, -1)) = DayNumber(t) + -1
    BY <1>7, <2>1, DaysIs
  <2>3. DayNumber(s) \in Int /\ DayNumber(t) \in Int
    BY <1>6, <1>7, DateIs
  <2> QED BY <1>9, <2>2, <2>3
<1>11. Before(s, t)
  BY <1>1, <1>2, <1>3, <1>4 DEF Before
<1>12. DayNumber(s) < DayNumber(t)
  BY <1>6, <1>7, <1>11, OrderOfDays
<1>13. ASSUME NEW x \in Dates
       PROVE  x.y = y /\ x.m = m <=> DayNumber(R.start) <= DayNumber(x) /\ DayNumber(x) <= DayNumber(R.end)
  <2>1. DayNumber(x) \in Int /\ x.y \in Int /\ x.m \in 1..12 /\ x.d \in 1..MonthDays(x.y, x.m)
    BY DateIs
  <2>2. x.d \in Int /\ 1 <= x.d
    <3>1. MonthDays(x.y, x.m) \in 28..31
      BY <2>1, MonthIs
    <3> QED BY <2>1, <3>1
  <2>3. (Before(x, s) <=> DayNumber(x) < DayNumber(s)) /\ (Before(x, t) <=> DayNumber(x) < DayNumber(t))
    BY <1>6, <1>7, OrderOfDays
  <2>4. DayNumber(R.start) <= DayNumber(x) /\ DayNumber(x) <= DayNumber(R.end) <=> ~Before(x, s) /\ Before(x, t)
    BY <1>9, <1>10, <2>1, <2>3
  <2>5. s.y = y /\ s.m = m /\ s.d = 1 /\ t.y = z /\ t.m = n /\ t.d = 1
    BY <1>1, <1>4
  <2>6. ~Before(x, s) /\ Before(x, t) <=> x.y = y /\ x.m = m
    BY <1>2, <1>3, <2>1, <2>2, <2>5 DEF Before
  <2> QED BY <2>4, <2>6
<1> QED BY <1>6, <1>9, <1>10, <1>12, <1>13

LEMMA RangeIsMeant ==
    ASSUME NEW ref, NEW a, NEW b, Spans(ref, a, b), RangeOf(ref) = [start |-> a, end |-> b]
    PROVE  IsMeant(ref)
<1>1. PICK R : R = RangeOf(ref)
  OBVIOUS
<1>2. R.start = a /\ R.end = b
  BY <1>1
<1> QED BY <1>1, <1>2 DEF IsMeant

\* A day of its own, and the days up to one
LEMMA DaysFrom ==
    ASSUME today \in Dates, NEW k \in Nat
    PROVE  /\ Days(today, -k) \in Dates /\ DayNumber(Days(today, -k)) = DayNumber(today) - k
           /\ DayNumber(today) \in Int
<1>1. -k \in Int
  OBVIOUS
<1>2. Days(today, -k) \in Dates /\ DayNumber(Days(today, -k)) = DayNumber(today) + -k
  BY <1>1, DaysIs
<1>3. DayNumber(today) \in Int
  BY DateIs
<1> QED BY <1>2, <1>3

PlainWords == {"yesterday", "today", "last_week", "last_month", "last_year", "this_week", "this_month"}
References ==
    {[says |-> w] : w \in PlainWords} \cup {[says |-> w, n |-> n] : w \in {"days_ago", "weeks_ago", "months_ago"}, n \in Counts}
        \cup {[says |-> "month", n |-> n, year |-> y] : n \in 1..12, y \in Int} \cup {[says |-> "date", date |-> x] : x \in Dates}

LEMMA PlainReferenceIs ==
    ASSUME today \in Dates, NEW ref, ref.says \in {"yesterday", "today", "last_week"}
    PROVE  IsMeant(ref)
<1>1. PICK t \in Int : t = DayNumber(today)
  BY DateIs
<1>2. \A x \in Dates : DayNumber(x) \in Int
  BY DateIs
<1>3. PICK a \in Dates : a = Days(today, -1) /\ DayNumber(a) = t - 1
  <2>1. 1 \in Nat
    OBVIOUS
  <2> QED BY <1>1, <2>1, DaysFrom
<1>4. PICK b \in Dates : b = Days(today, -7) /\ DayNumber(b) = t - 7
  <2>1. 7 \in Nat
    OBVIOUS
  <2> QED BY <1>1, <2>1, DaysFrom
<1>5. CASE ref.says = "yesterday"
  <2>1. RangeOf(ref) = [start |-> a, end |-> a]
    BY <1>3, <1>5 DEF RangeOf, OneDay
  <2>2. \A x \in Dates : Means(ref, x) <=> t - DayNumber(x) = 1
    BY <1>1, <1>5 DEF Means
  <2>3. Spans(ref, a, a)
    <3>1. ASSUME NEW x \in Dates
          PROVE  Means(ref, x) <=> DayNumber(a) <= DayNumber(x) /\ DayNumber(x) <= DayNumber(a)
      <4>1. PICK k \in Int : k = DayNumber(x)
        BY <1>2
      <4> QED BY <1>3, <2>2, <4>1
    <3> QED BY <1>1, <1>3, <1>4, <3>1 DEF Spans
  <2> QED BY <2>1, <2>3, RangeIsMeant
<1>6. CASE ref.says = "today"
  <2>1. RangeOf(ref) = [start |-> today, end |-> today]
    BY <1>6 DEF RangeOf, OneDay
  <2>2. \A x \in Dates : Means(ref, x) <=> t - DayNumber(x) = 0
    BY <1>1, <1>6 DEF Means
  <2>3. Spans(ref, today, today)
    <3>1. ASSUME NEW x \in Dates
          PROVE  Means(ref, x) <=> DayNumber(today) <= DayNumber(x) /\ DayNumber(x) <= DayNumber(today)
      <4>1. PICK k \in Int : k = DayNumber(x)
        BY <1>2
      <4> QED BY <1>1, <2>2, <4>1
    <3> QED BY <1>1, <1>3, <1>4, <3>1 DEF Spans
  <2> QED BY <2>1, <2>3, RangeIsMeant
<1>7. CASE ref.says = "last_week"
  <2>1. RangeOf(ref) = [start |-> b, end |-> today]
    BY <1>4, <1>7 DEF RangeOf
  <2>2. \A x \in Dates : Means(ref, x) <=> t - DayNumber(x) \in 0..7
    BY <1>1, <1>7 DEF Means
  <2>3. Spans(ref, b, today)
    <3>1. ASSUME NEW x \in Dates
          PROVE  Means(ref, x) <=> DayNumber(b) <= DayNumber(x) /\ DayNumber(x) <= DayNumber(today)
      <4>1. PICK k \in Int : k = DayNumber(x)
        BY <1>2
      <4> QED BY <1>1, <1>4, <2>2, <4>1
    <3> QED BY <1>1, <1>3, <1>4, <3>1 DEF Spans
  <2> QED BY <2>1, <2>3, RangeIsMeant
<1> QED BY <1>5, <1>6, <1>7

LEMMA CountedReferenceIs ==
    ASSUME today \in Dates, NEW n \in Nat, NEW ref, ref.says \in {"days_ago", "weeks_ago"}, ref.n = n
    PROVE  IsMeant(ref)
<1>1. PICK t \in Int : t = DayNumber(today)
  BY DateIs
<1>2. \A x \in Dates : DayNumber(x) \in Int
  BY DateIs
<1>3. PICK a \in Dates : a = Days(today, -n) /\ DayNumber(a) = t - n
  BY <1>1, DaysFrom
<1>4. PICK m \in Nat : m = 7 * n /\ -7 * n = -m
  <2>1. \A i \in Nat : 7 * i \in Nat /\ -7 * i = -(7 * i)
    OBVIOUS
  <2> QED BY <2>1
<1>5. PICK b \in Dates : b = Days(today, -m) /\ DayNumber(b) = t - m
  BY <1>1, DaysFrom
<1>6. CASE ref.says = "days_ago"
  <2>1. RangeOf(ref) = [start |-> a, end |-> a]
    BY <1>3, <1>6 DEF RangeOf, OneDay
  <2>2. \A x \in Dates : Means(ref, x) <=> t - DayNumber(x) = n
    BY <1>1, <1>6 DEF Means
  <2>3. Spans(ref, a, a)
    <3>1. ASSUME NEW x \in Dates
          PROVE  Means(ref, x) <=> DayNumber(a) <= DayNumber(x) /\ DayNumber(x) <= DayNumber(a)
      <4>1. PICK k \in Int : k = DayNumber(x)
        BY <1>2
      <4> QED BY <1>3, <2>2, <4>1
    <3> QED BY <1>1, <1>3, <1>4, <3>1 DEF Spans
  <2> QED BY <2>1, <2>3, RangeIsMeant
<1>7. CASE ref.says = "weeks_ago"
  <2>1. RangeOf(ref) = [start |-> Days(today, -7 * n), end |-> today]
    BY <1>7 DEF RangeOf
  <2>2. RangeOf(ref) = [start |-> b, end |-> today]
    BY <1>4, <1>5, <2>1
  <2>3. \A x \in Dates : Means(ref, x) <=> t - DayNumber(x) \in 0..7 * n
    BY <1>1, <1>7 DEF Means
  <2>4. Spans(ref, b, today)
    <3>1. ASSUME NEW x \in Dates
          PROVE  Means(ref, x) <=> DayNumber(b) <= DayNumber(x) /\ DayNumber(x) <= DayNumber(today)
      <4>1. PICK k \in Int : k = DayNumber(x)
        BY <1>2
      <4> QED BY <1>1, <1>4, <1>5, <2>3, <4>1
    <3> QED BY <1>1, <1>3, <1>4, <1>5, <3>1 DEF Spans
  <2> QED BY <2>2, <2>4, RangeIsMeant
<1> QED BY <1>6, <1>7

\* A whole month is meant if its days are.
LEMMA MonthIsMeant ==
    ASSUME NEW ref, NEW y \in Int, NEW m \in 1..12, RangeOf(ref) = MonthOf(y, m),
           \A x \in Dates : Means(ref, x) <=> x.y = y /\ x.m = m
    PROVE  IsMeant(ref)
<1>1. PICK R : R = RangeOf(ref) /\ R = MonthOf(y, m)
  OBVIOUS
<1>2. /\ R.start \in Dates /\ R.end \in Dates /\ DayNumber(R.start) <= DayNumber(R.end)
      /\ \A x \in Dates : x.y = y /\ x.m = m
                             <=> DayNumber(R.start) <= DayNumber(x) /\ DayNumber(x) <= DayNumber(R.end)
  BY <1>1, MonthIsWhole
<1>3. \A x \in Dates : Means(ref, x) <=> DayNumber(R.start) <= DayNumber(x) /\ DayNumber(x) <= DayNumber(R.end)
  BY <1>2
<1> QED BY <1>1, <1>2, <1>3 DEF IsMeant, Spans

\* Months are counted over the turn of the year.
LEMMA MonthsBefore ==
    ASSUME today \in Dates, NEW n \in Nat
    PROVE  LET month == SubtractMonths(today.y, today.m, n)
           IN  /\ month[1] \in Int /\ month[2] \in 1..12
               /\ \A x \in Dates : (12 * today.y + today.m) - (12 * x.y + x.m) = n <=> x.y = month[1] /\ x.m = month[2]
<1>1. PICK y \in Int : y = today.y
  BY DateIs
<1>2. PICK m \in 1..12 : m = today.m
  BY DateIs
<1>3. PICK t \in Int : t = y * 12 + m - 1 - n
  OBVIOUS
<1>4. PICK a \in Int, b \in 0..11 : a = t \div 12 /\ b = t % 12 /\ t = 12 * a + b
  BY SMT
<1>5. SubtractMonths(today.y, today.m, n) = <<a, b + 1>>
  BY <1>1, <1>2, <1>3, <1>4 DEF SubtractMonths
<1>6. ASSUME NEW x \in Dates
      PROVE  (12 * y + m) - (12 * x.y + x.m) = n <=> x.y = a /\ x.m = b + 1
  <2>1. PICK p \in Int : p = x.y
    BY DateIs
  <2>2. PICK q \in 1..12 : q = x.m
    BY DateIs
  <2>3. (12 * y + m) - (12 * p + q) = n <=> p = a /\ q = b + 1
    BY <1>3, <1>4
  <2> QED BY <2>1, <2>2, <2>3
<1> QED BY <1>1, <1>2, <1>4, <1>5, <1>6

LEMMA MonthReferenceIs ==
    ASSUME today \in Dates, NEW ref,
           \/ ref.says \in {"last_month", "this_month"}
           \/ ref.says = "months_ago" /\ ref.n \in Nat
           \/ ref.says = "month" /\ ref.n \in 1..12 /\ ref.year \in Int
    PROVE  IsMeant(ref)
<1>1. PICK y \in Int : y = today.y
  BY DateIs
<1>2. PICK m \in 1..12 : m = today.m
  BY DateIs
<1>3. \A x \in Dates : x.y \in Int /\ x.m \in 1..12
  BY DateIs
<1>4. CASE ref.says = "last_month"
  <2>1. PICK a \in Int : a = IF m = 1 THEN y - 1 ELSE y
    OBVIOUS
  <2>2. PICK b \in 1..12 : b = IF m = 1 THEN 12 ELSE m - 1
    OBVIOUS
  <2>3. LastMonth[1] = a /\ LastMonth[2] = b
    BY <1>1, <1>2, <2>1, <2>2 DEF LastMonth
  <2>4. RangeOf(ref) = MonthOf(a, b)
    BY <1>4, <2>3 DEF RangeOf
  <2>5. ASSUME NEW x \in Dates PROVE Means(ref, x) <=> x.y = a /\ x.m = b
    <3>1. PICK p \in Int : p = x.y
      BY <1>3
    <3>2. PICK q \in 1..12 : q = x.m
      BY <1>3
    <3>3. Means(ref, x) <=> (12 * y + m) - (12 * p + q) = 1
      BY <1>1, <1>2, <1>4, <3>1, <3>2 DEF Means
    <3>4. (12 * y + m) - (12 * p + q) = 1 <=> p = a /\ q = b
      BY <2>1, <2>2
    <3> QED BY <3>1, <3>2, <3>3, <3>4
  <2> QED BY <2>4, <2>5, MonthIsMeant
<1>5. CASE ref.says = "this_month"
  <2>1. RangeOf(ref) = MonthOf(y, m)
    BY <1>1, <1>2, <1>5 DEF RangeOf
  <2>2. ASSUME NEW x \in Dates PROVE Means(ref, x) <=> x.y = y /\ x.m = m
    <3>1. PICK p \in Int : p = x.y
      BY <1>3
    <3>2. PICK q \in 1..12 : q = x.m
      BY <1>3
    <3>3. Means(ref, x) <=> (12 * y + m) - (12 * p + q) = 0
      BY <1>1, <1>2, <1>5, <3>1, <3>2 DEF Means
    <3>4. (12 * y + m) - (12 * p + q) = 0 <=> p = y /\ q = m
      OBVIOUS
    <3> QED BY <3>1, <3>2, <3>3, <3>4
  <2> QED BY <2>1, <2>2, MonthIsMeant
<1>6. CASE ref.says = "months_ago" /\ ref.n \in Nat
  <2>1. PICK n \in Nat : n = ref.n
    BY <1>6
  <2>2. PICK month : month = SubtractMonths(today.y, today.m, n)
    OBVIOUS
  <2>3. month[1] \in Int /\ month[2] \in 1..12
    BY <2>2, MonthsBefore
  <2>4. \A x \in Dates : (12 * today.y + today.m) - (12 * x.y + x.m) = n <=> x.y = month[1] /\ x.m = month[2]
    BY <2>2, MonthsBefore
  <2>5. RangeOf(ref) = MonthOf(month[1], month[2])
    BY <1>6, <2>1, <2>2 DEF RangeOf
  <2>6. \A x \in Dates : Means(ref, x) <=> (12 * today.y + today.m) - (12 * x.y + x.m) = n
    BY <1>6, <2>1 DEF Means
  <2>7. \A x \in Dates : Means(ref, x) <=> x.y = month[1] /\ x.m = month[2]
    BY <2>4, <2>6
  <2> QED BY <2>3, <2>5, <2>7, MonthIsMeant
<1>7. CASE ref.says = "month" /\ ref.n \in 1..12 /\ ref.year \in Int
  <2>1. RangeOf(ref) = MonthOf(ref.year, ref.n)
    BY <1>7 DEF RangeOf
  <2>2. \A x \in Dates : Means(ref, x) <=> x.y = ref.year /\ x.m = ref.n
    BY <1>7 DEF Means
  <2> QED BY <1>7, <2>1, <2>2, MonthIsMeant
<1> QED BY <1>4, <1>5, <1>6, <1>7

LEMMA LastYearIsMeant ==
    ASSUME today \in Dates, NEW ref, ref.says = "last_year"
    PROVE  IsMeant(ref)
<1>1. PICK y \in Int : y = today.y - 1 /\ today.y = y + 1
  <2>1. today.y \in Int
    BY DateIs
  <2> QED BY <2>1
<1>2. 1 \in 1..MonthDays(y, 1) /\ 31 \in 1..MonthDays(y, 12)
  BY DEF MonthDays
<1>3. PICK a \in Dates : a = FromYmd(y, 1, 1) /\ a = [y |-> y, m |-> 1, d |-> 1]
  BY <1>2, DateOf
<1>4. PICK b \in Dates : b = FromYmd(y, 12, 31) /\ b = [y |-> y, m |-> 12, d |-> 31]
  BY <1>2, DateOf
<1>5. RangeOf(ref) = [start |-> a, end |-> b]
  BY <1>1, <1>3, <1>4 DEF RangeOf
<1>6. ASSUME NEW x \in Dates
      PROVE  Means(ref, x) <=> DayNumber(a) <= DayNumber(x) /\ DayNumber(x) <= DayNumber(b)
  <2>1. PICK p \in Int : p = x.y
    BY DateIs
  <2>2. PICK q \in 1..12 : q = x.m
    BY DateIs
  <2>3. x.d \in 1..31
    BY DateIs DEF AnyDate
  <2>4. (Before(x, a) <=> DayNumber(x) < DayNumber(a)) /\ (Before(b, x) <=> DayNumber(b) < DayNumber(x))
    BY OrderOfDays
  <2>5. DayNumber(x) \in Int /\ DayNumber(a) \in Int /\ DayNumber(b) \in Int
    BY DateIs
  <2>6. Means(ref, x) <=> p = y
    BY <1>1, <2>1 DEF Means
  <2>7. ~Before(x, a) /\ ~Before(b, x) <=> p = y
    BY <1>3, <1>4, <2>1, <2>2, <2>3 DEF Before
  <2> QED BY <2>4, <2>5, <2>6, <2>7
<1>7. DayNumber(a) <= DayNumber(b)
  <2>1. Before(a, b)
    BY <1>3, <1>4 DEF Before
  <2>2. DayNumber(a) < DayNumber(b) /\ DayNumber(a) \in Int /\ DayNumber(b) \in Int
    BY <2>1, OrderOfDays, DateIs
  <2> QED BY <2>2
<1> QED BY <1>5, <1>6, <1>7, RangeIsMeant DEF Spans

LEMMA ThisWeekIsMeant ==
    ASSUME today \in Dates, NEW ref, ref.says = "this_week"
    PROVE  IsMeant(ref)
<1>1. PICK t \in Int : t = DayNumber(today)
  BY DateIs
<1>2. Monday \in 0..6
  <2> DEFINE x == [y |-> 2024, m |-> 1, d |-> 1]
  <2>2. 1 \in 1..MonthDays(2024, 1)
    BY DEF MonthDays
  <2>3. x \in Dates
    BY <2>2, DateOf
  <2>4. DayNumber(x) \in Int
    BY <2>3, DateIs
  <2> QED BY <2>4 DEF Monday
<1>3. PICK w \in 0..6 : w = Weekday(today) /\ w = (t - Monday) % 7
  BY <1>1, <1>2 DEF Weekday
<1>4. PICK a \in Dates : a = Days(today, -Weekday(today)) /\ DayNumber(a) = t - w
  <2>1. w \in Nat
    OBVIOUS
  <2> QED BY <1>1, <1>3, <2>1, DaysFrom
<1>5. PICK b \in Dates : b = Days(a, 6) /\ DayNumber(b) = (t - w) + 6
  <2>1. 6 \in Int
    OBVIOUS
  <2> QED BY <1>4, <2>1, DaysIs
<1>6. RangeOf(ref) = [start |-> a, end |-> b]
  BY <1>4, <1>5 DEF RangeOf
<1>7. ASSUME NEW x \in Dates
      PROVE  Means(ref, x) <=> DayNumber(a) <= DayNumber(x) /\ DayNumber(x) <= DayNumber(b)
  <2>1. PICK k \in Int : k = DayNumber(x)
    BY DateIs
  <2>2. Means(ref, x) <=> (t - Monday) \div 7 = (k - Monday) \div 7
    BY <1>1, <2>1 DEF Means
  <2>3. (t - Monday) \div 7 = (k - Monday) \div 7 <=> t - w <= k /\ k <= (t - w) + 6
    BY <1>2, <1>3, SMT
  <2> QED BY <1>4, <1>5, <2>1, <2>2, <2>3
<1> QED BY <1>4, <1>5, <1>6, <1>7, RangeIsMeant DEF Spans

LEMMA DateIsMeant ==
    ASSUME NEW ref, ref.says = "date", ref.date \in Dates
    PROVE  IsMeant(ref)
<1>1. PICK a \in Dates : a = ref.date
  OBVIOUS
<1>2. RangeOf(ref) = [start |-> a, end |-> a]
  BY <1>1 DEF RangeOf, OneDay
<1>3. ASSUME NEW x \in Dates
      PROVE  Means(ref, x) <=> DayNumber(a) <= DayNumber(x) /\ DayNumber(x) <= DayNumber(a)
  <2>1. Means(ref, x) <=> x = a
    BY <1>1 DEF Means
  <2>2. x = a <=> DayNumber(x) = DayNumber(a)
    BY OrderOfDays
  <2>3. DayNumber(x) \in Int /\ DayNumber(a) \in Int
    BY DateIs
  <2> QED BY <2>1, <2>2, <2>3
<1>4. DayNumber(a) \in Int
  BY DateIs
<1> QED BY <1>2, <1>3, <1>4, RangeIsMeant DEF Spans

\* What each reference becomes is what it means, on any day.
LEMMA ReferenceIsMeant == ASSUME today \in Dates, NEW ref \in References PROVE IsMeant(ref)
<1>1. CASE ref.says \in {"yesterday", "today", "last_week"}
  BY <1>1, PlainReferenceIs
<1>2. CASE ref.says \in {"last_month", "this_month"}
  BY <1>2, MonthReferenceIs
<1>3. CASE ref.says = "last_year"
  BY <1>3, LastYearIsMeant
<1>4. CASE ref.says = "this_week"
  BY <1>4, ThisWeekIsMeant
<1>5. CASE ref.says = "date" /\ ref.date \in Dates
  BY <1>5, DateIsMeant
<1>6. CASE ref.says \in {"days_ago", "weeks_ago"} /\ ref.n \in Nat
  BY <1>6, CountedReferenceIs
<1>7. CASE ref.says = "months_ago" /\ ref.n \in Nat
  BY <1>7, MonthReferenceIs
<1>8. CASE ref.says = "month" /\ ref.n \in 1..12 /\ ref.year \in Int
  BY <1>8, MonthReferenceIs
<1>9. Counts \subseteq Nat
  BY TimeAssumption
<1>10. CASE ref \in {[says |-> w] : w \in PlainWords}
  <2>1. ref.says \in PlainWords
    BY <1>10
  <2> QED BY <1>1, <1>2, <1>3, <1>4, <2>1 DEF PlainWords
<1>11. CASE ref \in {[says |-> w, n |-> n] : w \in {"days_ago", "weeks_ago", "months_ago"}, n \in Counts}
  <2>1. ref.says \in {"days_ago", "weeks_ago", "months_ago"} /\ ref.n \in Counts
    BY <1>11
  <2> QED BY <1>6, <1>7, <1>9, <2>1
<1>12. CASE ref \in {[says |-> "month", n |-> n, year |-> y] : n \in 1..12, y \in Int}
  BY <1>8, <1>12
<1>13. CASE ref \in {[says |-> "date", date |-> x] : x \in Dates}
  BY <1>5, <1>13
<1> QED BY <1>10, <1>11, <1>12, <1>13 DEF References

LEMMA AskingsRefer ==
    ASSUME today \in Dates, NEW q \in Askings
    PROVE  \A i \in DOMAIN q : q[i] \in References
<1>1. CASE q \in {<<[says |-> w]>> : w \in PlainWords}
  BY <1>1 DEF References
<1>2. CASE q \in {<<[says |-> w, n |-> n]>> : w \in {"days_ago", "weeks_ago", "months_ago"}, n \in Counts}
  BY <1>2 DEF References
<1>3. CASE q \in {<<ref>> : ref \in UNION {InMonth(n) : n \in 1..12}}
  <2>1. PICK n \in 1..12, y \in {today.y, today.y - 1} : q = <<[says |-> "month", n |-> n, year |-> y]>>
    BY <1>3 DEF InMonth
  <2>2. today.y \in Int
    BY DateIs
  <2>3. y \in Int
    BY <2>1, <2>2
  <2>4. [says |-> "month", n |-> n, year |-> y] \in References
    BY <2>1, <2>3, SMTT(60) DEF References
  <2> QED BY <2>1, <2>4
<1>4. CASE q = <<[says |-> "date", date |-> today], [says |-> "last_month"]>>
  <2>1. [says |-> "date", date |-> today] \in References /\ [says |-> "last_month"] \in References
    BY DEF References, PlainWords
  <2> QED BY <1>4, <2>1
<1> QED BY <1>1, <1>2, <1>3, <1>4 DEF Askings, PlainWords

\* What is asked is found.
IsFound(q) ==
    /\ \A i \in DOMAIN q.found : q.found[i] \in References
    /\ \A i \in DOMAIN q.asked : \E j \in DOMAIN q.found : q.found[j] = q.asked[i]

LEMMA QuestionsRefer ==
    ASSUME today \in Dates, NEW q \in Questions
    PROVE  IsFound(q)
<1>1. CASE q \in {[asked |-> p, found |-> p] : p \in Askings}
  <2>1. PICK p \in Askings : q = [asked |-> p, found |-> p]
    BY <1>1
  <2>2. q.asked = p /\ q.found = p
    BY <2>1
  <2> QED BY <2>2, AskingsRefer DEF IsFound
<1>2. \A n \in 1..12 : ThisYears(n) \in References
  <2> SUFFICES ASSUME NEW n \in 1..12 PROVE ThisYears(n) \in References
    OBVIOUS
  <2>1. PICK y \in Int : y = today.y
    BY DateIs
  <2> QED BY <2>1, SMTT(60) DEF References, ThisYears
<1>3. CASE q \in {[asked |-> <<ThisYears(n)>>, found |-> <<ThisYears(n - 10), ThisYears(n)>>] : n \in {11, 12}}
  <2>1. PICK n \in {11, 12} : q = [asked |-> <<ThisYears(n)>>, found |-> <<ThisYears(n - 10), ThisYears(n)>>]
    BY <1>3
  <2>2. n - 10 \in 1..12 /\ n \in 1..12
    OBVIOUS
  <2>3. ThisYears(n - 10) \in References /\ ThisYears(n) \in References
    BY <1>2, <2>2
  <2> QED BY <2>1, <2>3 DEF IsFound
<1>4. CASE q \in {[asked |-> <<[says |-> "months_ago", n |-> n]>>, found |-> <<[says |-> "months_ago", n |-> n], ThisYears(n)>>] :
                      n \in Counts \cap 1..12}
  <2>1. PICK n \in Counts \cap 1..12 : q = [asked |-> <<[says |-> "months_ago", n |-> n]>>,
                                            found |-> <<[says |-> "months_ago", n |-> n], ThisYears(n)>>]
    BY <1>4
  <2>2. ThisYears(n) \in References
    BY <1>2
  <2>3. [says |-> "months_ago", n |-> n] \in References
    BY DEF References
  <2> QED BY <2>1, <2>2, <2>3 DEF IsFound
<1> QED BY <1>1, <1>3, <1>4 DEF Questions, Misread

--------------------------------------------------------------------------------
(* The ranges of a question: the inductive invariant *)

Raises(x, r) == From(x, r.start) /\ UpTo(x, r.end)
RaisedBy(R) == {x \in Moments : \E r \in R : Raises(x, r)}

TimeInv ==
    /\ today \in Todays
    /\ timing \in {"idle", "parsed", "searched"}
    /\ timing # "idle" => query \in Questions /\ ranges = [i \in DOMAIN query.found |-> RangeOf(query.found[i])]
    /\ timing = "searched" => raised = RaisedBy(ToSet(ranges))

LEMMA MomentsAreOfTheRanges == ASSUME ranges' = ranges PROVE RaisedBy(ToSet(ranges))' = RaisedBy(ToSet(ranges))
<1>1. RangeEnds' = RangeEnds
  BY DEF RangeEnds
<1>2. Moments' = Moments
  BY <1>1 DEF Moments
<1>3. ToSet(ranges)' = ToSet(ranges)
  BY DEF ToSet
<1> QED BY <1>2, <1>3, Zenon DEF RaisedBy, Raises

LEMMA OneToday ==
    ASSUME today' = today
    PROVE  Questions' = Questions /\ \A ref : RangeOf(ref)' = RangeOf(ref)
  BY DEF Questions, Askings, Misread, ThisYears, InMonth, RangeOf, MonthOf, LastMonth

LEMMA TimeInvHolds == TimeSpec => []TimeInv
<1>1. TimeInit => TimeInv
  BY DEF TimeInit, TimeInv
<1>2. TimeInv /\ [TimeNext]_timeVars => TimeInv'
  <2> SUFFICES ASSUME TimeInv, [TimeNext]_timeVars PROVE TimeInv'
    OBVIOUS
  <2>1. CASE ParseTime
    BY <2>1, OneToday, Zenon DEF TimeInv, ParseTime
  <2>2. CASE Raise
    <3>1. (timing # "idle" => query \in Questions /\ ranges = [i \in DOMAIN query.found |-> RangeOf(query.found[i])])'
      BY <2>2, OneToday, Zenon DEF TimeInv, Raise
    <3>2. today' \in Todays /\ timing' = "searched" /\ ranges' = ranges
      BY <2>2 DEF TimeInv, Raise
    <3>3. raised' = RaisedBy(ToSet(ranges))
      BY <2>2, Zenon DEF Raise, Raises, RaisedBy
    <3> QED BY <3>1, <3>2, <3>3, MomentsAreOfTheRanges, Zenon DEF TimeInv
  <2>3. CASE UNCHANGED timeVars
    <3>1. (timing # "idle" => query \in Questions /\ ranges = [i \in DOMAIN query.found |-> RangeOf(query.found[i])])'
      BY <2>3, OneToday, Zenon DEF TimeInv, timeVars
    <3>2. today' = today /\ timing' = timing /\ raised' = raised /\ ranges' = ranges
      BY <2>3 DEF timeVars
    <3> QED BY <3>1, <3>2, MomentsAreOfTheRanges, Zenon DEF TimeInv
  <2> QED BY <2>1, <2>2, <2>3 DEF TimeNext
<1> QED BY <1>1, <1>2, PTL DEF TimeSpec

\* A reference reaches the moments that its range raises.
LEMMA ReachedIs ==
    ASSUME NEW ref, IsMeant(ref), NEW x, x.date \in Dates, x.timed \in BOOLEAN
    PROVE  Reached(ref, x) <=> Raises(x, RangeOf(ref))
<1>1. PICK a \in Dates, b \in Dates :
          /\ a = RangeOf(ref).start /\ b = RangeOf(ref).end
          /\ \A z \in Dates : Means(ref, z) <=> DayNumber(a) <= DayNumber(z) /\ DayNumber(z) <= DayNumber(b)
  BY DEF IsMeant, Spans
<1>2. PICK next \in Dates : next = Days(x.date, 1) /\ DayNumber(next) = DayNumber(x.date) + 1
  <2>1. 1 \in Int
    OBVIOUS
  <2> QED BY <2>1, DaysIs
<1>3. PICK n \in Int, p \in Int, q \in Int : n = DayNumber(x.date) /\ p = DayNumber(a) /\ q = DayNumber(b)
  BY <1>1, DateIs
<1>4. (Means(ref, x.date) <=> p <= n /\ n <= q) /\ (Means(ref, Days(x.date, 1)) <=> p <= n + 1 /\ n + 1 <= q)
  BY <1>1, <1>2, <1>3
<1>5. Reached(ref, x) <=> p <= n /\ n <= q /\ (x.timed => n + 1 <= q)
  BY <1>4 DEF Reached, LastDay
<1>6. From(x, a) <=> p <= n
  <2>1. (Before(a, x.date) <=> p < n) /\ (a = x.date <=> p = n)
    BY <1>1, <1>3, OrderOfDays
  <2> QED BY <2>1, <1>3 DEF From
<1>7. UpTo(x, b) <=> n <= q /\ (x.timed => n + 1 <= q)
  <2>1. (Before(x.date, b) <=> n < q) /\ (x.date = b <=> n = q)
    BY <1>1, <1>3, OrderOfDays
  <2> QED BY <2>1, <1>3 DEF UpTo
<1> QED BY <1>1, <1>5, <1>6, <1>7 DEF Raises

\* RangesAreCalendar: whatever day it is asked on, a question of time raises the moments of the days that it
\* asks about, up to the last day's date, and no others unless apply_temporal_filter was given misread ranges.
THEOREM RangesAreOfTheCalendar == TimeSpec => []RangesAreCalendar
<1>1. TimeInv => RangesAreCalendar
  <2> SUFFICES ASSUME TimeInv, timing = "searched" PROVE RangesAreCalendar
    BY DEF RangesAreCalendar
  <2>1. today \in Dates
    BY TimeAssumption DEF TimeInv, Dates
  <2>2. query \in Questions /\ ranges = [i \in DOMAIN query.found |-> RangeOf(query.found[i])]
    BY DEF TimeInv
  <2>3. IsFound(query)
    BY <2>1, <2>2, QuestionsRefer
  <2>4. \A i \in DOMAIN query.found : IsMeant(query.found[i])
    BY <2>1, <2>3, ReferenceIsMeant DEF IsFound
  <2>5. ToSet(ranges) = {RangeOf(query.found[i]) : i \in DOMAIN query.found}
    BY <2>2 DEF ToSet
  <2>6. \A r \in ToSet(ranges) : r.start \in Dates /\ r.end \in Dates
    BY <2>4, <2>5 DEF IsMeant, Spans
  <2>7. \A x \in Moments : x.date \in Dates /\ x.timed \in BOOLEAN
    <3> SUFFICES ASSUME NEW x \in Moments PROVE x.date \in Dates /\ x.timed \in BOOLEAN
      OBVIOUS
    <3>1. PICK e \in RangeEnds, k \in {-1, 0, 1}, t \in BOOLEAN : x = [date |-> Days(e, k), timed |-> t]
      BY DEF Moments
    <3>2. e \in Dates
      BY <2>6 DEF RangeEnds
    <3>3. k \in Int
      OBVIOUS
    <3>4. Days(e, k) \in Dates
      BY <3>2, <3>3, DaysIs
    <3> QED BY <3>1, <3>4
  <2>8. \A x \in Moments, i \in DOMAIN query.found : Reached(query.found[i], x) <=> Raises(x, RangeOf(query.found[i]))
    BY <2>4, <2>7, ReachedIs
  <2>9. raised = {x \in Moments : \E i \in DOMAIN query.found : Raises(x, RangeOf(query.found[i]))}
    BY <2>5, Zenon DEF TimeInv, RaisedBy
  <2>10. raised = {x \in Moments : \E i \in DOMAIN query.found : Reached(query.found[i], x)}
    BY <2>8, <2>9
  <2>11. {x \in Moments : \E i \in DOMAIN query.asked : Reached(query.asked[i], x)} \subseteq raised
    <3> SUFFICES ASSUME NEW x \in Moments, NEW i \in DOMAIN query.asked, Reached(query.asked[i], x) PROVE x \in raised
      OBVIOUS
    <3>1. PICK j \in DOMAIN query.found : query.found[j] = query.asked[i]
      BY <2>3 DEF IsFound
    <3> QED BY <2>10, <3>1
  <2>12. query.found = query.asked =>
             raised = {x \in Moments : \E i \in DOMAIN query.asked : Reached(query.asked[i], x)}
    BY <2>10
  <2> QED BY <2>11, <2>12 DEF RangesAreCalendar
<1> QED BY <1>1, TimeInvHolds, PTL
================================================================================
