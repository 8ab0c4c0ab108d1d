------------------------------- MODULE SearchProofs -------------------------------
(* For any memories, searchers, callers and rows: what a search returns is of its owner and     *)
(* agent, and of the rest of its scope where the channels look at it; each access that a search *)
(* defers is counted once or its write has failed; what is told to one pet is not returned for  *)
(* another; a walk of the entity graph, which may grow meanwhile, finds what is near enough and  *)
(* nothing else; and of two results the one that is better in everything comes first, through   *)
(* all that changes the scores.                                                                  *)
EXTENDS Recall, FrontEnds, GraphWalk, Ranking, SumProofs, SequenceTheorems, FiniteSetTheorems, WellFoundedInduction,
        NaturalsInduction, TLAPS

--------------------------------------------------------------------------------
(* Search: the state and the inductive invariant *)

SearchRecord ==
    [pc : {"idle", "read", "check", "take", "write", "defer", "store"}, reads : SUBSET {"vectors", "words", "entities"},
     found : SUBSET Memories, seen : SUBSET Memories, hand : [Memories -> Nat], then : {"defer", "store"}]

\* What the variables hold.
RecallTypeOK ==
    /\ misses \in [Memories -> SUBSET Options] /\ channels \subseteq {"words", "entities"}
    /\ state \in [Memories -> {"absent", "active", "inactive", "gone"}]
    /\ searching \in [Searchers -> SearchRecord]
    /\ queue \in [Memories -> Nat]

\* While a search reads, it has seen all that is active, and reads none but the channels that are on.
\* What it has found is what RecallIsScoped asks.
Sound(q) ==
    /\ q.pc = "read" => Current \subseteq q.seen /\ q.reads \subseteq channels \cup {"vectors"}
    /\ \A m \in q.found : /\ m \in q.seen /\ "owner" \notin misses[m]
                          /\ "run" \in misses[m] => "entities" \in channels
                          /\ "filter" \in misses[m] => channels # {}

RecallInv == RecallTypeOK /\ \A s \in Searchers : Sound(searching[s])

LEMMA Counting ==
    ASSUME NEW f \in [Memories -> Nat], NEW g \in [Memories -> Nat]
    PROVE  /\ Plus(f, g) \in [Memories -> Nat] /\ None0 \in [Memories -> Nat]
           /\ \A A : [m \in Memories |-> IF m \in A THEN 1 ELSE 0] \in [Memories -> Nat]
           /\ \A x : [m \in Memories |-> IF m = x THEN 1 ELSE 0] \in [Memories -> Nat]
  BY DEF Plus, None0

LEMMA RestIsSound == AtRest \in SearchRecord /\ Sound(AtRest) /\ AtRest.found = {}
<1>1. None0 \in [Memories -> Nat]
  BY DEF None0
<1> QED BY <1>1 DEF AtRest, SearchRecord, Sound

LEMMA RecallStarts ==
    ASSUME RecallInit PROVE RecallInv
<1>1. misses \in [Memories -> SUBSET Options] /\ channels \subseteq {"words", "entities"}
  BY DEF RecallInit
<1>2. state \in [Memories -> {"absent", "active", "inactive", "gone"}] /\ queue \in [Memories -> Nat]
  BY DEF RecallInit
<1>3. searching \in [Searchers -> SearchRecord] /\ \A s \in Searchers : searching[s] = AtRest
  BY RestIsSound DEF RecallInit
<1> QED BY <1>1, <1>2, <1>3, RestIsSound DEF RecallInv, RecallTypeOK

\* A step of one search that leaves the memories as they are
LEMMA StepKeepsSound ==
    ASSUME RecallInv, NEW s \in Searchers, NEW q \in SearchRecord, Steps(s, q), Sound(q),
           UNCHANGED <<misses, channels, state>>, queue' \in [Memories -> Nat]
    PROVE  RecallInv'
<1>1. searching' \in [Searchers -> SearchRecord]
  BY DEF RecallInv, RecallTypeOK, Steps
<1>2. RecallTypeOK'
  BY <1>1 DEF RecallInv, RecallTypeOK
<1>3. \A r \in Searchers : searching'[r] = IF r = s THEN q ELSE searching[r]
  BY DEF RecallInv, RecallTypeOK, Steps
<1>4. Current' = Current
  BY DEF Current
<1>5. ASSUME NEW r \in Searchers PROVE Sound(searching[r])'
  <2>1. PICK p : p = searching'[r]
    OBVIOUS
  <2>2. Sound(p)
    BY <1>3, <2>1 DEF RecallInv
  <2> QED BY <1>4, <2>1, <2>2 DEF Sound
<1> QED BY <1>2, <1>5 DEF RecallInv

\* What each channel returns to a search that reads it is in its scope.
LEMMA ChannelsAreScoped ==
    ASSUME RecallInv, NEW s \in Searchers, searching[s].pc = "read",
           NEW channel \in channels \cup {"vectors"}, NEW m \in Returns(channel)
    PROVE  /\ m \in Memories /\ m \in searching[s].seen /\ "owner" \notin misses[m]
           /\ "run" \in misses[m] => "entities" \in channels
           /\ "filter" \in misses[m] => channels # {}
<1>1. channels \subseteq {"words", "entities"} /\ Current \subseteq searching[s].seen
  BY DEF RecallInv, RecallTypeOK, Sound
<1>2. CASE channel = "vectors"
  BY <1>1, <1>2 DEF Returns, VectorChannel, Satisfying, Options, Current
<1>3. CASE channel = "words"
  BY <1>1, <1>3 DEF Returns, WordChannel, Satisfying, Options, Current
<1>4. CASE channel = "entities"
  BY <1>1, <1>4 DEF Returns, EntityChannel, Satisfying, Options, Current
<1> QED BY <1>1, <1>2, <1>3, <1>4

LEMMA ReadingKeepsSound ==
    ASSUME RecallInv, NEW s \in Searchers,
           SearchStart(s) \/ (\E channel \in searching[s].reads : SearchRead(s, channel)) \/ SearchFuse(s)
    PROVE  RecallInv'
<1>0. PICK q \in SearchRecord : q = searching[s]
  BY DEF RecallInv, RecallTypeOK
<1>1. Sound(q) /\ queue \in [Memories -> Nat] /\ channels \subseteq {"words", "entities"} /\ Current \subseteq Memories
  BY <1>0 DEF RecallInv, RecallTypeOK, Current
<1>2. ASSUME SearchStart(s) PROVE RecallInv'
  <2>1. PICK p : p = [AtRest EXCEPT !.pc = "read", !.reads = channels \cup {"vectors"}, !.seen = Current]
    OBVIOUS
  <2>2. p \in SearchRecord /\ p.pc = "read" /\ p.reads = channels \cup {"vectors"} /\ p.seen = Current /\ p.found = {}
    <3>1. PICK r \in SearchRecord : r = AtRest /\ r.found = {}
      BY RestIsSound
    <3>2. PICK reads, seen : reads = channels \cup {"vectors"} /\ seen = Current
      OBVIOUS
    <3>3. p = [r EXCEPT !.pc = "read", !.reads = reads, !.seen = seen]
      BY <2>1, <3>1, <3>2
    <3>4. reads \in SUBSET {"vectors", "words", "entities"} /\ seen \in SUBSET Memories
      BY <1>1, <3>2
    <3>5. p \in SearchRecord /\ p.pc = "read" /\ p.reads = reads /\ p.seen = seen /\ p.found = {}
      BY <3>1, <3>3, <3>4 DEF SearchRecord
    <3> QED BY <3>2, <3>5
  <2>3. Sound(p)
    BY <2>2 DEF Sound
  <2> QED BY <1>1, <1>2, <2>1, <2>2, <2>3, StepKeepsSound DEF SearchStart
<1>3. ASSUME NEW channel \in searching[s].reads, SearchRead(s, channel) PROVE RecallInv'
  <2>1. q.pc = "read" /\ channel \in channels \cup {"vectors"}
    BY <1>0, <1>1, <1>3 DEF SearchRead, Sound
  <2>2. PICK F : F = Returns(channel)
    OBVIOUS
  <2>3. PICK p : Steps(s, p) /\ (\/ p = [q EXCEPT !.reads = @ \ {channel}, !.found = @ \cup F]
                                \/ p = [q EXCEPT !.reads = @ \ {channel}] \/ p = AtRest)
    BY <1>0, <1>3, <2>2 DEF SearchRead
  <2>4. CASE p = AtRest
    BY <1>1, <1>3, <2>3, <2>4, RestIsSound, StepKeepsSound DEF SearchRead
  <2>5. CASE p = [q EXCEPT !.reads = @ \ {channel}]
    <3>1. p \in SearchRecord /\ p.pc = q.pc /\ p.reads \subseteq q.reads /\ p.found = q.found /\ p.seen = q.seen
      BY <2>5 DEF SearchRecord
    <3>2. Sound(p)
      BY <1>1, <3>1 DEF Sound
    <3> QED BY <1>1, <1>3, <2>3, <3>1, <3>2, StepKeepsSound DEF SearchRead
  <2>6. CASE p = [q EXCEPT !.reads = @ \ {channel}, !.found = @ \cup F]
    <3>1. \A m \in F : /\ m \in Memories /\ m \in q.seen /\ "owner" \notin misses[m]
                       /\ "run" \in misses[m] => "entities" \in channels
                       /\ "filter" \in misses[m] => channels # {}
      BY <1>0, <2>1, <2>2, ChannelsAreScoped
    <3>2. /\ p \in SearchRecord /\ p.pc = q.pc /\ p.reads \subseteq q.reads /\ p.found = q.found \cup F
          /\ p.seen = q.seen
      BY <2>6, <3>1 DEF SearchRecord
    <3>3. Sound(p)
      BY <1>1, <3>1, <3>2 DEF Sound
    <3> QED BY <1>1, <1>3, <2>3, <3>2, <3>3, StepKeepsSound DEF SearchRead
  <2> QED BY <2>3, <2>4, <2>5, <2>6
<1>4. ASSUME SearchFuse(s) PROVE RecallInv'
  <2>1. q.pc = "read"
    BY <1>0, <1>4 DEF SearchFuse
  <2>2. PICK F, p : /\ Steps(s, p) /\ p = [q EXCEPT !.pc = "check", !.found = @ \cup F]
                    /\ F = {} \/ (F = EntityChannel /\ "entities" \in channels)
    <3>1. CASE Steps(s, [searching[s] EXCEPT !.pc = "check"])
      <4>1. [q EXCEPT !.pc = "check"] = [q EXCEPT !.pc = "check", !.found = @ \cup {}]
        BY DEF SearchRecord
      <4> QED BY <1>0, <3>1, <4>1
    <3> QED BY <1>0, <1>4, <3>1 DEF SearchFuse
  <2>3. \A m \in F : /\ m \in Memories /\ m \in q.seen /\ "owner" \notin misses[m]
                     /\ "run" \in misses[m] => "entities" \in channels
                     /\ "filter" \in misses[m] => channels # {}
    BY <1>0, <2>1, <2>2, ChannelsAreScoped DEF Returns
  <2>4. p \in SearchRecord /\ p.pc = "check" /\ p.found = q.found \cup F /\ p.seen = q.seen
    BY <2>2, <2>3 DEF SearchRecord
  <2>5. Sound(p)
    BY <1>1, <2>3, <2>4 DEF Sound
  <2> QED BY <1>1, <1>4, <2>2, <2>4, <2>5, StepKeepsSound DEF SearchFuse
<1> QED BY <1>2, <1>3, <1>4

\* One write of a flush takes one from the hand.
OneLess(q, m) == [q EXCEPT !.hand[m] = @ - 1]

LEMMA OneWritten ==
    ASSUME NEW q \in SearchRecord, NEW m \in Memories, q.hand[m] > 0
    PROVE  /\ OneLess(q, m) \in SearchRecord
           /\ OneLess(q, m).hand = [q.hand EXCEPT ![m] = q.hand[m] - 1]
           /\ OneLess(q, m).pc = q.pc /\ OneLess(q, m).found = q.found /\ OneLess(q, m).seen = q.seen
<1>1. q.hand \in [Memories -> Nat]
  BY DEF SearchRecord
<1>2. PICK h \in [Memories -> Nat] : h = [q.hand EXCEPT ![m] = q.hand[m] - 1]
  <2>1. PICK n \in Nat : n = q.hand[m] - 1
    BY <1>1
  <2>2. [q.hand EXCEPT ![m] = n] \in [Memories -> Nat]
    BY <1>1
  <2> QED BY <2>1, <2>2
<1>3. OneLess(q, m) = [q EXCEPT !.hand = h]
  BY <1>2 DEF OneLess
<1>4. PICK w : w = [q EXCEPT !.hand = h]
  OBVIOUS
<1>5. w \in SearchRecord /\ w.hand = h /\ w.pc = q.pc /\ w.found = q.found /\ w.seen = q.seen
  BY <1>4 DEF SearchRecord
<1> QED BY <1>2, <1>3, <1>4, <1>5

\* The flushes, the deferral and the reads of single memories find nothing more.
LEMMA CountingKeepsSound ==
    ASSUME RecallInv, NEW s \in Searchers,
           \/ SearchCheck(s) \/ SearchTake(s) \/ SearchWrite(s) \/ SearchWritten(s) \/ SearchDefer(s)
           \/ AddStart(s) \/ NothingAppears(s) \/ \E m \in Memories : GetTrace(s, m)
    PROVE  RecallInv'
<1>0. PICK q \in SearchRecord : q = searching[s]
  BY DEF RecallInv, RecallTypeOK
<1>1. Sound(q) /\ queue \in [Memories -> Nat] /\ None0 \in [Memories -> Nat]
  BY <1>0 DEF RecallInv, RecallTypeOK, None0
<1> DEFINE Same(p) == /\ p \in SearchRecord /\ p.pc # "read"
                      /\ p.found = {} \/ (p.found = q.found /\ p.seen = q.seen)
<1>2. PICK r \in SearchRecord : r = AtRest /\ r.found = {} /\ r.pc = "idle"
  BY RestIsSound DEF AtRest
<1>3. Same(r) /\ Same([r EXCEPT !.pc = "take"]) /\ Same([r EXCEPT !.pc = "take", !.then = "store"])
  BY <1>2 DEF SearchRecord
<1>4. \A pc \in {"take", "defer", "store"} : Same([q EXCEPT !.pc = pc])
  BY DEF SearchRecord
<1>5. \A h \in [Memories -> Nat] : Same([q EXCEPT !.pc = "write", !.hand = h])
  BY DEF SearchRecord
<1>6. ASSUME SearchWrite(s) PROVE \E p : Steps(s, p) /\ Same(p)
  <2>1. PICK m \in Memories : q.hand[m] > 0 /\ Steps(s, OneLess(q, m)) /\ q.pc = "write"
    BY <1>0, <1>6 DEF SearchWrite, OneLess
  <2>2. PICK p : p = OneLess(q, m)
    OBVIOUS
  <2>3. p \in SearchRecord /\ p.pc = q.pc /\ p.found = q.found /\ p.seen = q.seen
    BY <2>1, <2>2, OneWritten
  <2> QED BY <2>1, <2>2, <2>3
<1>7. PICK p : Steps(s, p) /\ Same(p)
  <2>1. CASE SearchCheck(s)
    BY <1>0, <1>4, <2>1 DEF SearchCheck
  <2>2. CASE SearchTake(s)
    BY <1>0, <1>1, <1>5, <2>2 DEF SearchTake
  <2>3. CASE SearchWrite(s)
    BY <1>6, <2>3
  <2>4. CASE SearchWritten(s)
    <3>1. q.then \in {"take", "defer", "store"}
      BY DEF SearchRecord
    <3> QED BY <1>0, <1>4, <2>4, <3>1 DEF SearchWritten
  <2>5. CASE SearchDefer(s) \/ NothingAppears(s) \/ \E m \in Memories : GetTrace(s, m)
    BY <1>2, <1>3, <2>5 DEF SearchDefer, NothingAppears, GetTrace
  <2>6. CASE AddStart(s)
    BY <1>2, <1>3, <2>6 DEF AddStart
  <2> QED BY <2>1, <2>2, <2>3, <2>4, <2>5, <2>6
<1>8. Sound(p)
  BY <1>1, <1>7 DEF Sound
<1>9. UNCHANGED <<misses, channels, state>>
  BY DEF SearchCheck, SearchTake, SearchWrite, SearchWritten, SearchDefer, AddStart, NothingAppears, GetTrace
<1>10. queue' \in [Memories -> Nat]
  <2>1. queue' = queue \/ queue' = None0 \/ \E one \in [Memories -> Nat] : queue' = Plus(queue, one)
    BY <1>1, Counting
       DEF SearchCheck, SearchTake, SearchWrite, SearchWritten, SearchDefer, AddStart, NothingAppears, GetTrace
  <2> QED BY <1>1, <2>1, Counting
<1> QED BY <1>7, <1>8, <1>9, <1>10, StepKeepsSound

\* A memory that appears has been seen by the searches in progress; one that leaves was seen before.
LEMMA ChangesKeepSound ==
    ASSUME RecallInv, NEW m \in Memories, (\E s \in Searchers : MemoryAppears(s, m)) \/ MemoryLeaves(m)
    PROVE  RecallInv'
<1>0. RecallTypeOK
  BY DEF RecallInv
<1>1. ASSUME NEW adding \in Searchers, MemoryAppears(adding, m) PROVE RecallInv'
  <2>1. /\ searching' = [s \in Searchers |-> IF s = adding THEN AtRest ELSE [searching[s] EXCEPT !.seen = @ \cup {m}]]
        /\ state' = [state EXCEPT ![m] = "active"] /\ UNCHANGED <<misses, channels, queue>>
    BY <1>1 DEF MemoryAppears
  <2>2. \A s \in Searchers \ {adding} :
          /\ searching'[s] \in SearchRecord /\ searching'[s].pc = searching[s].pc
          /\ searching'[s].reads = searching[s].reads /\ searching'[s].found = searching[s].found
          /\ searching'[s].seen = searching[s].seen \cup {m}
    BY <1>0, <2>1 DEF RecallTypeOK, SearchRecord
  <2>3. searching'[adding] = AtRest /\ AtRest \in SearchRecord
    BY <2>1, RestIsSound
  <2>4. searching' \in [Searchers -> SearchRecord]
    BY <2>1, <2>2, <2>3
  <2>5. RecallTypeOK'
    BY <1>0, <2>1, <2>4 DEF RecallTypeOK
  <2>6. Current' \subseteq Current \cup {m}
    BY <1>0, <2>1 DEF RecallTypeOK, Current
  <2>7. ASSUME NEW s \in Searchers PROVE Sound(searching[s])'
    <3>1. Sound(searching[s])
      BY DEF RecallInv
    <3>2. CASE s = adding
      <4>1. PICK r \in SearchRecord : r = AtRest /\ r.found = {} /\ r.pc = "idle"
        BY RestIsSound DEF AtRest
      <4> QED BY <2>3, <3>2, <4>1 DEF Sound
    <3>3. CASE s # adding
      <4>1. PICK q : q = searching[s]
        OBVIOUS
      <4>2. PICK r : r = searching'[s]
        OBVIOUS
      <4>3. r.pc = q.pc /\ r.reads = q.reads /\ r.found = q.found /\ r.seen = q.seen \cup {m}
        BY <2>2, <3>3, <4>1, <4>2
      <4>4. Sound(q) /\ misses' = misses /\ channels' = channels
        BY <2>1, <3>1, <4>1
      <4> QED BY <2>6, <4>2, <4>3, <4>4 DEF Sound
    <3> QED BY <3>2, <3>3
  <2> QED BY <2>5, <2>7 DEF RecallInv
<1>2. CASE MemoryLeaves(m)
  <2>1. PICK left \in {"inactive", "gone"} : state' = [state EXCEPT ![m] = left]
    BY <1>2 DEF MemoryLeaves
  <2>2. UNCHANGED <<misses, channels, searching, queue>>
    BY <1>2 DEF MemoryLeaves
  <2>3. RecallTypeOK' /\ Current' \subseteq Current
    BY <1>0, <2>1, <2>2 DEF RecallTypeOK, Current
  <2> QED BY <2>2, <2>3 DEF RecallInv, Sound
<1> QED BY <1>1, <1>2

\* For any memories and searchers, and whatever is added, superseded or deleted meanwhile: a result of search
\* (memory/search.rs) was active during the call and is of its owner and agent; it is of the run and the app
\* that were asked for if the graph is off, and satisfies the filter if the vectors alone are searched.
THEOREM ResultsAreScoped == RecallSpec => []RecallIsScoped
<1>1. ASSUME RecallInv, [RecallNext]_recallVars PROVE RecallInv'
  <2>1. CASE RecallNext
    BY <1>1, <2>1, ReadingKeepsSound, CountingKeepsSound, ChangesKeepSound DEF RecallNext
  <2>2. CASE UNCHANGED recallVars
    BY <1>1, <2>2 DEF RecallInv, RecallTypeOK, Sound, Current, recallVars
  <2> QED BY <1>1, <2>1, <2>2
<1>2. RecallInv => RecallIsScoped
  BY DEF RecallInv, RecallTypeOK, Sound, RecallIsScoped
<1> QED BY <1>1, <1>2, RecallStarts, PTL DEF RecallSpec

--------------------------------------------------------------------------------
(* Search: the deferred counts of accesses *)

Flushing == {s \in Searchers : searching[s].pc \in {"write", "defer"}}
Hands(m) == [r \in Searchers |-> searching[r].hand[m]]

\* Who is past the check of the queue's length may yet push as many results as there are memories.
QueueIsShort ==
    2 * Total(queue, Memories) + 2 * (Cardinality(Flushing) * Cardinality(Memories))
        < QueueCap + 2 * (Cardinality(Searchers) * Cardinality(Memories)) + 2 * usedUp.gets

\* A search has counts in its hands only between the taking and the writing of the queue.
HandsAreEmpty == \A s \in Searchers : searching[s].pc # "write" => searching[s].hand = None0

Accounted ==
    \A m \in Memories :
        LET held == queue[m] + Total(Hands(m), Searchers)
        IN  IF state[m] = "gone" THEN accesses[m] + held + lost[m] <= hits[m]
            ELSE accesses[m] + held + lost[m] = hits[m]

Spent == [searches : Nat, gets : Nat, changes : Nat, losses : Nat]

CountInv ==
    /\ RecallInv
    /\ accesses \in [Memories -> Nat] /\ hits \in [Memories -> Nat] /\ lost \in [Memories -> Nat]
    /\ usedUp \in Spent
    /\ QueueIsShort /\ HandsAreEmpty /\ Accounted

\* The sizes: d searches of n may push, m results each.
LEMMA RoomForAll ==
    ASSUME NEW d \in Nat, NEW n \in Nat, NEW m \in Nat, d <= n
    PROVE  d * m \in Nat /\ n * m \in Nat /\ d * m <= n * m /\ (d + 1) * m = d * m + m
<1>1. PICK k \in Nat : n = d + k
  <2>1. n - d \in Nat /\ n = d + (n - d)
    OBVIOUS
  <2> QED BY <2>1
<1>2. (d + k) * m = d * m + k * m /\ d * m \in Nat /\ k * m \in Nat /\ (d + 1) * m = d * m + m
  OBVIOUS
<1>3. n * m = d * m + k * m
  BY <1>1, <1>2
<1> QED BY <1>2, <1>3

LEMMA Sizes ==
    /\ Cardinality(Memories) \in Nat /\ Cardinality(Searchers) \in Nat \ {0}
    /\ \A F \in SUBSET Searchers :
          /\ IsFiniteSet(F) /\ Cardinality(F) \in Nat /\ Cardinality(F) <= Cardinality(Searchers)
          /\ \A s \in F : Cardinality(F) = Cardinality(F \ {s}) + 1
<1>1. IsFiniteSet(Memories) /\ IsFiniteSet(Searchers) /\ Searchers # {}
  BY RecallAssumption
<1>2. Cardinality(Memories) \in Nat /\ Cardinality(Searchers) \in Nat \ {0}
  BY <1>1, FS_CardinalityType, FS_EmptySet
<1>3. ASSUME NEW F \in SUBSET Searchers
      PROVE  IsFiniteSet(F) /\ Cardinality(F) \in Nat /\ Cardinality(F) <= Cardinality(Searchers)
  BY <1>1, FS_Subset, FS_CardinalityType
<1>4. ASSUME NEW F \in SUBSET Searchers, NEW s \in F
      PROVE  Cardinality(F) = Cardinality(F \ {s}) + 1
  <2>1. IsFiniteSet(F \ {s}) /\ s \notin F \ {s} /\ (F \ {s}) \cup {s} = F
    BY <1>1, FS_Subset
  <2> QED BY <2>1, FS_AddElement
<1> QED BY <1>2, <1>3, <1>4

\* What has been found is at most everything.
LEMMA SomeOfTheMemories ==
    ASSUME NEW A \in SUBSET Memories
    PROVE  LET one == [m \in Memories |-> IF m \in A THEN 1 ELSE 0]
           IN  one \in [Memories -> Nat] /\ Total(one, Memories) \in Nat /\ Total(one, Memories) <= Cardinality(Memories)
<1>1. IsFiniteSet(Memories) /\ A \cap Memories = A
  BY RecallAssumption
<1>2. Total([m \in Memories |-> IF m \in A THEN 1 ELSE 0], Memories) = Cardinality(A)
  BY <1>1, TotalOfSome
<1>3. Cardinality(A) \in Nat /\ Cardinality(A) <= Cardinality(Memories)
  BY <1>1, FS_Subset, FS_CardinalityType
<1> QED BY <1>2, <1>3

LEMMA QueueTotals ==
    ASSUME NEW f \in [Memories -> Nat], NEW g \in [Memories -> Nat]
    PROVE  /\ Total(f, Memories) \in Nat /\ Total(None0, Memories) = 0
           /\ Total(Plus(f, g), Memories) = Total(f, Memories) + Total(g, Memories)
<1>1. IsFiniteSet(Memories)
  BY RecallAssumption
<1> QED BY <1>1, TotalIsNat, TotalOfNone, TotalAdds DEF None0, Plus

--------------------------------------------------------------------------------
\* A step of a search changes its own hand alone.
LEMMA HandMoves ==
    ASSUME CountInv, NEW s \in Searchers, NEW q \in SearchRecord, Steps(s, q)
    PROVE  /\ \A m \in Memories :
                 /\ Total(Hands(m), Searchers) \in Nat /\ Total(Hands(m)', Searchers) \in Nat
                 /\ Total(Hands(m)', Searchers) + searching[s].hand[m] = Total(Hands(m), Searchers) + q.hand[m]
           /\ Flushing' = IF q.pc \in {"write", "defer"} THEN Flushing \cup {s} ELSE Flushing \ {s}
           /\ \A r \in Searchers : searching'[r] = IF r = s THEN q ELSE searching[r]
<1>1. searching \in [Searchers -> SearchRecord] /\ searching' = [searching EXCEPT ![s] = q]
  BY DEF CountInv, RecallInv, RecallTypeOK, Steps
<1>2. \A r \in Searchers : searching'[r] = IF r = s THEN q ELSE searching[r]
  BY <1>1
<1>3. Flushing' = IF q.pc \in {"write", "defer"} THEN Flushing \cup {s} ELSE Flushing \ {s}
  BY <1>2 DEF Flushing
<1>4. ASSUME NEW m \in Memories
      PROVE  /\ Total(Hands(m), Searchers) \in Nat /\ Total(Hands(m)', Searchers) \in Nat
             /\ Total(Hands(m)', Searchers) + searching[s].hand[m] = Total(Hands(m), Searchers) + q.hand[m]
  <2>0. \A r \in Searchers : searching[r].hand[m] \in Nat
    BY <1>1 DEF SearchRecord
  <2>a. Hands(m) \in [Searchers -> Nat] /\ \A r \in Searchers : Hands(m)[r] = searching[r].hand[m]
    BY <2>0 DEF Hands
  <2>1. PICK f : f \in [Searchers -> Nat] /\ f = Hands(m) /\ \A r \in Searchers : f[r] = searching[r].hand[m]
    BY <2>a
  <2>2. PICK n \in Nat : n = q.hand[m]
    BY DEF SearchRecord
  <2>3. PICK h : h \in [Searchers -> Nat] /\ h = [f EXCEPT ![s] = n]
    BY <2>1
  <2>4. Hands(m)' = h
    <3>1. \A r \in Searchers : searching'[r].hand[m] = h[r]
      BY <1>2, <2>1, <2>2, <2>3
    <3>2. Hands(m)' = [r \in Searchers |-> h[r]]
      BY <3>1 DEF Hands
    <3> QED BY <2>3, <3>2
  <2>5. IsFiniteSet(Searchers)
    BY RecallAssumption
  <2>6. Total([f EXCEPT ![s] = n], Searchers) + f[s] = Total(f, Searchers) + n
    BY <2>1, <2>5, TotalOfChange
  <2>7. Total(f, Searchers) \in Nat /\ Total(h, Searchers) \in Nat
    BY <2>1, <2>3, <2>5, TotalIsNat
  <2> QED BY <2>1, <2>2, <2>3, <2>4, <2>6, <2>7
<1> QED BY <1>2, <1>3, <1>4

\* What has been used up: one more of one kind
LEMMA UsesUp ==
    ASSUME usedUp \in Spent
    PROVE  /\ [usedUp EXCEPT !.searches = @ + 1] \in Spent /\ [usedUp EXCEPT !.searches = @ + 1].gets = usedUp.gets
           /\ [usedUp EXCEPT !.changes = @ + 1] \in Spent /\ [usedUp EXCEPT !.changes = @ + 1].gets = usedUp.gets
           /\ [usedUp EXCEPT !.losses = @ + 1] \in Spent /\ [usedUp EXCEPT !.losses = @ + 1].gets = usedUp.gets
           /\ [usedUp EXCEPT !.searches = @ + 1, !.gets = @ + 1] \in Spent
           /\ [usedUp EXCEPT !.searches = @ + 1, !.gets = @ + 1].gets = usedUp.gets + 1
<1>1. PICK u \in Spent : u = usedUp
  OBVIOUS
<1>2. /\ [u EXCEPT !.searches = @ + 1] \in Spent /\ [u EXCEPT !.searches = @ + 1].gets = u.gets
      /\ [u EXCEPT !.changes = @ + 1] \in Spent /\ [u EXCEPT !.changes = @ + 1].gets = u.gets
  BY DEF Spent
<1>3. [u EXCEPT !.losses = @ + 1] \in Spent /\ [u EXCEPT !.losses = @ + 1].gets = u.gets
  BY DEF Spent
<1>4. PICK v \in Spent : v = [u EXCEPT !.searches = @ + 1] /\ v.gets = u.gets
  BY <1>2
<1>5. PICK w \in Spent : w = [v EXCEPT !.gets = @ + 1] /\ w.gets = u.gets + 1
  <2>1. [v EXCEPT !.gets = @ + 1] \in Spent /\ [v EXCEPT !.gets = @ + 1].gets = v.gets + 1
    BY DEF Spent
  <2> QED BY <1>4, <2>1
<1>6. [u EXCEPT !.searches = @ + 1, !.gets = @ + 1] = w
  BY <1>4, <1>5
<1> QED BY <1>1, <1>2, <1>3, <1>5, <1>6

\* A step of a search that keeps the counts, and its hand empty.
LEMMA QuietStepCounts ==
    ASSUME CountInv, RecallInv', NEW s \in Searchers, NEW q \in SearchRecord, Steps(s, q),
           searching[s].pc \notin {"write", "defer"}, q.pc \notin {"write", "defer"}, q.hand = None0,
           UNCHANGED <<state, queue, accesses, hits, lost>>, usedUp'.gets = usedUp.gets, usedUp' \in Spent
    PROVE  CountInv'
<1>1. searching[s].hand = None0
  BY DEF CountInv, HandsAreEmpty
<1>2. Flushing' = Flushing
  BY HandMoves DEF Flushing
<1>3. QueueIsShort'
  BY <1>2 DEF CountInv, QueueIsShort
<1>4. HandsAreEmpty'
  BY HandMoves DEF CountInv, HandsAreEmpty
<1>5. \A m \in Memories : Total(Hands(m)', Searchers) = Total(Hands(m), Searchers)
  <2> SUFFICES ASSUME NEW m \in Memories PROVE Total(Hands(m)', Searchers) = Total(Hands(m), Searchers)
    OBVIOUS
  <2>1. searching[s].hand[m] = 0 /\ q.hand[m] = 0
    BY <1>1 DEF None0
  <2> QED BY <2>1, HandMoves
<1>6. Accounted'
  BY <1>5 DEF CountInv, Accounted
<1> QED BY <1>3, <1>4, <1>6 DEF CountInv

\* What a search's step makes of its record, and of nothing else
LEMMA FieldsOf ==
    ASSUME CountInv, NEW s \in Searchers
    PROVE  /\ searching[s] \in SearchRecord
           /\ \A pc \in {"check", "take", "defer", "store"} :
                 LET q == [searching[s] EXCEPT !.pc = pc]
                 IN  q \in SearchRecord /\ q.pc = pc /\ q.hand = searching[s].hand
           /\ AtRest \in SearchRecord /\ AtRest.pc = "idle" /\ AtRest.hand = None0
           /\ [AtRest EXCEPT !.pc = "take"] \in SearchRecord
           /\ [AtRest EXCEPT !.pc = "take"].pc = "take" /\ [AtRest EXCEPT !.pc = "take"].hand = None0
           /\ [AtRest EXCEPT !.pc = "take", !.then = "store"] \in SearchRecord
           /\ [AtRest EXCEPT !.pc = "take", !.then = "store"].pc = "take"
           /\ [AtRest EXCEPT !.pc = "take", !.then = "store"].hand = None0
<1>1. searching[s] \in SearchRecord
  BY DEF CountInv, RecallInv, RecallTypeOK
<1>2. PICK q \in SearchRecord : q = searching[s]
  BY <1>1
<1>3. ASSUME NEW pc \in {"check", "take", "defer", "store"}
      PROVE  [q EXCEPT !.pc = pc] \in SearchRecord /\ [q EXCEPT !.pc = pc].pc = pc /\ [q EXCEPT !.pc = pc].hand = q.hand
  BY DEF SearchRecord
<1>4. PICK r \in SearchRecord : r = AtRest /\ r.pc = "idle" /\ r.hand = None0
  BY RestIsSound DEF AtRest
<1>5. [r EXCEPT !.pc = "take"] \in SearchRecord /\ [r EXCEPT !.pc = "take"].pc = "take"
      /\ [r EXCEPT !.pc = "take"].hand = None0
  BY <1>4 DEF SearchRecord
<1>6. [r EXCEPT !.pc = "take", !.then = "store"] \in SearchRecord /\ [r EXCEPT !.pc = "take", !.then = "store"].pc = "take"
      /\ [r EXCEPT !.pc = "take", !.then = "store"].hand = None0
  BY <1>4 DEF SearchRecord
<1> QED BY <1>2, <1>3, <1>4, <1>5, <1>6

LEMMA ReadingCounts ==
    ASSUME CountInv, NEW s \in Searchers,
           SearchStart(s) \/ (\E channel \in searching[s].reads : SearchRead(s, channel)) \/ SearchFuse(s)
    PROVE  CountInv'
<1>0. RecallInv'
  BY ReadingKeepsSound DEF CountInv
<1>1. PICK o \in SearchRecord : o = searching[s]
  BY FieldsOf
<1>2. o.pc \notin {"write", "defer"} /\ o.hand = None0
  BY <1>1 DEF CountInv, HandsAreEmpty, SearchStart, SearchRead, SearchFuse
<1>3. searching' \in [Searchers -> SearchRecord]
  BY <1>0 DEF RecallInv, RecallTypeOK
<1>4. PICK q : Steps(s, q) /\ q.pc \notin {"write", "defer"} /\ q.hand = None0
  <2>1. CASE SearchStart(s)
    <3>1. PICK r \in SearchRecord : r = AtRest /\ r.hand = None0
      BY FieldsOf
    <3>2. PICK q : Steps(s, q) /\ q = [r EXCEPT !.pc = "read", !.reads = channels \cup {"vectors"}, !.seen = Current]
      BY <2>1, <3>1 DEF SearchStart
    <3>3. q.pc = "read" /\ q.hand = r.hand
      BY <3>2 DEF SearchRecord
    <3> QED BY <3>1, <3>2, <3>3
  <2>2. ASSUME NEW channel \in searching[s].reads, SearchRead(s, channel)
        PROVE  \E q : Steps(s, q) /\ q.pc \notin {"write", "defer"} /\ q.hand = None0
    <3>1. PICK F : F = Returns(channel)
      OBVIOUS
    <3>2. PICK q : Steps(s, q) /\ (\/ q = [o EXCEPT !.reads = @ \ {channel}, !.found = @ \cup F]
                                   \/ q = [o EXCEPT !.reads = @ \ {channel}] \/ q = AtRest)
      BY <1>1, <2>2, <3>1 DEF SearchRead
    <3>3. CASE q = AtRest
      BY <3>2, <3>3, FieldsOf
    <3>4. CASE q = [o EXCEPT !.reads = @ \ {channel}, !.found = @ \cup F] \/ q = [o EXCEPT !.reads = @ \ {channel}]
      <4>1. q.pc = o.pc /\ q.hand = o.hand
        BY <3>4 DEF SearchRecord
      <4> QED BY <1>2, <3>2, <4>1
    <3> QED BY <3>2, <3>3, <3>4
  <2>3. CASE SearchFuse(s)
    <3>1. PICK F : F = EntityChannel
      OBVIOUS
    <3>2. PICK q : Steps(s, q) /\ (q = [o EXCEPT !.pc = "check"] \/ q = [o EXCEPT !.pc = "check", !.found = @ \cup F])
      BY <1>1, <2>3, <3>1 DEF SearchFuse
    <3>3. q.pc = "check" /\ q.hand = o.hand
      BY <3>2 DEF SearchRecord
    <3> QED BY <1>2, <3>2, <3>3
  <2> QED BY <2>1, <2>2, <2>3
<1>5. q \in SearchRecord
  <2>1. searching'[s] = q
    BY <1>4 DEF CountInv, RecallInv, RecallTypeOK, Steps
  <2> QED BY <1>3, <2>1
<1>6. UNCHANGED <<state, queue, accesses, hits, lost>> /\ usedUp'.gets = usedUp.gets /\ usedUp' \in Spent
  <2>1. usedUp' = usedUp \/ usedUp' = [usedUp EXCEPT !.searches = @ + 1]
    BY DEF SearchStart, SearchRead, SearchFuse
  <2>2. UNCHANGED <<state, queue, accesses, hits, lost>>
    BY DEF SearchStart, SearchRead, SearchFuse
  <2> QED BY <2>1, <2>2, UsesUp DEF CountInv
<1> QED BY <1>0, <1>1, <1>2, <1>4, <1>5, <1>6, QuietStepCounts

\* Going on to defer with a queue below its capacity leaves room for all.
LEMMA CheckCounts ==
    ASSUME CountInv, NEW s \in Searchers, SearchCheck(s)
    PROVE  CountInv'
<1>0. RecallInv' /\ UNCHANGED <<state, queue, accesses, hits, lost, usedUp>> /\ searching[s].hand = None0 /\ s \notin Flushing
  BY CountingKeepsSound DEF CountInv, SearchCheck, HandsAreEmpty, Flushing
<1>1. CASE Steps(s, [searching[s] EXCEPT !.pc = "take"])
  BY <1>0, <1>1, FieldsOf, QuietStepCounts DEF CountInv, SearchCheck
<1>2. CASE QueueLength < QueueCap /\ Steps(s, [searching[s] EXCEPT !.pc = "defer"])
  <2>1. PICK q \in SearchRecord : Steps(s, q) /\ q.pc = "defer" /\ q.hand = None0
    BY <1>0, <1>2, FieldsOf
  <2>2. 2 * Total(queue, Memories) < QueueCap
    BY <1>2 DEF QueueLength, Total
  <2>3. Flushing' = Flushing \cup {s} /\ Flushing' \in SUBSET Searchers
    BY <2>1, HandMoves DEF Flushing
  <2>4. PICK d \in Nat, n \in Nat, m \in Nat : /\ d = Cardinality(Flushing') /\ n = Cardinality(Searchers)
                                               /\ m = Cardinality(Memories) /\ d <= n
    BY <2>3, Sizes
  <2>5. QueueIsShort'
    <3>1. d * m \in Nat /\ n * m \in Nat /\ d * m <= n * m
      BY <2>4, RoomForAll
    <3>2. Total(queue, Memories) \in Nat /\ usedUp.gets \in Nat /\ QueueCap \in Nat
      BY QueueTotals, RecallAssumption DEF CountInv, RecallInv, RecallTypeOK, Spent
    <3> QED BY <1>0, <2>2, <2>4, <3>1, <3>2 DEF QueueIsShort
  <2>6. HandsAreEmpty'
    BY <2>1, HandMoves DEF CountInv, HandsAreEmpty
  <2>7. \A m1 \in Memories : Total(Hands(m1)', Searchers) = Total(Hands(m1), Searchers)
    <3> SUFFICES ASSUME NEW m1 \in Memories PROVE Total(Hands(m1)', Searchers) = Total(Hands(m1), Searchers)
      OBVIOUS
    <3>1. searching[s].hand[m1] = 0 /\ q.hand[m1] = 0
      BY <1>0, <2>1 DEF None0
    <3> QED BY <2>1, <3>1, HandMoves
  <2>8. Accounted'
    BY <1>0, <2>7 DEF CountInv, Accounted
  <2> QED BY <1>0, <2>5, <2>6, <2>8 DEF CountInv
<1> QED BY <1>1, <1>2 DEF SearchCheck

\* The queue goes into the hands of the search whole, whatever its length.
LEMMA TakeCounts ==
    ASSUME CountInv, NEW s \in Searchers, SearchTake(s)
    PROVE  CountInv'
<1>0. /\ RecallInv' /\ UNCHANGED <<state, accesses, hits, lost, usedUp>> /\ queue' = None0
      /\ searching[s].hand = None0 /\ queue \in [Memories -> Nat] /\ searching[s] \in SearchRecord
  BY CountingKeepsSound, FieldsOf DEF CountInv, SearchTake, HandsAreEmpty, RecallInv, RecallTypeOK
<1>1. PICK q \in SearchRecord : Steps(s, q) /\ q.pc = "write" /\ q.hand = queue
  <2>1. PICK o \in SearchRecord, h \in [Memories -> Nat] : o = searching[s] /\ h = queue
    BY <1>0
  <2>2. [o EXCEPT !.pc = "write", !.hand = h] \in SearchRecord /\ [o EXCEPT !.pc = "write", !.hand = h].pc = "write"
        /\ [o EXCEPT !.pc = "write", !.hand = h].hand = h
    BY DEF SearchRecord
  <2> QED BY <2>1, <2>2 DEF SearchTake
<1>2. Flushing' = Flushing \cup {s} /\ Flushing' \in SUBSET Searchers
  BY <1>1, HandMoves DEF Flushing
<1>3. QueueIsShort'
  <2>1. PICK d \in Nat, n \in Nat, m \in Nat : /\ d = Cardinality(Flushing') /\ n = Cardinality(Searchers)
                                               /\ m = Cardinality(Memories) /\ d <= n
    BY <1>2, Sizes
  <2>2. d * m \in Nat /\ n * m \in Nat /\ d * m <= n * m
    BY <2>1, RoomForAll
  <2>3. Total(queue', Memories) = 0 /\ usedUp.gets \in Nat /\ QueueCap \in Nat \ {0}
    BY <1>0, QueueTotals, RecallAssumption DEF CountInv, Spent
  <2> QED BY <1>0, <2>1, <2>2, <2>3 DEF QueueIsShort
<1>4. HandsAreEmpty'
  BY <1>1, HandMoves DEF CountInv, HandsAreEmpty
<1>5. Accounted'
  <2> SUFFICES ASSUME NEW m \in Memories
               PROVE  /\ queue'[m] + Total(Hands(m)', Searchers) = queue[m] + Total(Hands(m), Searchers)
    BY <1>0 DEF CountInv, Accounted
  <2>1. queue'[m] = 0 /\ searching[s].hand[m] = 0 /\ q.hand[m] = queue[m] /\ queue[m] \in Nat
    BY <1>0, <1>1 DEF None0
  <2> QED BY <1>1, <2>1, HandMoves
<1> QED BY <1>0, <1>3, <1>4, <1>5 DEF CountInv

\* One of the counts in a hand is written where the row is still there, or its write fails.
LEMMA WriteCounts ==
    ASSUME CountInv, NEW s \in Searchers, SearchWrite(s)
    PROVE  CountInv'
<1>0. /\ RecallInv' /\ UNCHANGED <<state, queue, hits>> /\ queue \in [Memories -> Nat] /\ s \in Flushing
      /\ searching[s].pc = "write"
  BY CountingKeepsSound DEF CountInv, SearchWrite, Flushing, RecallInv, RecallTypeOK
<1>1. accesses \in [Memories -> Nat] /\ hits \in [Memories -> Nat] /\ lost \in [Memories -> Nat] /\ usedUp \in Spent
  BY DEF CountInv
<1>2. PICK o \in SearchRecord : o = searching[s]
  BY FieldsOf
<1>3. PICK x \in Memories :
        /\ o.hand[x] > 0 /\ Steps(s, OneLess(o, x))
        /\ \/ accesses' = Written(x) /\ UNCHANGED <<lost, usedUp>>
           \/ /\ usedUp' = [usedUp EXCEPT !.losses = @ + 1] /\ lost' = [lost EXCEPT ![x] = @ + 1]
              /\ UNCHANGED accesses
  BY <1>2 DEF SearchWrite, OneLess
<1>4. PICK q \in SearchRecord : Steps(s, q) /\ q.pc = "write" /\ q.hand = [o.hand EXCEPT ![x] = o.hand[x] - 1]
  <2>1. PICK w : w = OneLess(o, x)
    OBVIOUS
  <2>2. w \in SearchRecord /\ w.pc = o.pc /\ w.hand = [o.hand EXCEPT ![x] = o.hand[x] - 1]
    BY <1>3, <2>1, OneWritten
  <2>3. Steps(s, w) /\ w.pc = "write"
    BY <1>0, <1>2, <1>3, <2>1, <2>2
  <2> QED BY <2>2, <2>3
<1>5. \A m \in Memories : o.hand[m] \in Nat /\ q.hand[m] \in Nat /\ o.hand[m] = q.hand[m] + IF m = x THEN 1 ELSE 0
  <2>1. o.hand \in [Memories -> Nat]
    BY DEF SearchRecord
  <2> QED BY <1>3, <1>4, <2>1
<1>6. Flushing' = Flushing
  BY <1>0, <1>4, HandMoves DEF Flushing
<1>7. usedUp'.gets = usedUp.gets /\ usedUp' \in Spent
  BY <1>1, <1>3, UsesUp
<1>8. QueueIsShort'
  BY <1>0, <1>6, <1>7 DEF CountInv, QueueIsShort
<1>9. HandsAreEmpty'
  BY <1>4, HandMoves DEF CountInv, HandsAreEmpty
<1>10. /\ accesses' \in [Memories -> Nat] /\ lost' \in [Memories -> Nat]
       /\ \A m \in Memories \ {x} : accesses'[m] = accesses[m] /\ lost'[m] = lost[m]
       /\ IF state[x] = "gone" THEN accesses'[x] + lost'[x] <= accesses[x] + lost[x] + 1
          ELSE accesses'[x] + lost'[x] = accesses[x] + lost[x] + 1
  <2>1. CASE accesses' = Written(x) /\ UNCHANGED <<lost, usedUp>>
    <3>1. \A m \in Memories : accesses[m] \in Nat /\ lost[m] \in Nat
      BY <1>1
    <3> QED BY <1>1, <2>1, <3>1 DEF Written
  <2>2. CASE lost' = [lost EXCEPT ![x] = @ + 1] /\ UNCHANGED accesses
    <3>1. PICK l \in [Memories -> Nat] : l = lost
      BY <1>1
    <3>2. PICK n \in Nat : n = l[x] + 1
      OBVIOUS
    <3>3. lost' = [l EXCEPT ![x] = n]
      BY <2>2, <3>1, <3>2
    <3>4. lost' \in [Memories -> Nat] /\ lost'[x] = n /\ \A m \in Memories \ {x} : lost'[m] = l[m]
      BY <3>3
    <3>5. \A m \in Memories : accesses[m] \in Nat
      BY <1>1
    <3> QED BY <1>1, <2>2, <3>1, <3>2, <3>4, <3>5
  <2> QED BY <1>3, <2>1, <2>2
<1>11. Accounted'
  <2> SUFFICES ASSUME NEW m \in Memories
               PROVE  IF state[m] = "gone" THEN accesses'[m] + (queue[m] + Total(Hands(m)', Searchers)) + lost'[m] <= hits[m]
                      ELSE accesses'[m] + (queue[m] + Total(Hands(m)', Searchers)) + lost'[m] = hits[m]
    BY <1>0 DEF Accounted
  <2>1. /\ Total(Hands(m), Searchers) \in Nat /\ Total(Hands(m)', Searchers) \in Nat
        /\ Total(Hands(m)', Searchers) + o.hand[m] = Total(Hands(m), Searchers) + q.hand[m]
    <3>1. Steps(s, q)
      BY <1>4
    <3>2. /\ Total(Hands(m), Searchers) \in Nat /\ Total(Hands(m)', Searchers) \in Nat
          /\ Total(Hands(m)', Searchers) + searching[s].hand[m] = Total(Hands(m), Searchers) + q.hand[m]
      BY <3>1, HandMoves
    <3> QED BY <1>2, <3>2
  <2>2. PICK c \in Nat, f \in Nat : c = Total(Hands(m), Searchers) /\ f = Total(Hands(m)', Searchers)
    BY <2>1
  <2>3. c = f + IF m = x THEN 1 ELSE 0
    BY <1>5, <2>1, <2>2
  <2>4. /\ accesses[m] \in Nat /\ queue[m] \in Nat /\ hits[m] \in Nat /\ lost[m] \in Nat
        /\ accesses'[m] \in Nat /\ lost'[m] \in Nat
    BY <1>0, <1>1, <1>10
  <2>5. IF state[m] = "gone" THEN accesses[m] + (queue[m] + c) + lost[m] <= hits[m]
                             ELSE accesses[m] + (queue[m] + c) + lost[m] = hits[m]
    BY <2>2 DEF CountInv, Accounted
  <2>6. CASE m = x
    <3>1. PICK a \in Nat, b \in Nat, l \in Nat, k \in Nat :
            a = accesses[x] /\ b = accesses'[x] /\ l = lost[x] /\ k = lost'[x]
      BY <2>4, <2>6
    <3>2. IF state[x] = "gone" THEN b + k <= a + l + 1 ELSE b + k = a + l + 1
      BY <1>10, <3>1
    <3> QED BY <2>2, <2>3, <2>4, <2>5, <2>6, <3>1, <3>2
  <2>7. CASE m # x
    BY <1>10, <2>2, <2>3, <2>4, <2>5, <2>7
  <2> QED BY <2>6, <2>7
<1> QED BY <1>0, <1>1, <1>7, <1>8, <1>9, <1>10, <1>11 DEF CountInv

\* With nothing left in its hand, the call goes on.
LEMMA WrittenCounts ==
    ASSUME CountInv, NEW s \in Searchers, SearchWritten(s)
    PROVE  CountInv'
<1>0. /\ RecallInv' /\ UNCHANGED <<state, queue, accesses, hits, lost, usedUp>> /\ s \in Flushing
      /\ searching[s].hand = None0
  BY CountingKeepsSound DEF CountInv, SearchWritten, Flushing
<1>1. PICK q \in SearchRecord : Steps(s, q) /\ q.pc \in {"defer", "store"} /\ q.hand = None0
  <2>1. searching[s].then \in {"defer", "store"}
    BY FieldsOf DEF SearchRecord
  <2> QED BY <1>0, <2>1, FieldsOf DEF SearchWritten
<1>2. Flushing' \subseteq Flushing /\ Flushing \in SUBSET Searchers
  BY <1>0, <1>1, HandMoves DEF Flushing
<1>3. QueueIsShort'
  <2>1. PICK d \in Nat, e \in Nat, n \in Nat, m \in Nat :
          /\ d = Cardinality(Flushing') /\ e = Cardinality(Flushing) /\ n = Cardinality(Searchers)
          /\ m = Cardinality(Memories) /\ d <= e
    <3>1. IsFiniteSet(Flushing)
      BY <1>2, Sizes
    <3>2. Cardinality(Flushing') <= Cardinality(Flushing) /\ Flushing' \in SUBSET Searchers
      BY <1>2, <3>1, FS_Subset
    <3> QED BY <1>2, <3>2, Sizes
  <2>2. PICK x \in Nat, y \in Nat, z \in Nat : x = d * m /\ y = e * m /\ z = n * m /\ x <= y
    BY <2>1, RoomForAll
  <2>3. Total(queue, Memories) \in Nat /\ usedUp.gets \in Nat /\ QueueCap \in Nat
    BY QueueTotals, RecallAssumption DEF CountInv, RecallInv, RecallTypeOK, Spent
  <2>4. 2 * Total(queue, Memories) + 2 * y < QueueCap + 2 * z + 2 * usedUp.gets
    BY <2>1, <2>2 DEF CountInv, QueueIsShort
  <2>5. 2 * Total(queue, Memories) + 2 * x < QueueCap + 2 * z + 2 * usedUp.gets
    BY <2>2, <2>3, <2>4
  <2> QED BY <1>0, <2>1, <2>2, <2>5 DEF QueueIsShort
<1>4. HandsAreEmpty'
  BY <1>1, HandMoves DEF CountInv, HandsAreEmpty
<1>5. \A m \in Memories : Total(Hands(m)', Searchers) = Total(Hands(m), Searchers)
  <2> SUFFICES ASSUME NEW m \in Memories PROVE Total(Hands(m)', Searchers) = Total(Hands(m), Searchers)
    OBVIOUS
  <2>1. searching[s].hand[m] = 0 /\ q.hand[m] = 0
    BY <1>0, <1>1 DEF None0
  <2> QED BY <1>1, <2>1, HandMoves
<1>6. Accounted'
  BY <1>0, <1>5 DEF CountInv, Accounted
<1> QED BY <1>0, <1>3, <1>4, <1>6 DEF CountInv

\* An add that comes to flush the queue, and one that inserts nothing
LEMMA AddingCounts ==
    ASSUME CountInv, NEW s \in Searchers, AddStart(s) \/ NothingAppears(s)
    PROVE  CountInv'
<1>1. /\ RecallInv' /\ UNCHANGED <<state, queue, accesses, hits, lost>> /\ searching[s].pc \notin {"write", "defer"}
      /\ usedUp' = usedUp \/ usedUp' = [usedUp EXCEPT !.changes = @ + 1]
  BY CountingKeepsSound DEF CountInv, AddStart, NothingAppears, Changes
<1>2. PICK q \in SearchRecord : Steps(s, q) /\ q.pc \notin {"write", "defer"} /\ q.hand = None0
  BY FieldsOf DEF AddStart, NothingAppears
<1>3. usedUp'.gets = usedUp.gets /\ usedUp' \in Spent
  BY <1>1, UsesUp DEF CountInv
<1> QED BY <1>1, <1>2, <1>3, QuietStepCounts

\* One more access of each of some memories is queued, and has been a hit.
LEMMA QueuedCounts ==
    ASSUME CountInv, NEW one \in [Memories -> Nat], queue' = Plus(queue, one), hits' = Plus(hits, one),
           UNCHANGED <<state, accesses, lost>>,
           \A m \in Memories : Total(Hands(m)', Searchers) = Total(Hands(m), Searchers) /\ Total(Hands(m), Searchers) \in Nat
    PROVE  Accounted' /\ hits' \in [Memories -> Nat]
<1>0. /\ queue \in [Memories -> Nat] /\ hits \in [Memories -> Nat] /\ accesses \in [Memories -> Nat]
      /\ lost \in [Memories -> Nat]
  BY DEF CountInv, RecallInv, RecallTypeOK
<1>1. hits' \in [Memories -> Nat]
  BY <1>0, Counting
<1>2. Accounted'
  <2> SUFFICES ASSUME NEW m \in Memories
               PROVE  IF state[m] = "gone" THEN accesses[m] + (queue'[m] + Total(Hands(m)', Searchers)) + lost[m] <= hits'[m]
                      ELSE accesses[m] + (queue'[m] + Total(Hands(m)', Searchers)) + lost[m] = hits'[m]
    BY DEF Accounted
  <2>1. queue'[m] = queue[m] + one[m] /\ hits'[m] = hits[m] + one[m]
    BY DEF Plus
  <2>2. accesses[m] \in Nat /\ queue[m] \in Nat /\ hits[m] \in Nat /\ one[m] \in Nat /\ lost[m] \in Nat
    BY <1>0
  <2>3. IF state[m] = "gone" THEN accesses[m] + (queue[m] + Total(Hands(m), Searchers)) + lost[m] <= hits[m]
                             ELSE accesses[m] + (queue[m] + Total(Hands(m), Searchers)) + lost[m] = hits[m]
    BY DEF CountInv, Accounted
  <2>4. PICK c \in Nat : c = Total(Hands(m), Searchers) /\ c = Total(Hands(m)', Searchers)
    OBVIOUS
  <2> QED BY <2>1, <2>2, <2>3, <2>4
<1> QED BY <1>1, <1>2

\* A search leaves with its results queued.
LEMMA DeferCounts ==
    ASSUME CountInv, NEW s \in Searchers, SearchDefer(s)
    PROVE  CountInv'
<1>0. /\ RecallInv' /\ UNCHANGED <<state, accesses, lost, usedUp>> /\ queue \in [Memories -> Nat]
      /\ searching[s] \in SearchRecord /\ s \in Flushing /\ searching[s].hand = None0
  BY CountingKeepsSound, FieldsOf DEF CountInv, SearchDefer, Flushing, HandsAreEmpty, RecallInv, RecallTypeOK
<1>1. PICK q \in SearchRecord : Steps(s, q) /\ q.pc = "idle" /\ q.hand = None0
  BY FieldsOf DEF SearchDefer
<1>2. PICK one : /\ one \in [Memories -> Nat] /\ Total(one, Memories) \in Nat
                 /\ Total(one, Memories) <= Cardinality(Memories)
                 /\ queue' = Plus(queue, one) /\ hits' = Plus(hits, one)
  <2>1. PICK A \in SUBSET Memories : A = searching[s].found
    BY <1>0 DEF SearchRecord
  <2>2. PICK one : one = [m \in Memories |-> IF m \in A THEN 1 ELSE 0]
    OBVIOUS
  <2>3. queue' = Plus(queue, one) /\ hits' = Plus(hits, one)
    BY <2>1, <2>2 DEF SearchDefer
  <2> QED BY <2>2, <2>3, SomeOfTheMemories
<1>3. Flushing' = Flushing \ {s} /\ Flushing \in SUBSET Searchers
  BY <1>1, HandMoves DEF Flushing
<1>4. QueueIsShort'
  <2>1. PICK d \in Nat, n \in Nat, m \in Nat :
          /\ d = Cardinality(Flushing') /\ n = Cardinality(Searchers) /\ m = Cardinality(Memories)
          /\ d <= n /\ Cardinality(Flushing) = d + 1
    <3>1. Cardinality(Flushing) = Cardinality(Flushing') + 1
      BY <1>0, <1>3, Sizes
    <3>2. Cardinality(Flushing') \in Nat /\ Cardinality(Flushing') <= Cardinality(Searchers)
      BY <1>3, Sizes
    <3> QED BY <3>1, <3>2, Sizes
  <2>2. d * m \in Nat /\ n * m \in Nat /\ (d + 1) * m = d * m + m
    BY <2>1, RoomForAll
  <2>3. Total(queue', Memories) = Total(queue, Memories) + Total(one, Memories) /\ Total(queue, Memories) \in Nat
    BY <1>0, <1>2, QueueTotals
  <2>4. 2 * Total(queue, Memories) + 2 * ((d + 1) * m) < QueueCap + 2 * (n * m) + 2 * usedUp.gets
    BY <2>1 DEF CountInv, QueueIsShort
  <2>5. usedUp.gets \in Nat /\ QueueCap \in Nat
    BY RecallAssumption DEF CountInv, Spent
  <2>6. 2 * Total(queue', Memories) + 2 * (d * m) < QueueCap + 2 * (n * m) + 2 * usedUp.gets
    <3>1. PICK p \in Nat, r \in Nat, x \in Nat, y \in Nat :
            p = d * m /\ r = n * m /\ x = Total(queue, Memories) /\ y = Total(one, Memories)
      BY <1>2, <2>2, <2>3
    <3> QED BY <1>2, <2>1, <2>2, <2>3, <2>4, <2>5, <3>1
  <2> QED BY <1>0, <2>1, <2>6 DEF QueueIsShort
<1>5. HandsAreEmpty'
  BY <1>1, HandMoves DEF CountInv, HandsAreEmpty
<1>6. \A m \in Memories : Total(Hands(m)', Searchers) = Total(Hands(m), Searchers) /\ Total(Hands(m), Searchers) \in Nat
  <2> SUFFICES ASSUME NEW m \in Memories
               PROVE  Total(Hands(m)', Searchers) = Total(Hands(m), Searchers) /\ Total(Hands(m), Searchers) \in Nat
    OBVIOUS
  <2>1. searching[s].hand[m] = 0 /\ q.hand[m] = 0
    BY <1>0, <1>1 DEF None0
  <2> QED BY <1>1, <2>1, HandMoves
<1>7. Accounted' /\ hits' \in [Memories -> Nat]
  BY <1>0, <1>2, <1>6, QueuedCounts
<1> QED BY <1>0, <1>4, <1>5, <1>7 DEF CountInv

\* get_trace queues one access, whatever the length of the queue.
LEMMA GetCounts ==
    ASSUME CountInv, NEW s \in Searchers, NEW x \in Memories, GetTrace(s, x)
    PROVE  CountInv'
<1>0. /\ RecallInv' /\ UNCHANGED <<state, accesses, lost>> /\ queue \in [Memories -> Nat]
      /\ searching[s].hand = None0 /\ s \notin Flushing /\ IsFiniteSet(Memories)
      /\ usedUp' = [usedUp EXCEPT !.searches = @ + 1, !.gets = @ + 1]
  BY CountingKeepsSound, RecallAssumption DEF CountInv, GetTrace, Flushing, HandsAreEmpty, RecallInv, RecallTypeOK
<1>1. PICK q \in SearchRecord : Steps(s, q) /\ q.pc \in {"idle", "take"} /\ q.hand = None0
  BY FieldsOf DEF GetTrace
<1>2. PICK one : /\ one \in [Memories -> Nat] /\ Total(one, Memories) = 1
                 /\ queue' = Plus(queue, one) /\ hits' = Plus(hits, one)
  <2>1. PICK one \in [Memories -> Nat] : one = [m \in Memories |-> IF m = x THEN 1 ELSE 0]
    OBVIOUS
  <2>2. Total(one, Memories) = 1
    BY <1>0, <2>1, TotalOfOne
  <2> QED BY <2>1, <2>2 DEF GetTrace
<1>3. Flushing' = Flushing /\ usedUp'.gets = usedUp.gets + 1 /\ usedUp.gets \in Nat /\ usedUp' \in Spent
  <2>1. q.pc \notin {"write", "defer"}
    BY <1>1
  <2>2. Flushing' = Flushing \ {s}
    BY <1>1, <2>1, HandMoves
  <2> QED BY <1>0, <2>2, UsesUp DEF CountInv, Spent
<1>4. QueueIsShort'
  <2>1. Total(queue', Memories) = Total(queue, Memories) + 1 /\ Total(queue, Memories) \in Nat
    BY <1>0, <1>2, QueueTotals
  <2>2. Flushing \in SUBSET Searchers
    BY DEF Flushing
  <2>3. PICK d \in Nat, n \in Nat, m \in Nat :
          d = Cardinality(Flushing) /\ n = Cardinality(Searchers) /\ m = Cardinality(Memories) /\ d <= n
    BY <2>2, Sizes
  <2>4. PICK p \in Nat, r \in Nat : p = d * m /\ r = n * m
    BY <2>3, RoomForAll
  <2>5. QueueCap \in Nat /\ 2 * Total(queue, Memories) + 2 * p < QueueCap + 2 * r + 2 * usedUp.gets
    BY <2>3, <2>4, RecallAssumption DEF CountInv, QueueIsShort
  <2>6. 2 * Total(queue', Memories) + 2 * p < QueueCap + 2 * r + 2 * usedUp'.gets
    BY <1>3, <2>1, <2>5
  <2> QED BY <1>3, <2>3, <2>4, <2>6 DEF QueueIsShort
<1>5. HandsAreEmpty'
  BY <1>1, HandMoves DEF CountInv, HandsAreEmpty
<1>6. \A m \in Memories : Total(Hands(m)', Searchers) = Total(Hands(m), Searchers) /\ Total(Hands(m), Searchers) \in Nat
  <2> SUFFICES ASSUME NEW m \in Memories
               PROVE  Total(Hands(m)', Searchers) = Total(Hands(m), Searchers) /\ Total(Hands(m), Searchers) \in Nat
    OBVIOUS
  <2>1. searching[s].hand[m] = 0 /\ q.hand[m] = 0
    BY <1>0, <1>1 DEF None0
  <2> QED BY <1>1, <2>1, HandMoves
<1>7. Accounted' /\ hits' \in [Memories -> Nat]
  BY <1>0, <1>2, <1>6, QueuedCounts
<1> QED BY <1>0, <1>3, <1>4, <1>5, <1>7 DEF CountInv

\* A deletion makes the counts of its row of no account.
LEMMA ChangesCount ==
    ASSUME CountInv, NEW x \in Memories, (\E s \in Searchers : MemoryAppears(s, x)) \/ MemoryLeaves(x)
    PROVE  CountInv'
<1>0. /\ RecallInv' /\ UNCHANGED <<queue, accesses, hits, lost>>
      /\ queue \in [Memories -> Nat] /\ accesses \in [Memories -> Nat] /\ hits \in [Memories -> Nat]
      /\ lost \in [Memories -> Nat] /\ searching \in [Searchers -> SearchRecord]
      /\ state \in [Memories -> {"absent", "active", "inactive", "gone"}]
  BY ChangesKeepSound DEF CountInv, MemoryAppears, MemoryLeaves, RecallInv, RecallTypeOK
<1>1. usedUp'.gets = usedUp.gets /\ usedUp' \in Spent
  <2>1. usedUp' = usedUp \/ usedUp' = [usedUp EXCEPT !.changes = @ + 1]
    BY DEF MemoryAppears, MemoryLeaves, Changes
  <2> QED BY <2>1, UsesUp DEF CountInv
<1>2. \A r \in Searchers : /\ searching'[r].hand = searching[r].hand
                           /\ searching'[r].pc = searching[r].pc
                              \/ (searching[r].pc = "store" /\ searching'[r].pc = "idle")
  <2>1. ASSUME NEW s \in Searchers, MemoryAppears(s, x), NEW r \in Searchers
        PROVE  /\ searching'[r].hand = searching[r].hand
               /\ searching'[r].pc = searching[r].pc \/ (searching[r].pc = "store" /\ searching'[r].pc = "idle")
    <3>1. PICK q \in SearchRecord : q = searching[r]
      BY <1>0
    <3>2. CASE r = s
      <4>1. searching'[r] = AtRest /\ searching[r].pc = "store"
        BY <2>1, <3>2 DEF MemoryAppears
      <4>2. searching[r].hand = None0
        BY <4>1 DEF CountInv, HandsAreEmpty
      <4> QED BY <4>1, <4>2, FieldsOf
    <3>3. CASE r # s
      <4>1. searching'[r] = [q EXCEPT !.seen = @ \cup {x}]
        BY <2>1, <3>1, <3>3 DEF MemoryAppears
      <4> QED BY <3>1, <4>1 DEF SearchRecord
    <3> QED BY <3>2, <3>3
  <2>2. CASE MemoryLeaves(x)
    BY <2>2 DEF MemoryLeaves
  <2> QED BY <2>1, <2>2
<1>3. Flushing' = Flushing /\ \A m \in Memories : Hands(m)' = Hands(m)
  BY <1>2 DEF Flushing, Hands
<1>4. HandsAreEmpty'
  BY <1>2 DEF CountInv, HandsAreEmpty
<1>5. QueueIsShort'
  BY <1>0, <1>1, <1>3 DEF CountInv, QueueIsShort
<1>6. Accounted'
  <2> SUFFICES ASSUME NEW m \in Memories
               PROVE  IF state'[m] = "gone" THEN accesses[m] + (queue[m] + Total(Hands(m), Searchers)) + lost[m] <= hits[m]
                      ELSE accesses[m] + (queue[m] + Total(Hands(m), Searchers)) + lost[m] = hits[m]
    BY <1>0, <1>3 DEF Accounted
  <2>1. state[m] = "gone" => state'[m] = "gone"
    BY <1>0 DEF MemoryAppears, MemoryLeaves
  <2>2. PICK c \in Nat : c = Total(Hands(m), Searchers)
    <3>1. Hands(m) \in [Searchers -> Nat]
      BY <1>0 DEF Hands, SearchRecord
    <3> QED BY <3>1, TotalIsNat, RecallAssumption
  <2>3. IF state[m] = "gone" THEN accesses[m] + (queue[m] + c) + lost[m] <= hits[m]
                             ELSE accesses[m] + (queue[m] + c) + lost[m] = hits[m]
    BY <2>2 DEF CountInv, Accounted
  <2>4. accesses[m] \in Nat /\ queue[m] \in Nat /\ hits[m] \in Nat /\ lost[m] \in Nat
    BY <1>0
  <2> QED BY <2>1, <2>2, <2>3, <2>4
<1> QED BY <1>0, <1>1, <1>4, <1>5, <1>6 DEF CountInv

LEMMA CountsStart ==
    ASSUME RecallInit PROVE CountInv
<1>0. RecallInv
  BY RecallStarts
<1>1. /\ queue = [m \in Memories |-> IF m \in Plain THEN 1 ELSE 0] /\ queue \in [Memories -> Nat]
      /\ searching = [s \in Searchers |-> AtRest] /\ accesses = None0 /\ hits = queue /\ lost = None0
      /\ usedUp = [searches |-> 0, gets |-> 0, changes |-> 0, losses |-> 0]
  BY <1>0 DEF RecallInit, RecallInv, RecallTypeOK
<1>2. \A s \in Searchers : searching[s].pc = "idle" /\ searching[s].hand = None0
  BY <1>1 DEF AtRest
<1>3. QueueIsShort
  <2>1. Flushing = {} /\ Cardinality(Flushing) = 0
    BY <1>2, FS_EmptySet DEF Flushing
  <2>2. PICK n \in Nat, m \in Nat : n # 0 /\ n = Cardinality(Searchers) /\ m = Cardinality(Memories)
    BY Sizes
  <2>3. 1 * m <= n * m /\ n * m \in Nat /\ 0 * m = 0 /\ 1 * m = m
    BY <2>2, RoomForAll
  <2>4. Total(queue, Memories) \in Nat /\ Total(queue, Memories) <= m
    <3>1. Plain \in SUBSET Memories
      BY RecallAssumption
    <3> QED BY <1>1, <2>2, <3>1, SomeOfTheMemories
  <2>5. QueueCap \in Nat \ {0} /\ usedUp.gets = 0
    BY <1>1, RecallAssumption
  <2> QED BY <2>1, <2>2, <2>3, <2>4, <2>5 DEF QueueIsShort
<1>4. HandsAreEmpty
  BY <1>2 DEF HandsAreEmpty
<1>5. Accounted
  <2> SUFFICES ASSUME NEW m \in Memories
               PROVE  accesses[m] + (queue[m] + Total(Hands(m), Searchers)) + lost[m] = hits[m] /\ hits[m] \in Nat
    BY <1>1 DEF Accounted
  <2>1. Hands(m) = [r \in Searchers |-> 0]
    BY <1>2 DEF Hands, None0
  <2>2. Total(Hands(m), Searchers) = 0
    BY <2>1, TotalOfNone, RecallAssumption
  <2> QED BY <1>1, <2>2 DEF None0
<1> QED BY <1>0, <1>1, <1>3, <1>4, <1>5, Counting DEF CountInv, Spent

\* The sum over the searches in AccessesAreCounted
LEMMA HandsAddUp ==
    ASSUME searching \in [Searchers -> SearchRecord], NEW m \in Memories
    PROVE  MapThenSumSet(LAMBDA s : searching[s].hand[m], Searchers) = Total(Hands(m), Searchers)
<1>0. IsFiniteSet(Searchers) /\ \A r \in Searchers : searching[r].hand[m] \in Nat
  BY RecallAssumption DEF SearchRecord
<1>a. Hands(m) \in [Searchers -> Nat] /\ \A r \in Searchers : Hands(m)[r] = searching[r].hand[m]
  BY <1>0 DEF Hands
<1>1. PICK f : f \in [Searchers -> Nat] /\ f = Hands(m) /\ \A r \in Searchers : f[r] = searching[r].hand[m]
  BY <1>a
<1>2. PICK g \in [SUBSET Searchers -> Nat] : SumsUp(g, f, Searchers) /\ Total(f, Searchers) = g[Searchers]
  BY <1>0, <1>1, TotalSumsUp
<1> DEFINE Sums(h) == h = [s \in SUBSET Searchers |->
                             IF s = {} THEN 0
                             ELSE searching[CHOOSE x \in s : TRUE].hand[m] + h[s \ {CHOOSE x \in s : TRUE}]]
<1>3. ASSUME NEW h PROVE Sums(h) <=> SumsUp(h, f, Searchers)
  <2>1. \A s \in SUBSET Searchers : s # {} => f[CHOOSE x \in s : TRUE] = searching[CHOOSE x \in s : TRUE].hand[m]
    BY <1>1
  <2>2. [s \in SUBSET Searchers |-> IF s = {} THEN 0
                                    ELSE searching[CHOOSE x \in s : TRUE].hand[m] + h[s \ {CHOOSE x \in s : TRUE}]]
        = [s \in SUBSET Searchers |-> IF s = {} THEN 0
                                      ELSE f[CHOOSE x \in s : TRUE] + h[s \ {CHOOSE x \in s : TRUE}]]
    BY <2>1
  <2> QED BY <2>2 DEF SumsUp, Chosen
<1>4. PICK h : h = (CHOOSE k : Sums(k)) /\ Sums(h)
  <2> HIDE DEF Sums
  <2>1. Sums(g)
    BY <1>2, <1>3
  <2> QED BY <2>1
<1>5. MapThenSumSet(LAMBDA s : searching[s].hand[m], Searchers) = h[Searchers]
  BY <1>4 DEF MapThenSumSet, MapThenFoldSet
<1>6. h[Searchers] = g[Searchers]
  <2> HIDE DEF Sums
  <2> QED BY <1>0, <1>2, <1>3, <1>4, SumIsUnique
<1> QED BY <1>1, <1>2, <1>5, <1>6

\* For any memories, searches, adds and reads of single memories, and whatever is added or deleted meanwhile:
\* each access found by search or get_trace is written once, or queued, or in the hands of one flush, or its own
\* write has failed (flush_deferred_writes), and the queue passes its capacity by no more than one answer of each
\* search in progress.
THEOREM CountsArriveOnce == RecallSpec => []AccessesAreCounted
<1>1. ASSUME CountInv, [RecallNext]_recallVars PROVE CountInv'
  <2>1. CASE RecallNext
    BY <1>1, <2>1, ReadingCounts, CheckCounts, TakeCounts, WriteCounts, WrittenCounts, AddingCounts, DeferCounts,
       GetCounts, ChangesCount DEF RecallNext
  <2>2. CASE UNCHANGED recallVars
    BY <1>1, <2>2 DEF CountInv, RecallInv, RecallTypeOK, Sound, Current, QueueIsShort, HandsAreEmpty, Accounted,
       Flushing, Hands, recallVars
  <2> QED BY <1>1, <2>1, <2>2
<1>2. CountInv => AccessesAreCounted
  <2> SUFFICES ASSUME CountInv PROVE AccessesAreCounted
    OBVIOUS
  <2>1. AccessQueueBounded
    <3>1. PICK n \in Nat, m \in Nat, d \in Nat :
            n = Cardinality(Searchers) /\ m = Cardinality(Memories) /\ d = Cardinality(Flushing) /\ d <= n
      BY Sizes DEF Flushing
    <3>2. d * m \in Nat /\ n * m \in Nat /\ 2 * n * m = 2 * (n * m)
      BY <3>1, RoomForAll
    <3>3. QueueLength = 2 * Total(queue, Memories) /\ Total(queue, Memories) \in Nat
      BY QueueTotals DEF QueueLength, Total, CountInv, RecallInv, RecallTypeOK
    <3>4. usedUp.gets \in Nat /\ QueueCap \in Nat
      BY RecallAssumption DEF CountInv, Spent
    <3> QED BY <3>1, <3>2, <3>3, <3>4 DEF AccessQueueBounded, CountInv, QueueIsShort
  <2>2. ASSUME NEW m \in Memories
        PROVE  MapThenSumSet(LAMBDA s : searching[s].hand[m], Searchers) = Total(Hands(m), Searchers)
    BY HandsAddUp DEF CountInv, RecallInv, RecallTypeOK
  <2> QED BY <2>1, <2>2 DEF AccessesAreCounted, CountInv, Accounted
<1> QED BY <1>1, <1>2, CountsStart, PTL DEF RecallSpec
--------------------------------------------------------------------------------
(* The front ends *)

\* A memory of a pet's, or of none, was told by that pet or by none.
RowSound(row) ==
    /\ {"of", "agent", "by"} \subseteq DOMAIN row
    /\ row.of = "memory" => row.by \in {0, row.agent}

Deeds ==
    {"put", "derive", "append", "digest", "search", "list", "events", "messages", "one", "change", "drop", "clear", "erase",
     "reset", "keep"}

\* What a search or a list for an agent answered was told by that agent, or by none.
AnswerSound(a) ==
    a.result = "ok" /\ a.op.of = "memory" /\ a.op.does \in {"search", "list"} /\ "agent" \in DOMAIN a.args =>
        \A row \in a.answer : row.by \in {0, a.args["agent"]}

AskSound(a) ==
    /\ a = [at |-> a.at, op |-> a.op, args |-> a.args, meta |-> a.meta, limit |-> a.limit, answer |-> a.answer,
            result |-> a.result]
    /\ a.at \in {"provider", "call", "store"} => a.op.does \in Deeds
    /\ a.at = "done" => AnswerSound(a)

FrontInv ==
    /\ frontEnd \in DOMAIN Offers /\ \A row \in stock : RowSound(row)
    /\ asks = [g \in Guests |-> asks[g]] /\ \A g \in Guests : AskSound(asks[g])

\* A row that is added is told by its own agent, and so is one that takes over what is added.
LEMMA RowsAreTheirs ==
    ASSUME NEW op, NEW kind, NEW fields, NEW id
    PROVE  /\ RowSound(NewRow(kind, fields, id))
           /\ \A row : RowSound(row) /\ MergesInto(op, fields, row) => RowSound(Merged(fields, row))
<1>1. RowSound(NewRow(kind, fields, id))
  BY DEF NewRow, RowSound
<1>2. ASSUME NEW row, RowSound(row), MergesInto(op, fields, row) PROVE RowSound(Merged(fields, row))
  <2>1. PICK teller : teller = IF "agent" \in DOMAIN fields THEN fields["agent"] ELSE 0
    OBVIOUS
  <2>2. teller \in {0, row.agent}
    BY <1>2, <2>1 DEF MergesInto
  <2>3. PICK merged : merged = [row EXCEPT !.by = teller]
    OBVIOUS
  <2>4. DOMAIN merged = DOMAIN row /\ merged.of = row.of /\ merged.agent = row.agent /\ merged.by = teller
    BY <1>2, <2>3 DEF RowSound
  <2> QED BY <1>2, <2>1, <2>2, <2>3, <2>4 DEF Merged, RowSound
<1> QED BY <1>1, <1>2

\* Whatever a call does, the rows stay so.
LEMMA StockStaysSound ==
    ASSUME \A row \in stock : RowSound(row), NEW op, NEW fields, NEW limit, op.does \in Deeds,
           NEW out \in Outcomes(op, fields, limit)
    PROVE  \A row \in out.after : RowSound(row)
<1>1. CASE op.does = "put"
  <2>1. \/ out = Done(stock \cup {NewRow(op.of, fields, NewId)}, {})
        \/ \E r \in stock : /\ MergesInto(op, fields, r)
                            /\ out = Done((stock \ {r}) \cup {Merged(fields, r)}, {Merged(fields, r)})
    BY <1>1 DEF Outcomes
  <2> QED BY <2>1, RowsAreTheirs DEF Done
<1>2. CASE op.does \in {"derive", "append", "digest"}
  <2>1. \A row \in out.after : row \in stock \/ \E kind, f, id : row = NewRow(kind, f, id)
    <3>1. CASE op.does = "derive"
      BY <1>2, <3>1 DEF Outcomes, Done
    <3>2. CASE op.does = "append"
      <4>1. \/ out = Done(stock \cup {NewRow("event", fields, NewId), NewRow("session", fields, NewId + 1)}, {})
            \/ out = Done(stock \cup {NewRow("event", fields, NewId)}, {})
        BY <3>2 DEF Outcomes
      <4> QED BY <4>1 DEF Done
    <3>3. CASE op.does = "digest"
      <4>1. out = Done(stock, {}) \/ \E f : out = Done(stock \cup {NewRow("episode", f, NewId)}, {})
        BY <3>3 DEF Outcomes
      <4> QED BY <4>1 DEF Done
    <3> QED BY <1>2, <3>1, <3>2, <3>3
  <2> QED BY <2>1, RowsAreTheirs
<1>3. CASE op.does \in {"search", "list", "events", "messages", "one", "change", "keep"}
  <2>1. \E A : out = Done(stock, A)
    <3>1. CASE op.does \in {"search", "list"}
      BY <3>1 DEF Outcomes
    <3>2. CASE op.does = "events"
      BY <3>2 DEF Outcomes
    <3>3. CASE op.does = "messages"
      BY <3>3 DEF Outcomes
    <3>4. CASE op.does \in {"one", "change", "keep"}
      BY <3>4 DEF Outcomes
    <3> QED BY <1>3, <3>1, <3>2, <3>3, <3>4
  <2> QED BY <2>1 DEF Done
<1>4. CASE op.does \in {"drop", "clear", "erase", "reset"}
  <2>1. \E S \in SUBSET stock : out = Done(S, {})
    BY <1>4 DEF Outcomes
  <2> QED BY <2>1 DEF Done
<1> QED BY <1>1, <1>2, <1>3, <1>4 DEF Deeds

\* A search or a list for an agent answers with rows of that agent, or of none.
LEMMA AnswersAreTheirs ==
    ASSUME \A row \in stock : RowSound(row), NEW op, NEW fields, NEW limit, op.of = "memory",
           op.does \in {"search", "list"}, "agent" \in DOMAIN fields, NEW out \in Outcomes(op, fields, limit)
    PROVE  \A row \in out.answer : row.by \in {0, fields["agent"]}
<1>1. PICK exactly, A : A \in Returned({row \in stock : Agrees(op, fields, row)}, limit, exactly) /\ out = Done(stock, A)
  BY DEF Outcomes
<1>2. out.answer = A /\ \A row \in A : row \in stock /\ Agrees(op, fields, row)
  BY <1>1 DEF Returned, Done
<1>3. ASSUME NEW row \in A PROVE row.by \in {0, fields["agent"]}
  <2>1. row.of = "memory" /\ row.agent \in {0, fields["agent"]}
    BY <1>2 DEF Agrees
  <2> QED BY <1>2, <2>1 DEF RowSound
<1> QED BY <1>2, <1>3

--------------------------------------------------------------------------------
(* The operations that are offered do one of the deeds *)

LEMMA NodeIsSound ==
    \A op \in UNION {NodeMemories, NodeUpkeep, NodeSessions, NodeEvents, NodeEpisodes, NodeIdentity, NodeGraph, NodeAnalytics} :
        op.does \in Deeds
<1>1. \A op \in NodeMemories \cup NodeUpkeep : op.does \in Deeds
  BY DEF NodeMemories, NodeUpkeep,
         OfUser, OfSession, ById, OnStore, Op, Deeds
<1>2. \A op \in NodeSessions \cup NodeEvents : op.does \in Deeds
  BY DEF NodeSessions, NodeEvents,
         OfUser, OfSession, ById, OnStore, Op, Deeds
<1>3. \A op \in NodeEpisodes \cup NodeIdentity : op.does \in Deeds
  BY DEF NodeEpisodes, NodeIdentity,
         OfUser, OfSession, ById, OnStore, Op, Deeds
<1>4. \A op \in NodeGraph \cup NodeAnalytics : op.does \in Deeds
  BY DEF NodeGraph, NodeAnalytics,
         OfUser, OfSession, ById, OnStore, Op, Deeds
<1> QED BY <1>1, <1>2, <1>3, <1>4

LEMMA OthersAreSound ==
    /\ \A op \in UNION {PythonMemories, PythonSearch, PythonPipeline, PythonSessions, PythonGraph} : op.does \in Deeds
    /\ \A op \in UNION {MobileMemories, MobileSearch, MobileGraph, MobileBulk} : op.does \in Deeds
    /\ \A op \in McpTools : op.does \in Deeds
    /\ \A op \in UNION {RestMemories, RestLists, RestErasure, RestPipeline, RestGraph, RestAnalytics} : op.does \in Deeds
<1>1. \A op \in PythonMemories \cup PythonSearch : op.does \in Deeds
  BY DEF PythonMemories, PythonSearch,
         OfUser, OfSession, ById, OnStore, Op, Deeds
<1>2. \A op \in PythonPipeline \cup PythonSessions \cup PythonGraph : op.does \in Deeds
  BY DEF PythonPipeline, PythonSessions, PythonGraph,
         OfUser, OfSession, ById, OnStore, Op, Deeds
<1>3. \A op \in MobileMemories \cup MobileSearch \cup MobileGraph : op.does \in Deeds
  BY DEF MobileMemories, MobileSearch, MobileGraph,
         OfUser, OfSession, ById, OnStore, Op, Deeds
<1>4. \A op \in MobileBulk \cup McpTools : op.does \in Deeds
  BY DEF MobileBulk, McpTools,
         OfUser, OfSession, ById, OnStore, Op, Deeds
<1>5. \A op \in RestMemories \cup RestLists \cup RestErasure : op.does \in Deeds
  BY DEF RestMemories, RestLists, RestErasure,
         OfUser, OfSession, ById, OnStore, Op, Deeds
<1>6. \A op \in RestPipeline \cup RestGraph \cup RestAnalytics : op.does \in Deeds
  BY DEF RestPipeline, RestGraph, RestAnalytics,
         OfUser, OfSession, ById, OnStore, Op, Deeds
<1> QED BY <1>1, <1>2, <1>3, <1>4, <1>5, <1>6

LEMMA OffersAreSound == \A fe \in DOMAIN Offers : \A op \in Offers[fe] : op.does \in Deeds
  BY NodeIsSound, OthersAreSound DEF Offers

--------------------------------------------------------------------------------
(* The course of a call *)

LEMMA SilentIsSound ==
    /\ AskSound(Silent)
    /\ \A result : result # "ok" => AskSound([Silent EXCEPT !.at = "done", !.result = result])
<1>1. PICK op : Silent = [at |-> "idle", op |-> op, args |-> << >>, meta |-> << >>, limit |-> 0, answer |-> {},
                          result |-> "none"]
  BY DEF Silent
<1>2. AskSound(Silent)
  BY <1>1 DEF AskSound
<1>3. ASSUME NEW result, result # "ok" PROVE AskSound([Silent EXCEPT !.at = "done", !.result = result])
  <2>1. PICK a : a = [Silent EXCEPT !.at = "done", !.result = result]
    OBVIOUS
  <2>2. a = [at |-> "done", op |-> op, args |-> << >>, meta |-> << >>, limit |-> 0, answer |-> {}, result |-> result]
    BY <1>1, <2>1
  <2>3. AskSound(a)
    BY <1>3, <2>2 DEF AskSound, AnswerSound
  <2> QED BY <2>1, <2>3
<1> QED BY <1>2, <1>3

LEMMA FrontStarts ==
    ASSUME FrontInit PROVE FrontInv
<1>1. frontEnd \in DOMAIN Offers /\ group \in DOMAIN Stock /\ stock = Stock[group] /\ asks = [g \in Guests |-> Silent]
  BY DEF FrontInit
<1>2. \A row \in stock : RowSound(row)
  BY <1>1, FrontEndsAssumption DEF RowSound
<1>3. asks = [g \in Guests |-> asks[g]] /\ \A g \in Guests : asks[g] = Silent
  BY <1>1
<1> QED BY <1>1, <1>2, <1>3, SilentIsSound DEF FrontInv

\* A step of one call
LEMMA StageKeeps ==
    ASSUME FrontInv, NEW g \in Guests, NEW a, AskSound(a), Stage(g, a), frontEnd' = frontEnd,
           \A row \in stock' : RowSound(row)
    PROVE  FrontInv'
<1>1. PICK f : f = asks'
  OBVIOUS
<1>2. f = [h \in Guests |-> IF h = g THEN a ELSE asks[h]]
  BY <1>1 DEF Stage, FrontInv
<1>3. f = [h \in Guests |-> f[h]] /\ \A h \in Guests : AskSound(f[h])
  BY <1>2 DEF FrontInv
<1>4. frontEnd \in DOMAIN Offers
  BY DEF FrontInv
<1> QED BY <1>1, <1>3, <1>4 DEF FrontInv

\* A call that moves on with what it has, and one that ends without having been served
LEMMA MovesOn ==
    ASSUME FrontInv, NEW g \in Guests, asks[g].at \in {"provider", "call"}, frontEnd' = frontEnd, stock' = stock,
           NEW at \in {"call", "store"}, Stage(g, [asks[g] EXCEPT !.at = at])
    PROVE  FrontInv'
<1>1. PICK a : a = asks[g] /\ AskSound(a)
  BY DEF FrontInv
<1>2. \A row \in stock' : RowSound(row)
  BY DEF FrontInv
<1>3. PICK b : b = [a EXCEPT !.at = at]
  OBVIOUS
<1>4. /\ b = [at |-> at, op |-> a.op, args |-> a.args, meta |-> a.meta, limit |-> a.limit, answer |-> a.answer,
              result |-> a.result]
      /\ a.op.does \in Deeds
  BY <1>1, <1>3 DEF AskSound
<1>5. AskSound(b)
  BY <1>4 DEF AskSound
<1> QED BY <1>1, <1>2, <1>3, <1>5, StageKeeps

LEMMA EndsUnserved ==
    ASSUME FrontInv, NEW g \in Guests, NEW result \in {"refused", "poisoned", "error", "dropped"}, Finishes(g, result),
           frontEnd' = frontEnd, stock' = stock
    PROVE  FrontInv'
<1>1. PICK b : b = [Silent EXCEPT !.at = "done", !.result = result] /\ Stage(g, b)
  BY DEF Finishes
<1>2. AskSound(b) /\ \A row \in stock' : RowSound(row)
  BY <1>1, SilentIsSound DEF FrontInv
<1> QED BY <1>1, <1>2, StageKeeps

LEMMA AskKeeps ==
    ASSUME FrontInv, NEW g \in Guests, Ask(g)
    PROVE  FrontInv'
<1>1. PICK op, args, meta, limit :
        /\ op \in Offers[frontEnd]
        /\ \/ \E at \in {"provider", "call"} :
                 Stage(g, [[Silent EXCEPT !.op = op, !.args = args, !.meta = meta, !.limit = limit] EXCEPT !.at = at])
           \/ Finishes(g, "refused")
  <2>1. PICK op, args, meta, limit :
          /\ op \in Offers[frontEnd]
          /\ LET ask == [Silent EXCEPT !.op = op, !.args = args, !.meta = meta, !.limit = limit]
             IN  \/ ~Conflict(ask) /\ Stage(g, [ask EXCEPT !.at = IF LooksUp(op) THEN "provider" ELSE "call"])
                 \/ Finishes(g, "refused")
    BY ZenonT(40) DEF Ask
  <2>2. PICK ask, at :
          /\ at \in {"provider", "call"} /\ ask = [Silent EXCEPT !.op = op, !.args = args, !.meta = meta, !.limit = limit]
          /\ at = IF LooksUp(op) THEN "provider" ELSE "call"
    OBVIOUS
  <2>3. Stage(g, [ask EXCEPT !.at = at]) \/ Finishes(g, "refused")
    BY <2>1, <2>2
  <2> QED BY <2>1, <2>2, <2>3
<1>2. frontEnd' = frontEnd /\ stock' = stock /\ (\A row \in stock' : RowSound(row)) /\ op.does \in Deeds
  <2>1. frontEnd' = frontEnd /\ stock' = stock /\ \A row \in stock' : RowSound(row)
    BY DEF Ask, FrontInv
  <2>2. frontEnd \in DOMAIN Offers
    BY DEF FrontInv
  <2> QED BY <1>1, <2>1, <2>2, OffersAreSound
<1>3. ASSUME NEW at \in {"provider", "call"},
             Stage(g, [[Silent EXCEPT !.op = op, !.args = args, !.meta = meta, !.limit = limit] EXCEPT !.at = at])
      PROVE  FrontInv'
  <2>1. PICK a : a = [[Silent EXCEPT !.op = op, !.args = args, !.meta = meta, !.limit = limit] EXCEPT !.at = at]
    OBVIOUS
  <2>2. a = [at |-> at, op |-> op, args |-> args, meta |-> meta, limit |-> limit, answer |-> {}, result |-> "none"]
    BY <2>1 DEF Silent
  <2>3. AskSound(a)
    BY <1>2, <2>2 DEF AskSound
  <2> QED BY <1>2, <1>3, <2>1, <2>3, StageKeeps
<1>4. ASSUME Finishes(g, "refused") PROVE FrontInv'
  BY <1>2, <1>4, EndsUnserved
<1> QED BY <1>1, <1>3, <1>4

LEMMA ServesKeeps ==
    ASSUME FrontInv, NEW g \in Guests, Serves(g)
    PROVE  FrontInv'
<1>1. PICK a : a = asks[g] /\ AskSound(a) /\ a.at = "store"
  BY DEF FrontInv, Serves, Underway
<1>2. frontEnd' = frontEnd /\ \A row \in stock : RowSound(row)
  BY DEF Serves, FrontInv
<1>3. ASSUME NEW out \in Outcomes(a.op, PassOn(a), a.limit), stock' = out.after,
             Stage(g, [a EXCEPT !.at = "done", !.answer = out.answer, !.result = "ok"])
      PROVE  FrontInv'
  <2>1. PICK b : b = [a EXCEPT !.at = "done", !.answer = out.answer, !.result = "ok"]
    OBVIOUS
  <2>2. /\ b = [at |-> "done", op |-> a.op, args |-> a.args, meta |-> a.meta, limit |-> a.limit, answer |-> out.answer,
                result |-> "ok"]
        /\ a.op.does \in Deeds
    BY <1>1, <2>1 DEF AskSound
  <2>3. \A row \in stock' : RowSound(row)
    BY <1>2, <1>3, <2>2, StockStaysSound
  <2>4. ASSUME a.op.of = "memory", a.op.does \in {"search", "list"}, "agent" \in DOMAIN a.args
        PROVE  \A row \in out.answer : row.by \in {0, a.args["agent"]}
    <3>1. "agent" \in DOMAIN PassOn(a) /\ PassOn(a)["agent"] = a.args["agent"]
      BY <2>4 DEF PassOn
    <3> QED BY <1>2, <1>3, <2>4, <3>1, AnswersAreTheirs
  <2>5. AnswerSound(b)
    BY <2>2, <2>4 DEF AnswerSound
  <2>6. AskSound(b)
    BY <2>2, <2>5 DEF AskSound
  <2> QED BY <1>2, <1>3, <2>1, <2>3, <2>6, StageKeeps
<1>4. CASE Finishes(g, "error") /\ stock' = stock
  BY <1>2, <1>4, EndsUnserved
<1> QED BY <1>1, <1>3, <1>4 DEF Serves

LEMMA FrontSteps ==
    ASSUME FrontInv, [FrontNext]_frontVars
    PROVE  FrontInv'
<1>1. ASSUME NEW g \in Guests, LookUp(g) \/ Enter(g) PROVE FrontInv'
  <2>1. /\ asks[g].at \in {"provider", "call"} /\ frontEnd' = frontEnd /\ stock' = stock
        /\ \/ \E at \in {"call", "store"} : Stage(g, [asks[g] EXCEPT !.at = at])
           \/ \E result \in {"refused", "poisoned", "error", "dropped"} : Finishes(g, result)
    BY <1>1 DEF LookUp, Enter, Underway
  <2> QED BY <2>1, MovesOn, EndsUnserved
<1>2. ASSUME NEW g \in Guests, Panic(g) PROVE FrontInv'
  <2>1. PICK result \in {"dropped", "error"} : Finishes(g, result)
    BY <1>2 DEF Panic
  <2>2. frontEnd' = frontEnd /\ stock' = stock
    BY <1>2 DEF Panic
  <2> QED BY <2>1, <2>2, EndsUnserved
<1>3. CASE UNCHANGED frontVars
  <2>1. UNCHANGED <<frontEnd, stock, asks>>
    BY <1>3 DEF frontVars
  <2> QED BY <2>1 DEF FrontInv
<1> QED BY <1>1, <1>2, <1>3, AskKeeps, ServesKeeps DEF FrontNext, CallMoves

\* Through every binding and server (memme-node, memme-python, memme-ffi, memme-mcp, memme-server), for any rows,
\* with any number of callers and whatever they add, merge, change and remove: a search or a list of an agent's
\* memories returns none that another agent told.
THEOREM PetsDoNotMix == FrontSpec => []PetsStayApart
<1>1. ASSUME FrontInv PROVE PetsStayApart
  <2>1. \A g \in Guests : AskSound(asks[g])
    BY <1>1 DEF FrontInv
  <2> QED BY <2>1 DEF PetsStayApart, AskSound, AnswerSound
<1>2. FrontInit => FrontInv
  BY FrontStarts
<1>3. FrontInv /\ [FrontNext]_frontVars => FrontInv'
  BY FrontSteps
<1> QED BY <1>1, <1>2, <1>3, PTL DEF FrontSpec
--------------------------------------------------------------------------------
(* The graph: layers *)

\* What a relation leads to; and what it leads to in so many steps.
Image(A, X) == {p[2] : p \in {q \in A : q[1] \in X}}
Layers(w, A, X, n) == w = [d \in 0..n |-> IF d = 0 THEN X ELSE w[d - 1] \cup Image(A, w[d - 1])]

Climbs(w, A, X, n) == w[0] = X /\ \A d \in 1..n : w[d] = w[d - 1] \cup Image(A, w[d - 1])

LEMMA LayersAre ==
    ASSUME NEW A, NEW X, NEW n \in Nat, NEW w, Layers(w, A, X, n)
    PROVE  Climbs(w, A, X, n)
<1>1. \A d \in 0..n : w[d] = IF d = 0 THEN X ELSE w[d - 1] \cup Image(A, w[d - 1])
  BY DEF Layers
<1>3. 0 \in 0..n /\ \A d \in 1..n : d \in 0..n /\ d # 0
  OBVIOUS
<1> QED BY <1>1, <1>3 DEF Climbs

LEMMA LayersExist ==
    ASSUME NEW A, NEW X, NEW n \in Nat
    PROVE  \E w : Layers(w, A, X, n)
<1> DEFINE T == {m \in Nat : ~ \E w : Layers(w, A, X, m)}
<1>1. SUFFICES ASSUME T # {} PROVE FALSE
  OBVIOUS
<1>2. PICK t \in T : \A y \in T : ~(y < t)
  <2>1. T \in SUBSET Nat
    OBVIOUS
  <2> HIDE DEF T
  <2> QED BY <1>1, <2>1, Least
<1>3. t \in Nat /\ ~ \E w : Layers(w, A, X, t)
  OBVIOUS
<1>4. CASE t = 0
  <2>1. PICK w : w = [d \in 0..0 |-> X]
    OBVIOUS
  <2>2. \A d \in 0..0 : d = 0 /\ w[d] = X
    BY <2>1
  <2>3. w = [d \in 0..0 |-> IF d = 0 THEN X ELSE w[d - 1] \cup Image(A, w[d - 1])]
    BY <2>1, <2>2
  <2> QED BY <1>3, <1>4, <2>3 DEF Layers
<1>5. CASE t # 0
  <2>1. t - 1 \in Nat /\ t - 1 < t
    BY <1>3, <1>5
  <2>2. t - 1 \notin T
    <3> HIDE DEF T
    <3> QED BY <1>2, <2>1
  <2>3. PICK v : Layers(v, A, X, t - 1)
    BY <2>1, <2>2
  <2>4. v[0] = X /\ \A d \in 1..(t - 1) : v[d] = v[d - 1] \cup Image(A, v[d - 1])
    <3>1. Climbs(v, A, X, t - 1)
      BY <2>1, <2>3, LayersAre
    <3> QED BY <3>1 DEF Climbs
  <2>5. PICK w : w = [d \in 0..t |-> IF d = t THEN v[t - 1] \cup Image(A, v[t - 1]) ELSE v[d]]
    OBVIOUS
  <2>6. ASSUME NEW d \in 0..t
        PROVE  w[d] = IF d = 0 THEN X ELSE w[d - 1] \cup Image(A, w[d - 1])
    <3>1. CASE d = 0
      BY <1>5, <2>4, <2>5, <3>1
    <3>2. CASE d # 0
      <4>1. d - 1 \in 0..t /\ d - 1 # t
        BY <1>3, <3>2
      <4>2. w[d - 1] = v[d - 1]
        BY <2>5, <4>1
      <4>3. d = t \/ d \in 1..(t - 1)
        BY <1>3, <3>2
      <4>4. w[d] = v[d - 1] \cup Image(A, v[d - 1])
        BY <1>3, <2>4, <2>5, <4>3
      <4> QED BY <3>2, <4>2, <4>4
    <3> QED BY <3>1, <3>2
  <2>7. w = [d \in 0..t |-> w[d]]
    BY <2>5
  <2>8. w = [d \in 0..t |-> IF d = 0 THEN X ELSE w[d - 1] \cup Image(A, w[d - 1])]
    BY <2>6, <2>7
  <2> QED BY <1>3, <2>8 DEF Layers
<1> QED BY <1>4, <1>5

LEMMA ImageGrows ==
    ASSUME NEW A, NEW B, NEW X, NEW Y, A \subseteq B, X \subseteq Y
    PROVE  Image(A, X) \subseteq Image(B, Y)
BY DEF Image

LEMMA ImageHas ==
    ASSUME NEW A, NEW X, NEW p \in X, NEW q, <<p, q>> \in A
    PROVE  q \in Image(A, X)
<1>1. PICK z \in A : z = <<p, q>>
  OBVIOUS
<1>2. z[1] \in X /\ z[2] = q
  BY <1>1
<1> QED BY <1>2 DEF Image

\* More relations, more in each layer.
LEMMA LayersGrow ==
    ASSUME NEW A, NEW B, A \subseteq B, NEW X, NEW n \in Nat, NEW w, Layers(w, A, X, n), NEW v, Layers(v, B, X, n)
    PROVE  \A d \in 0..n : w[d] \subseteq v[d]
<1>4. /\ w[0] = X /\ \A d \in 1..n : w[d] = w[d - 1] \cup Image(A, w[d - 1])
      /\ v[0] = X /\ \A d \in 1..n : v[d] = v[d - 1] \cup Image(B, v[d - 1])
  <2>1. Climbs(w, A, X, n) /\ Climbs(v, B, X, n)
    BY LayersAre
  <2> QED BY <2>1 DEF Climbs
<1> DEFINE T == {d \in 0..n : ~(w[d] \subseteq v[d])}
<1>1. SUFFICES ASSUME T # {} PROVE FALSE
  OBVIOUS
<1>2. PICK t \in T : \A y \in T : ~(y < t)
  <2>1. T \in SUBSET Nat
    OBVIOUS
  <2> HIDE DEF T
  <2> QED BY <1>1, <2>1, Least
<1>3. t \in 0..n /\ ~(w[t] \subseteq v[t])
  OBVIOUS
<1>5. t # 0 /\ t \in 1..n /\ t - 1 \in 0..n /\ t - 1 < t
  BY <1>3, <1>4
<1>6. t - 1 \notin T
  <2> HIDE DEF T
  <2> QED BY <1>2, <1>5
<1>7. w[t - 1] \subseteq v[t - 1]
  BY <1>5, <1>6
<1>8. Image(A, w[t - 1]) \subseteq Image(B, v[t - 1])
  BY <1>7, ImageGrows
<1> QED BY <1>3, <1>4, <1>5, <1>7, <1>8

\* Each layer holds the ones before it.
LEMMA LayersWiden ==
    ASSUME NEW A, NEW X, NEW n \in Nat, NEW w, Layers(w, A, X, n), NEW d \in 0..n
    PROVE  \A e \in d..n : w[d] \subseteq w[e]
<1>0. \A e \in 1..n : w[e] = w[e - 1] \cup Image(A, w[e - 1])
  <2>1. Climbs(w, A, X, n)
    BY LayersAre
  <2> QED BY <2>1 DEF Climbs
<1> DEFINE T == {e \in d..n : ~(w[d] \subseteq w[e])}
<1>1. SUFFICES ASSUME T # {} PROVE FALSE
  OBVIOUS
<1>2. PICK t \in T : \A y \in T : ~(y < t)
  <2>1. T \in SUBSET Nat
    OBVIOUS
  <2> HIDE DEF T
  <2> QED BY <1>1, <2>1, Least
<1>3. t \in d..n /\ ~(w[d] \subseteq w[t])
  OBVIOUS
<1>4. t # d /\ t \in 1..n /\ t - 1 \in d..n /\ t - 1 < t
  BY <1>3
<1>5. t - 1 \notin T
  <2> HIDE DEF T
  <2> QED BY <1>2, <1>4
<1>6. w[d] \subseteq w[t - 1]
  BY <1>4, <1>5
<1>7. w[t] = w[t - 1] \cup Image(A, w[t - 1])
  BY <1>0, <1>4
<1> QED BY <1>3, <1>6, <1>7

\* What a closed set holds of the first layer it holds of all.
LEMMA LayersStay ==
    ASSUME NEW A, NEW X, NEW n \in Nat, NEW w, Layers(w, A, X, n), NEW Y, X \subseteq Y, Image(A, Y) \subseteq Y
    PROVE  \A d \in 0..n : w[d] \subseteq Y
<1>4. w[0] = X /\ \A d \in 1..n : w[d] = w[d - 1] \cup Image(A, w[d - 1])
  <2>1. Climbs(w, A, X, n)
    BY LayersAre
  <2> QED BY <2>1 DEF Climbs
<1> DEFINE T == {d \in 0..n : ~(w[d] \subseteq Y)}
<1>1. SUFFICES ASSUME T # {} PROVE FALSE
  OBVIOUS
<1>2. PICK t \in T : \A y \in T : ~(y < t)
  <2>1. T \in SUBSET Nat
    OBVIOUS
  <2> HIDE DEF T
  <2> QED BY <1>1, <2>1, Least
<1>3. t \in 0..n /\ ~(w[t] \subseteq Y)
  OBVIOUS
<1>5. t # 0 /\ t \in 1..n /\ t - 1 \in 0..n /\ t - 1 < t
  BY <1>3, <1>4
<1>6. t - 1 \notin T
  <2> HIDE DEF T
  <2> QED BY <1>2, <1>5
<1>7. w[t - 1] \subseteq Y
  BY <1>5, <1>6
<1>8. Image(A, w[t - 1]) \subseteq Image(A, Y)
  BY <1>7, ImageGrows
<1> QED BY <1>3, <1>4, <1>5, <1>7, <1>8

--------------------------------------------------------------------------------
(* The graph: nodes and relationships *)

\* Which names, and which entities, the relationships bring together.
NamePairs(n, e) == {<<n[x[1]], n[x[2]]>> : x \in Range(e)} \cup {<<n[x[2]], n[x[1]]>> : x \in Range(e)}
IdPairs(e) == UNION {Ends(x) \X Ends(x) : x \in Range(e)}

\* Nodes and relationships are only added, and a relationship is one of two nodes.
GraphSound(n, e) ==
    /\ \E S : n \in Seq(S)
    /\ \E S : e \in Seq(S)
    /\ \A x \in Range(e) : x[1] \in DOMAIN n /\ x[2] \in DOMAIN n
Grown(n, e, m, f) ==
    /\ DOMAIN n \subseteq DOMAIN m /\ \A i \in DOMAIN n : m[i] = n[i]
    /\ DOMAIN e \subseteq DOMAIN f /\ \A r \in DOMAIN e : f[r] = e[r]

LEMMA PairsGrow ==
    ASSUME NEW n, NEW e, NEW m, NEW f, GraphSound(n, e), Grown(n, e, m, f)
    PROVE  NamePairs(n, e) \subseteq NamePairs(m, f) /\ IdPairs(e) \subseteq IdPairs(f)
<1>1. Range(e) \subseteq Range(f)
  BY DEF Grown, Range
<1>2. \A x \in Range(e) : x \in Range(f) /\ n[x[1]] = m[x[1]] /\ n[x[2]] = m[x[2]]
  BY <1>1 DEF Grown, GraphSound
<1>3. \A x \in Range(e) : <<n[x[1]], n[x[2]]>> \in NamePairs(m, f) /\ <<n[x[2]], n[x[1]]>> \in NamePairs(m, f)
  BY <1>2 DEF NamePairs
<1>4. NamePairs(n, e) \subseteq NamePairs(m, f)
  BY <1>3 DEF NamePairs
<1>5. IdPairs(e) \subseteq IdPairs(f)
  BY <1>1 DEF IdPairs
<1> QED BY <1>4, <1>5

\* The graph of the next state: a node more, or a relationship more.
LEMMA NodeIsAdded ==
    ASSUME NEW n, NEW e, GraphSound(n, e), NEW x, NEW m, m = Append(n, x)
    PROVE  GraphSound(m, e) /\ Grown(n, e, m, e)
<1>1. PICK S : n \in Seq(S)
  BY DEF GraphSound
<1>2. PICK S2 : S2 = S \cup {x}
  OBVIOUS
<1>3. n \in Seq(S2) /\ x \in S2
  <2>1. Len(n) \in Nat /\ n = [i \in 1..Len(n) |-> n[i]] /\ \A i \in 1..Len(n) : n[i] \in S2
    BY <1>1, <1>2
  <2>2. n \in Seq(S2)
    BY <2>1
  <2> QED BY <1>2, <2>2
<1>4. m \in Seq(S2) /\ DOMAIN n \subseteq DOMAIN m /\ \A i \in DOMAIN n : m[i] = n[i]
  <2>1. PICK l \in Nat : l = Len(n)
    BY <1>1
  <2>2. DOMAIN n = 1..l /\ DOMAIN m = 1..(l + 1) /\ m \in Seq(S2) /\ \A i \in 1..l : m[i] = n[i]
    BY <1>3, <2>1
  <2> QED BY <2>1, <2>2
<1>5. GraphSound(m, e)
  BY <1>4 DEF GraphSound
<1> QED BY <1>4, <1>5 DEF Grown

LEMMA EdgeIsAdded ==
    ASSUME NEW n, NEW e, GraphSound(n, e), NEW x, x[1] \in DOMAIN n, x[2] \in DOMAIN n, NEW f, f = Append(e, x)
    PROVE  GraphSound(n, f) /\ Grown(n, e, n, f)
<1>1. PICK S : e \in Seq(S)
  BY DEF GraphSound
<1>2. PICK S2 : S2 = S \cup {x}
  OBVIOUS
<1>3. e \in Seq(S2) /\ x \in S2
  <2>1. Len(e) \in Nat /\ e = [i \in 1..Len(e) |-> e[i]] /\ \A i \in 1..Len(e) : e[i] \in S2
    BY <1>1, <1>2
  <2>2. e \in Seq(S2)
    BY <2>1
  <2> QED BY <1>2, <2>2
<1>4. PICK l \in Nat : l = Len(e)
  BY <1>1
<1>5. DOMAIN e = 1..l /\ DOMAIN f = 1..(l + 1) /\ f \in Seq(S2) /\ f[l + 1] = x /\ \A i \in 1..l : f[i] = e[i]
  BY <1>3, <1>4
<1>6. ASSUME NEW y \in Range(f) PROVE y \in Range(e) \/ y = x
  <2>1. PICK i \in 1..(l + 1) : y = f[i]
    BY <1>5 DEF Range
  <2>2. i \in 1..l \/ i = l + 1
    OBVIOUS
  <2> QED BY <1>5, <2>1, <2>2 DEF Range
<1>7. GraphSound(n, f)
  BY <1>5, <1>6 DEF GraphSound
<1>8. DOMAIN e \subseteq DOMAIN f
  BY <1>5
<1> QED BY <1>5, <1>7, <1>8 DEF Grown

LEMMA EdgesAreFinite ==
    ASSUME NEW n, NEW e, GraphSound(n, e)
    PROVE  IsFiniteSet(Range(e))
<1>1. PICK S : e \in Seq(S)
  BY DEF GraphSound
<1>2. e \in Surjection(DOMAIN e, Range(e))
  <2>1. e \in [DOMAIN e -> Range(e)]
    BY <1>1 DEF Range
  <2> QED BY <2>1 DEF Surjection, Range
<1>3. PICK l \in Nat : l = Len(e)
  BY <1>1
<1>4. DOMAIN e = 1..l /\ IsFiniteSet(1..l)
  BY <1>1, <1>3, FS_Interval
<1> QED BY <1>2, <1>4, FS_Surjection

--------------------------------------------------------------------------------
(* The graph: a spread *)

\* What a spread has found is within its hops of the graph as it is now; and unless it was cut, it holds as many
\* layers of the graph as it was when the spread began, and all that is next to what it has gone on from.
SpreadTyped(W) ==
    /\ W.hops \in Nat /\ W.depth \in Nat \ {0} /\ W.hops <= W.depth
    /\ IsFiniteSet(W.found) /\ W.frontier \subseteq W.found /\ W.from \subseteq W.found
    /\ Cardinality(W.found \ W.from) < 2 * MaxSpread
SpreadNear(W, A) == \A w : Layers(w, A, W.from, W.depth) => W.found \subseteq w[W.hops]
SpreadFar(W, A) ==
    \E N, w :
       /\ N \subseteq A /\ Layers(w, N, W.from, W.depth) /\ W.sure = w[W.depth]
       /\ ~W.cut => w[W.hops] \subseteq W.found /\ Image(N, W.found \ W.frontier) \subseteq W.found
IsOver(W) == W.pc = "spread done"
SpreadOver(W) == IsOver(W) => (W.frontier = {} \/ Cardinality(W.found) >= MaxSpread \/ W.hops = W.depth)
SpreadSound(W, A) == SpreadTyped(W) /\ SpreadNear(W, A) /\ SpreadFar(W, A) /\ SpreadOver(W)

\* The graph may grow.
LEMMA SpreadStays ==
    ASSUME NEW W, NEW A, NEW B, A \subseteq B, SpreadSound(W, A)
    PROVE  SpreadSound(W, B)
<1>1. ASSUME NEW v, Layers(v, B, W.from, W.depth) PROVE W.found \subseteq v[W.hops]
  <2>0. W.hops \in Nat /\ W.depth \in Nat \ {0} /\ W.hops <= W.depth
    BY DEF SpreadSound, SpreadTyped, SpreadNear, SpreadFar, SpreadOver, IsOver
  <2>1. W.depth \in Nat /\ W.hops \in 0..W.depth
    BY <2>0
  <2>2. PICK w : Layers(w, A, W.from, W.depth)
    BY <2>1, LayersExist
  <2>3. w[W.hops] \subseteq v[W.hops]
    BY <1>1, <2>1, <2>2, LayersGrow
  <2> QED BY <2>2, <2>3 DEF SpreadSound, SpreadTyped, SpreadNear, SpreadFar, SpreadOver, IsOver
<1>2. \E N, w :
          /\ N \subseteq B /\ Layers(w, N, W.from, W.depth) /\ W.sure = w[W.depth]
          /\ ~W.cut => w[W.hops] \subseteq W.found /\ Image(N, W.found \ W.frontier) \subseteq W.found
  BY DEF SpreadSound, SpreadTyped, SpreadNear, SpreadFar, SpreadOver, IsOver
<1> QED BY <1>1, <1>2 DEF SpreadSound, SpreadTyped, SpreadNear, SpreadFar, SpreadOver, IsOver

\* A hop that is not the last.
LEMMA HopIsSound ==
    ASSUME NEW W, NEW A, SpreadSound(W, A), W.frontier # {}, Cardinality(W.found) < MaxSpread, W.hops < W.depth,
           NEW got, got \subseteq Image(A, W.frontier), IsFiniteSet(got), Cardinality(got) <= MaxSpread,
           NEW cut \in BOOLEAN, ~cut => ~W.cut /\ got = Image(A, W.frontier),
           NEW V, V.hops = W.hops + 1, V.depth = W.depth, V.from = W.from, V.found = W.found \cup got,
           V.frontier = got \ W.found, V.cut = cut, V.sure = W.sure, V.pc = "spread"
    PROVE  SpreadSound(V, A)
<1> USE WalkAssumption
<1>1. PICK h \in Nat, d \in Nat \ {0} : h = W.hops /\ d = W.depth
  BY DEF SpreadSound, SpreadTyped, SpreadNear, SpreadFar, SpreadOver, IsOver
<1>2. V.hops \in Nat /\ V.depth \in Nat \ {0} /\ V.hops <= V.depth /\ h \in 0..d /\ h + 1 \in 1..d /\ h + 1 \in 0..d /\ d \in 0..d
  BY <1>1
<1>3. IsFiniteSet(V.found) /\ V.frontier \subseteq V.found /\ V.from \subseteq V.found
  BY FS_Union, ZenonT(40) DEF SpreadSound, SpreadTyped, SpreadNear, SpreadFar, SpreadOver, IsOver
<1>4. Cardinality(V.found \ V.from) < 2 * MaxSpread
  <2>1. IsFiniteSet(W.found) /\ W.found \ W.from \in SUBSET W.found
    BY DEF SpreadSound, SpreadTyped, SpreadNear, SpreadFar, SpreadOver, IsOver
  <2>2. IsFiniteSet(W.found \ W.from) /\ Cardinality(W.found \ W.from) <= Cardinality(W.found)
    BY <2>1, FS_Subset
  <2>3. IsFiniteSet((W.found \ W.from) \cup got) /\ V.found \ V.from \in SUBSET ((W.found \ W.from) \cup got)
    BY <2>2, FS_Union
  <2>4. Cardinality(V.found \ V.from) <= Cardinality((W.found \ W.from) \cup got)
    BY <2>3, FS_Subset
  <2>5. Cardinality((W.found \ W.from) \cup got)
           = Cardinality(W.found \ W.from) + Cardinality(got) - Cardinality((W.found \ W.from) \cap got)
    BY <2>2, FS_Union
  <2>6. IsFiniteSet((W.found \ W.from) \cap got) /\ IsFiniteSet(V.found \ V.from)
    BY <2>2, <2>3, FS_Intersection, FS_Subset
  <2>7. PICK a \in Nat, b \in Nat, c \in Nat, f \in Nat, v \in Nat :
           /\ a = Cardinality(W.found \ W.from) /\ b = Cardinality(got) /\ c = Cardinality((W.found \ W.from) \cap got)
           /\ f = Cardinality(W.found) /\ v = Cardinality(V.found \ V.from)
    BY <2>1, <2>2, <2>6, FS_CardinalityType
  <2>8. v <= a + b - c /\ a <= f /\ f < MaxSpread /\ b <= MaxSpread /\ MaxSpread \in Nat
    BY <2>2, <2>4, <2>5, <2>7
  <2>9. v < 2 * MaxSpread
    BY <2>8
  <2> QED BY <2>7, <2>9
<1>5. ASSUME NEW w, Layers(w, A, V.from, V.depth) PROVE V.found \subseteq w[V.hops]
  <2>1. Layers(w, A, W.from, d)
    BY <1>1, <1>5
  <2>2. W.found \subseteq w[h]
    BY <1>1, <2>1 DEF SpreadSound, SpreadTyped, SpreadNear, SpreadFar, SpreadOver, IsOver
  <2>3. Climbs(w, A, W.from, d)
    BY <2>1, LayersAre
  <2>4. h + 1 \in 1..d /\ (h + 1) - 1 = h
    BY <1>2
  <2>5. w[h + 1] = w[h] \cup Image(A, w[h])
    BY <2>3, <2>4 DEF Climbs
  <2>6. W.frontier \subseteq w[h]
    BY <2>2 DEF SpreadSound, SpreadTyped, SpreadNear, SpreadFar, SpreadOver, IsOver
  <2>7. got \subseteq Image(A, w[h])
    BY <2>6, ImageGrows
  <2> QED BY <1>1, <2>2, <2>5, <2>7
<1>6. PICK N, w :
          /\ N \subseteq A /\ Layers(w, N, W.from, W.depth) /\ W.sure = w[W.depth]
          /\ ~W.cut => w[W.hops] \subseteq W.found /\ Image(N, W.found \ W.frontier) \subseteq W.found
  BY DEF SpreadSound, SpreadTyped, SpreadNear, SpreadFar, SpreadOver, IsOver
<1>7. ASSUME ~V.cut
      PROVE  w[V.hops] \subseteq V.found /\ Image(N, V.found \ V.frontier) \subseteq V.found
  <2>1. w[h] \subseteq W.found /\ Image(N, W.found \ W.frontier) \subseteq W.found /\ got = Image(A, W.frontier)
    BY <1>1, <1>6, <1>7
  <2>2. Image(N, W.frontier) \subseteq got
    BY <1>6, <2>1, ImageGrows
  <2>3. Image(N, W.found) \subseteq V.found
    BY <2>1, <2>2 DEF Image
  <2>4. V.found \ V.frontier = W.found
    OBVIOUS
  <2>5. Climbs(w, N, W.from, d)
    BY <1>1, <1>6, LayersAre
  <2>6. w[h + 1] = w[h] \cup Image(N, w[h])
    <3>1. h + 1 \in 1..d /\ (h + 1) - 1 = h
      BY <1>2
    <3> QED BY <2>5, <3>1 DEF Climbs
  <2>7. Image(N, w[h]) \subseteq Image(N, W.found)
    BY <2>1, ImageGrows
  <2> QED BY <1>1, <2>1, <2>3, <2>4, <2>6, <2>7
<1>8. \E M, u :
          /\ M \subseteq A /\ Layers(u, M, V.from, V.depth) /\ V.sure = u[V.depth]
          /\ ~V.cut => u[V.hops] \subseteq V.found /\ Image(M, V.found \ V.frontier) \subseteq V.found
  BY <1>6, <1>7
<1> QED BY <1>2, <1>3, <1>4, <1>5, <1>8 DEF SpreadSound, SpreadTyped, SpreadNear, SpreadFar, SpreadOver, IsOver

\* What the property says of a spread that is done
LEMMA SpreadEnds ==
    ASSUME NEW W, NEW A, SpreadSound(W, A), IsOver(W), NEW w, Layers(w, A, W.from, W.depth)
    PROVE  /\ W.found \subseteq w[W.depth]
           /\ ~W.cut /\ Cardinality(W.found) < MaxSpread => W.sure \subseteq W.found
           /\ Cardinality(W.found \ W.from) < 2 * MaxSpread
<1> USE DEF SpreadTyped
<1>0. SpreadTyped(W) /\ SpreadNear(W, A) /\ SpreadFar(W, A) /\ SpreadOver(W)
  BY DEF SpreadSound
<1>1. PICK h \in Nat, d \in Nat : h = W.hops /\ d = W.depth /\ h <= d
  BY <1>0
<1>2. h \in 0..d /\ d \in 0..d /\ d \in h..d
  <2>1. h \in Nat /\ d \in Nat /\ h <= d
    BY <1>1
  <2> HIDE <1>1
  <2> QED BY <2>1
<1>3. W.found \subseteq w[d]
  <2>1. W.found \subseteq w[h]
    BY <1>0, <1>1 DEF SpreadNear
  <2>2. w[h] \subseteq w[d]
    BY <1>1, <1>2, LayersWiden
  <2> QED BY <2>1, <2>2
<1>4. ASSUME ~W.cut, Cardinality(W.found) < MaxSpread PROVE W.sure \subseteq W.found
  <2>1. PICK N, u :
          /\ N \subseteq A /\ Layers(u, N, W.from, W.depth) /\ W.sure = u[W.depth]
          /\ ~W.cut => u[W.hops] \subseteq W.found /\ Image(N, W.found \ W.frontier) \subseteq W.found
    BY <1>0 DEF SpreadFar
  <2>2. W.frontier = {} \/ h = d
    <3>1. PICK c \in Nat, m \in Nat : c = Cardinality(W.found) /\ m = MaxSpread
      BY <1>0, FS_CardinalityType, WalkAssumption
    <3>2. ~(c >= m)
      <4>1. c < m
        BY <1>4, <3>1
      <4> QED BY <4>1
    <3>3. W.frontier = {} \/ Cardinality(W.found) >= MaxSpread \/ W.hops = W.depth
      BY <1>0 DEF SpreadOver
    <3> QED BY <1>1, <3>1, <3>2, <3>3
  <2>3. CASE h = d
    BY <1>1, <1>4, <2>1, <2>3
  <2>4. CASE W.frontier = {}
    <3>1. Image(N, W.found) \subseteq W.found
      <4>1. W.found \ W.frontier = W.found
        BY <2>4
      <4> QED BY <1>4, <2>1, <4>1
    <3>2. W.from \subseteq W.found
      BY <1>0
    <3>3. Layers(u, N, W.from, d)
      BY <1>1, <2>1
    <3>4. u[d] \subseteq W.found
      <4>1. \A x \in 0..d : u[x] \subseteq W.found
        <5> HIDE DEF SpreadTyped
        <5>1. PICK Y, X : Y = W.found /\ X = W.from
          OBVIOUS
        <5>2. X \subseteq Y /\ Image(N, Y) \subseteq Y /\ Layers(u, N, X, d)
          BY <3>1, <3>2, <3>3, <5>1
        <5>3. \A x \in 0..d : u[x] \subseteq Y
          BY <1>1, <5>2, LayersStay
        <5> QED BY <5>1, <5>3
      <4> QED BY <1>2, <4>1
    <3> QED BY <1>1, <2>1, <3>4
  <2> QED BY <2>2, <2>3, <2>4
<1> QED BY <1>0, <1>1, <1>3, <1>4

--------------------------------------------------------------------------------
(* The graph: a search *)

SearchTyped(W, e) ==
    /\ W.depth \in Nat \ {0} /\ W.frontier \subseteq W.from
    /\ W.taken \subseteq DOMAIN e /\ W.sure \subseteq DOMAIN e
    /\ W.found = W.from \cup UNION {Ends(e[r]) : r \in W.taken}
SearchWide(W, e) == \A r \in W.sure : r \in W.taken \/ Ends(e[r]) \cap W.frontier # {}
SearchNear(W, e) == \A w : Layers(w, IdPairs(e), W.from, W.depth) => W.found \subseteq w[W.depth]
SearchOver(W) == W.pc = "search done" => W.frontier = {}
SearchSound(W, e) == SearchTyped(W, e) /\ SearchWide(W, e) /\ SearchNear(W, e) /\ SearchOver(W)

LEMMA SearchStays ==
    ASSUME NEW W, NEW n, NEW e, NEW m, NEW f, GraphSound(n, e), Grown(n, e, m, f), SearchSound(W, e)
    PROVE  SearchSound(W, f)
<1>1. DOMAIN e \subseteq DOMAIN f /\ \A r \in DOMAIN e : f[r] = e[r]
  BY DEF Grown
<1>2. SearchTyped(W, f)
  <2>1. SearchTyped(W, e)
    BY DEF SearchSound
  <2>2. W.taken \subseteq DOMAIN e
    BY <2>1 DEF SearchTyped
  <2>3. UNION {Ends(e[r]) : r \in W.taken} = UNION {Ends(f[r]) : r \in W.taken}
    BY <1>1, <2>2
  <2> QED BY <1>1, <2>1, <2>3 DEF SearchTyped
<1>3. SearchWide(W, f)
  <2>1. SearchWide(W, e) /\ W.sure \subseteq DOMAIN e
    BY DEF SearchSound, SearchTyped
  <2> QED BY <1>1, <2>1 DEF SearchWide
<1>4. ASSUME NEW v, Layers(v, IdPairs(f), W.from, W.depth) PROVE W.found \subseteq v[W.depth]
  <2>1. PICK d \in Nat : d = W.depth
    BY DEF SearchSound, SearchTyped
  <2>2. PICK w : Layers(w, IdPairs(e), W.from, d)
    BY <2>1, LayersExist
  <2>3. \A x \in 0..d : w[x] \subseteq v[x]
    <3>1. IdPairs(e) \subseteq IdPairs(f)
      BY PairsGrow
    <3>2. Layers(v, IdPairs(f), W.from, d)
      BY <1>4, <2>1
    <3> QED BY <2>1, <2>2, <3>1, <3>2, LayersGrow
  <2>4. d \in 0..d
    BY <2>1
  <2>5. W.found \subseteq w[d]
    BY <2>1, <2>2 DEF SearchSound, SearchNear
  <2> QED BY <2>1, <2>3, <2>4, <2>5
<1> QED BY <1>2, <1>3, <1>4 DEF SearchSound, SearchNear

\* The relationships that get_entity_neighborhood returns: those of the entity, and none that is farther off.
Reaches(g, id, depth) ==
    g = [d \in 1..depth |->
            IF d = 1 THEN {r \in DOMAIN edges : id \in Ends(edges[r])}
            ELSE g[d - 1] \cup {r \in DOMAIN edges : \E n \in g[d - 1] : r # n /\ Adjoins(r, n)}]

LEMMA ReachExists ==
    ASSUME NEW id, NEW depth \in Nat \ {0}
    PROVE  \E g : Reaches(g, id, depth)
<1> DEFINE First == {r \in DOMAIN edges : id \in Ends(edges[r])}
           Next(n) == {r \in DOMAIN edges : r # n /\ Adjoins(r, n)}
           A == {p \in (DOMAIN edges) \X (DOMAIN edges) : p[2] \in Next(p[1])}
<1>1. PICK k \in Nat : k + 1 = depth
  <2>1. depth - 1 \in Nat /\ (depth - 1) + 1 = depth
    OBVIOUS
  <2> QED BY <2>1
<1>2. \A Y \in SUBSET (DOMAIN edges) : Image(A, Y) = {r \in DOMAIN edges : \E n \in Y : r # n /\ Adjoins(r, n)}
  <2>1. ASSUME NEW Y \in SUBSET (DOMAIN edges), NEW r \in Image(A, Y)
        PROVE  r \in DOMAIN edges /\ \E n \in Y : r # n /\ Adjoins(r, n)
    <3>1. PICK z \in A : z[1] \in Y /\ r = z[2]
      BY <2>1 DEF Image
    <3>2. r \in Next(z[1]) /\ z[1] \in Y
      BY <3>1
    <3> QED BY <3>2
  <2>2. ASSUME NEW Y \in SUBSET (DOMAIN edges), NEW r \in DOMAIN edges, NEW n \in Y, r # n, Adjoins(r, n)
        PROVE  r \in Image(A, Y)
    <3>1. PICK z : z = <<n, r>>
      OBVIOUS
    <3>2. z \in (DOMAIN edges) \X (DOMAIN edges) /\ z[1] = n /\ z[2] = r
      BY <3>1
    <3>3. <<n, r>> \in A
      BY <2>2, <3>1, <3>2
    <3> HIDE DEF A
    <3> QED BY <3>3, ImageHas
  <2> HIDE DEF A
  <2> QED BY <2>1, <2>2
<1>3. First \subseteq DOMAIN edges /\ Image(A, DOMAIN edges) \subseteq DOMAIN edges
  BY <1>2
<1> HIDE DEF A
<1>4. PICK v : Layers(v, A, First, k)
  BY <1>1, LayersExist
<1> HIDE DEF First
<1>5. \A d \in 0..k : v[d] \subseteq DOMAIN edges
  BY <1>1, <1>3, <1>4, LayersStay
<1>6. v[0] = First /\ \A d \in 1..k : v[d] = v[d - 1] \cup Image(A, v[d - 1])
  <2>1. Climbs(v, A, First, k)
    BY <1>1, <1>4, LayersAre
  <2> QED BY <2>1 DEF Climbs
<1>7. PICK g : g = [d \in 1..depth |-> v[d - 1]]
  OBVIOUS
<1>8. ASSUME NEW d \in 1..depth
      PROVE  g[d] = IF d = 1 THEN First
                    ELSE g[d - 1] \cup {r \in DOMAIN edges : \E n \in g[d - 1] : r # n /\ Adjoins(r, n)}
  <2>1. CASE d = 1
    BY <1>6, <1>7, <2>1
  <2>2. CASE d # 1
    <3>1. d - 1 \in 1..depth /\ d - 1 \in 1..k /\ (d - 1) - 1 \in 0..k
      BY <1>1, <2>2
    <3>2. PICK c : c = d - 1
      OBVIOUS
    <3>3. g[d] = v[c] /\ g[c] = v[c - 1]
      BY <1>7, <3>1, <3>2
    <3>4. v[c] = v[c - 1] \cup Image(A, v[c - 1]) /\ v[c - 1] \subseteq DOMAIN edges
      BY <1>5, <1>6, <3>1, <3>2
    <3>5. v[c] = v[c - 1] \cup {r \in DOMAIN edges : \E n \in v[c - 1] : r # n /\ Adjoins(r, n)}
      BY <1>2, <3>4
    <3> QED BY <2>2, <3>2, <3>3, <3>5
  <2> QED BY <2>1, <2>2
<1>9. g = [d \in 1..depth |-> g[d]]
  BY <1>7
<1>10. g = [d \in 1..depth |->
               IF d = 1 THEN First
               ELSE g[d - 1] \cup {r \in DOMAIN edges : \E n \in g[d - 1] : r # n /\ Adjoins(r, n)}]
  BY <1>8, <1>9
<1> QED BY <1>10, ZenonT(40) DEF Reaches, First

LEMMA NeighborhoodIs ==
    ASSUME NEW id, NEW depth \in Nat \ {0}
    PROVE  \E g : Reaches(g, id, depth) /\ Neighborhood(id, depth) = g[depth]
<1> DEFINE AreLayers(h) == h = [d \in 1..depth |->
               IF d = 1 THEN {r \in DOMAIN edges : id \in Ends(edges[r])}
               ELSE h[d - 1] \cup {r \in DOMAIN edges : \E n \in h[d - 1] : r # n /\ Adjoins(r, n)}]
<1>1. \E h : AreLayers(h)
  <2>1. PICK r : Reaches(r, id, depth)
    BY ReachExists
  <2>2. AreLayers(r)
    BY <2>1 DEF Reaches
  <2> HIDE DEF AreLayers
  <2> QED BY <2>2
<1>2. PICK g : g = (CHOOSE h : AreLayers(h)) /\ AreLayers(g)
  <2> HIDE DEF AreLayers
  <2> QED BY <1>1
<1>3. Neighborhood(id, depth) = g[depth]
  BY <1>2 DEF Neighborhood
<1> QED BY <1>2, <1>3 DEF Reaches

LEMMA NeighborhoodIsNear ==
    ASSUME NEW id, NEW depth \in Nat \ {0}, NEW X, id \in X, NEW w, Layers(w, IdPairs(edges), X, depth)
    PROVE  /\ Neighborhood(id, depth) \subseteq DOMAIN edges
           /\ {r \in DOMAIN edges : id \in Ends(edges[r])} \subseteq Neighborhood(id, depth)
           /\ \A r \in Neighborhood(id, depth) : Ends(edges[r]) \subseteq w[depth]
<1>1. PICK g : Reaches(g, id, depth) /\ Neighborhood(id, depth) = g[depth]
  BY NeighborhoodIs
<1> DEFINE First == {r \in DOMAIN edges : id \in Ends(edges[r])}
           Near(d) == First \subseteq g[d] /\ g[d] \subseteq DOMAIN edges /\ \A r \in g[d] : Ends(edges[r]) \subseteq w[d]
           T == {d \in 1..depth : ~Near(d)}
<1>2. \A d \in 1..depth : g[d] = IF d = 1 THEN First
                    ELSE g[d - 1] \cup {r \in DOMAIN edges : \E n \in g[d - 1] : r # n /\ Adjoins(r, n)}
  BY <1>1 DEF Reaches
<1>3. w[0] = X /\ \A d \in 1..depth : w[d] = w[d - 1] \cup Image(IdPairs(edges), w[d - 1])
  <2>1. Climbs(w, IdPairs(edges), X, depth)
    BY LayersAre
  <2> QED BY <2>1 DEF Climbs
<1>4. ASSUME NEW Y, NEW r \in DOMAIN edges, Ends(edges[r]) \cap Y # {}
      PROVE  Ends(edges[r]) \subseteq Image(IdPairs(edges), Y)
  <2>1. PICK p \in Y : p \in Ends(edges[r])
    BY <1>4
  <2>2. ASSUME NEW q \in Ends(edges[r]) PROVE <<p, q>> \in IdPairs(edges)
    BY <2>1 DEF IdPairs, Range
  <2>3. \A q \in Ends(edges[r]) : q \in Image(IdPairs(edges), Y)
    BY <2>2, ImageHas
  <2> QED BY <2>3
<1>5. T = {}
  <2>1. SUFFICES ASSUME T # {} PROVE FALSE
    OBVIOUS
  <2>2. PICK t \in T : \A y \in T : ~(y < t)
    <3>1. T \in SUBSET Nat
      OBVIOUS
    <3> HIDE DEF T
    <3> QED BY <2>1, <3>1, Least
  <2>3. t \in 1..depth /\ ~Near(t)
    OBVIOUS
  <2> HIDE DEF T
  <2>4. CASE t = 1
    <3>1. g[1] = First /\ w[1] = w[0] \cup Image(IdPairs(edges), w[0]) /\ w[0] = X
      <4>1. 1 \in 1..depth /\ 1 - 1 = 0
        OBVIOUS
      <4>2. g[1] = First
        BY <1>2, <4>1
      <4> QED BY <1>3, <4>1, <4>2
    <3>2. \A r \in First : r \in DOMAIN edges /\ Ends(edges[r]) \cap X # {}
      OBVIOUS
    <3> QED BY <1>4, <2>3, <2>4, <3>1, <3>2
  <2>5. CASE t # 1
    <3>0. PICK c : c = t - 1
      OBVIOUS
    <3>1. c \in 1..depth /\ c < t
      BY <2>3, <2>5, <3>0
    <3>2. Near(c)
      <4>1. c \in T <=> (c \in 1..depth /\ ~Near(c))
        BY DEF T
      <4> QED BY <2>2, <3>1, <4>1
    <3>3. g[t] = g[c] \cup {r \in DOMAIN edges : \E n \in g[c] : r # n /\ Adjoins(r, n)}
      BY <1>2, <2>3, <2>5, <3>0
    <3>4. w[t] = w[c] \cup Image(IdPairs(edges), w[c])
      BY <1>3, <2>3, <3>0
    <3>5. ASSUME NEW r \in DOMAIN edges, NEW n \in g[c], Adjoins(r, n)
          PROVE  Ends(edges[r]) \subseteq w[t]
      <4>1. Ends(edges[n]) \subseteq w[c]
        BY <3>2
      <4>2. Ends(edges[r]) \cap Ends(edges[n]) # {}
        BY <3>5 DEF Adjoins, Ends
      <4>3. Ends(edges[r]) \cap w[c] # {}
        BY <4>1, <4>2
      <4>4. Ends(edges[r]) \subseteq Image(IdPairs(edges), w[c])
        BY <1>4, <4>3
      <4> QED BY <3>4, <4>4
    <3>6. Near(t)
      BY <3>2, <3>3, <3>4, <3>5
    <3> QED BY <2>3, <3>6
  <2> QED BY <2>4, <2>5
<1>6. Near(depth)
  <2>1. depth \in 1..depth
    OBVIOUS
  <2> QED BY <1>5, <2>1
<1> QED BY <1>1, <1>6

--------------------------------------------------------------------------------
(* The graph: the layers that the properties speak of *)

\* Two functions that are layers of the same are the same.
LEMMA LayersAgree ==
    ASSUME NEW A, NEW X, NEW n \in Nat, NEW w, Layers(w, A, X, n), NEW v, Layers(v, A, X, n)
    PROVE  \A d \in 0..n : w[d] = v[d]
<1>1. (\A d \in 0..n : w[d] \subseteq v[d]) /\ (\A d \in 0..n : v[d] \subseteq w[d])
  BY LayersGrow
<1> QED BY <1>1

LEMMA NamesAreNext ==
    ASSUME NEW X
    PROVE  NamesNextTo(X) = Image(NamePairs(nodes, edges), X)
<1>1. ASSUME NEW q \in NamesNextTo(X) PROVE q \in Image(NamePairs(nodes, edges), X)
  <2>1. PICK row \in RowsNextTo(X) : q = row[1]
    BY DEF NamesNextTo, NamesIn
  <2>2. PICK e \in Range(edges) : (nodes[e[1]] \in X /\ row = <<nodes[e[2]], e[3]>>)
                                \/ (nodes[e[2]] \in X /\ row = <<nodes[e[1]], e[3]>>)
    BY <2>1 DEF RowsNextTo
  <2>3. \/ nodes[e[1]] \in X /\ q = nodes[e[2]]
        \/ nodes[e[2]] \in X /\ q = nodes[e[1]]
    BY <2>1, <2>2
  <2>4. <<nodes[e[1]], nodes[e[2]]>> \in NamePairs(nodes, edges) /\ <<nodes[e[2]], nodes[e[1]]>> \in NamePairs(nodes, edges)
    BY DEF NamePairs
  <2> QED BY <2>3, <2>4, ImageHas
<1>2. ASSUME NEW q \in Image(NamePairs(nodes, edges), X) PROVE q \in NamesNextTo(X)
  <2>1. PICK z \in NamePairs(nodes, edges) : z[1] \in X /\ q = z[2]
    BY DEF Image
  <2>2. PICK e \in Range(edges) : z = <<nodes[e[1]], nodes[e[2]]>> \/ z = <<nodes[e[2]], nodes[e[1]]>>
    BY DEF NamePairs
  <2>3. \/ nodes[e[1]] \in X /\ q = nodes[e[2]]
        \/ nodes[e[2]] \in X /\ q = nodes[e[1]]
    BY <2>1, <2>2
  <2>4. <<q, e[3]>> \in RowsNextTo(X)
    BY <2>3 DEF RowsNextTo
  <2>5. PICK row \in RowsNextTo(X) : row = <<q, e[3]>>
    BY <2>4
  <2>6. row[1] = q
    BY <2>5
  <2> QED BY <2>6 DEF NamesNextTo, NamesIn
<1> QED BY <1>1, <1>2

LEMMA BallIs ==
    ASSUME NEW X, NEW n \in Nat, NEW w, Layers(w, NamePairs(nodes, edges), X, n)
    PROVE  Ball(X, n) = w[n]
<1> DEFINE AreLayers(h) == h = [d \in 0..n |-> IF d = 0 THEN X ELSE h[d - 1] \cup NamesNextTo(h[d - 1])]
<1>1. ASSUME NEW h PROVE Layers(h, NamePairs(nodes, edges), X, n) <=> AreLayers(h)
  BY NamesAreNext DEF Layers
<1>2. PICK g : g = (CHOOSE h : AreLayers(h)) /\ AreLayers(g)
  <2>1. AreLayers(w)
    BY <1>1
  <2> HIDE DEF AreLayers
  <2> QED BY <2>1
<1>3. Ball(X, n) = g[n]
  BY <1>2 DEF Ball
<1>4. Layers(g, NamePairs(nodes, edges), X, n)
  BY <1>1, <1>2
<1>5. n \in 0..n
  OBVIOUS
<1> HIDE DEF AreLayers
<1>6. \A d \in 0..n : g[d] = w[d]
  BY <1>4, LayersAgree
<1> QED BY <1>3, <1>5, <1>6

LEMMA AroundIs ==
    ASSUME NEW X, NEW n \in Nat, NEW w, Layers(w, IdPairs(edges), X, n)
    PROVE  Around(X, n) = w[n]
<1> DEFINE Next(Y) == UNION {Ends(e) : e \in {x \in Range(edges) : Ends(x) \cap Y # {}}}
           AreLayers(h) == h = [d \in 0..n |-> IF d = 0 THEN X ELSE h[d - 1] \cup Next(h[d - 1])]
<1>0. ASSUME NEW Y PROVE Next(Y) = Image(IdPairs(edges), Y)
  <2>1. ASSUME NEW q \in Next(Y) PROVE q \in Image(IdPairs(edges), Y)
    <3>1. PICK x \in Range(edges) : Ends(x) \cap Y # {} /\ q \in Ends(x)
      OBVIOUS
    <3>2. PICK p \in Y : p \in Ends(x)
      BY <3>1
    <3>3. <<p, q>> \in IdPairs(edges)
      BY <3>1, <3>2 DEF IdPairs
    <3> QED BY <3>3, ImageHas
  <2>2. ASSUME NEW q \in Image(IdPairs(edges), Y) PROVE q \in Next(Y)
    <3>1. PICK z \in IdPairs(edges) : z[1] \in Y /\ q = z[2]
      BY DEF Image
    <3>2. PICK x \in Range(edges) : z \in Ends(x) \X Ends(x)
      BY DEF IdPairs
    <3>3. z[1] \in Ends(x) /\ q \in Ends(x)
      BY <3>1, <3>2
    <3> QED BY <3>1, <3>3
  <2> QED BY <2>1, <2>2
<1> HIDE DEF Next
<1>1. ASSUME NEW h PROVE Layers(h, IdPairs(edges), X, n) <=> AreLayers(h)
  BY <1>0 DEF Layers
<1>2. PICK g : g = (CHOOSE h : AreLayers(h)) /\ AreLayers(g)
  <2>1. AreLayers(w)
    BY <1>1
  <2> HIDE DEF AreLayers
  <2> QED BY <2>1
<1>3. Around(X, n) = g[n]
  BY <1>2 DEF Around, Next
<1>4. Layers(g, IdPairs(edges), X, n)
  BY <1>1, <1>2
<1>5. n \in 0..n
  OBVIOUS
<1> HIDE DEF AreLayers
<1>6. \A d \in 0..n : g[d] = w[d]
  BY <1>4, LayersAgree
<1> QED BY <1>3, <1>5, <1>6

\* The rows of a hop, and their names
LEMMA RowsAreFinite ==
    ASSUME GraphSound(nodes, edges), NEW X
    PROVE  IsFiniteSet(RowsNextTo(X))
<1> DEFINE P == {d \in Range(edges) : nodes[d[1]] \in X}
           Q == {d \in Range(edges) : nodes[d[2]] \in X}
           F == {<<nodes[e[2]], e[3]>> : e \in P}
           G == {<<nodes[e[1]], e[3]>> : e \in Q}
<1>1. IsFiniteSet(Range(edges))
  BY EdgesAreFinite
<1>2. IsFiniteSet(P) /\ IsFiniteSet(Q)
  <2>1. P \in SUBSET Range(edges) /\ Q \in SUBSET Range(edges)
    OBVIOUS
  <2> HIDE DEF P, Q
  <2> QED BY <1>1, <2>1, FS_Subset
<1>3. PICK f : f = [e \in P |-> <<nodes[e[2]], e[3]>>]
  OBVIOUS
<1>4. PICK g : g = [e \in Q |-> <<nodes[e[1]], e[3]>>]
  OBVIOUS
<1>5. f \in Surjection(P, F)
  <2> HIDE DEF P
  <2> QED BY <1>3 DEF Surjection
<1>6. g \in Surjection(Q, G)
  <2> HIDE DEF Q
  <2> QED BY <1>4 DEF Surjection
<1>7. IsFiniteSet(F) /\ IsFiniteSet(G)
  <2> HIDE DEF P, Q, F, G
  <2> QED BY <1>2, <1>5, <1>6, FS_Surjection
<1>8. IsFiniteSet(F \cup G)
  <2> HIDE DEF P, Q, F, G
  <2> QED BY <1>7, FS_Union
<1> QED BY <1>8 DEF RowsNextTo

LEMMA NamesAreFewer ==
    ASSUME NEW rows, IsFiniteSet(rows)
    PROVE  IsFiniteSet(NamesIn(rows)) /\ Cardinality(NamesIn(rows)) <= Cardinality(rows)
<1>1. PICK f : f = [row \in rows |-> row[1]]
  OBVIOUS
<1>2. f \in Surjection(rows, NamesIn(rows))
  BY <1>1 DEF Surjection, NamesIn
<1> QED BY <1>2, FS_Surjection

--------------------------------------------------------------------------------
(* The graph: the invariant *)

IsWeave(rec) == rec = [x \in {"pc", "names", "left", "pairs", "ends"} |-> rec[x]]
WeaveSound(rec, n) ==
    /\ IsWeave(rec)
    /\ rec.pc \in {"check", "insert"} => \E a \in DOMAIN n, b \in DOMAIN n : rec.ends = <<a, b>>

IsWalk(rec) ==
    rec = [x \in {"pc", "from", "depth", "found", "frontier", "hops", "taken", "cut", "sure"} |-> rec[x]]
IsSpread(rec) == rec.pc \in {"spread", "spread done"}
IsSearch(rec) == rec.pc \in {"search", "search done"}
WalkSound(rec, n, e) ==
    /\ IsWalk(rec)
    /\ IsSpread(rec) => SpreadSound(rec, NamePairs(n, e))
    /\ IsSearch(rec) => SearchSound(rec, e)

WeaversSound == weaver = [w \in Weavers |-> weaver[w]] /\ \A w \in Weavers : WeaveSound(weaver[w], nodes)
WalkersSound == walker = [k \in Walkers |-> walker[k]] /\ \A k \in Walkers : WalkSound(walker[k], nodes, edges)
WalkInv == GraphSound(nodes, edges) /\ WeaversSound /\ WalkersSound

LEMMA WeaveGoesOn ==
    ASSUME NEW rec, IsWeave(rec), NEW n
    PROVE  /\ WeaveSound(Continued(rec), n) /\ WeaveSound(NextPair(rec), n) /\ WeaveSound(NoMessage, n)
           /\ IsWeave([rec EXCEPT !.left = Tail(@)])
           /\ WeaveSound([rec EXCEPT !.pc = "create"], n)
<1>1. WeaveSound(NoMessage, n)
  BY DEF WeaveSound, IsWeave, NoMessage
<1>2. WeaveSound([rec EXCEPT !.pc = "create"], n) /\ WeaveSound([rec EXCEPT !.pc = "find"], n)
  BY DEF WeaveSound, IsWeave
<1>3. IsWeave([rec EXCEPT !.left = Tail(@)])
  <2>1. PICK l : l = Tail(rec.left)
    OBVIOUS
  <2>2. IsWeave([rec EXCEPT !.left = l])
    BY DEF IsWeave
  <2> QED BY <2>1, <2>2
<1>4. WeaveSound(NextPair(rec), n)
  <2>1. PICK q : q = Tail(rec.pairs)
    OBVIOUS
  <2>2. WeaveSound([rec EXCEPT !.pc = "resolve", !.pairs = q], n)
    BY DEF WeaveSound, IsWeave
  <2> QED BY <1>1, <2>1, <2>2 DEF NextPair
<1>5. WeaveSound(Continued(rec), n)
  <2>1. ASSUME NEW l, NEW p PROVE WeaveSound([rec EXCEPT !.pc = "resolve", !.left = l, !.pairs = p], n)
    BY DEF WeaveSound, IsWeave
  <2>2. WeaveSound(Joined(rec, rec.names), n)
    BY <2>1 DEF Joined
  <2> QED BY <1>2, <2>2 DEF Continued
<1> QED BY <1>1, <1>2, <1>3, <1>4, <1>5

\* One weaver goes on, and the graph stays or grows.
LEMMA WeaverSteps ==
    ASSUME WalkInv, NEW w \in Weavers, NEW rec, Weaves(w, rec), WeaveSound(rec, nodes'),
           GraphSound(nodes', edges'), Grown(nodes, edges, nodes', edges'), UNCHANGED walker
    PROVE  WalkInv'
<1>1. ASSUME NEW v \in Weavers PROVE WeaveSound(weaver'[v], nodes')
  <2>1. WeaveSound(weaver[v], nodes)
    BY DEF WalkInv, WeaversSound
  <2>2. DOMAIN nodes \subseteq DOMAIN nodes'
    BY DEF Grown
  <2>3. WeaveSound(weaver[v], nodes')
    BY <2>1, <2>2 DEF WeaveSound
  <2>4. weaver'[v] = IF v = w THEN rec ELSE weaver[v]
    BY DEF Weaves, WalkInv, WeaversSound
  <2> QED BY <2>3, <2>4
<1>2. weaver' = [v \in Weavers |-> weaver'[v]]
  BY DEF Weaves, WalkInv, WeaversSound
<1>3. ASSUME NEW k \in Walkers PROVE WalkSound(walker[k], nodes', edges')
  <2>1. WalkSound(walker[k], nodes, edges) /\ GraphSound(nodes, edges)
    BY DEF WalkInv, WalkersSound
  <2>2. PICK m, f, n, e : m = nodes' /\ f = edges' /\ n = nodes /\ e = edges
    OBVIOUS
  <2>3. NamePairs(n, e) \subseteq NamePairs(m, f)
    BY <2>1, <2>2, PairsGrow
  <2>4. IsSpread(walker[k]) => SpreadSound(walker[k], NamePairs(m, f))
    BY <2>1, <2>2, <2>3, SpreadStays DEF WalkSound
  <2>5. IsSearch(walker[k]) => SearchSound(walker[k], f)
    BY <2>1, <2>2, SearchStays DEF WalkSound
  <2> QED BY <2>1, <2>2, <2>4, <2>5 DEF WalkSound
<1>4. WeaversSound'
  BY <1>1, <1>2 DEF WeaversSound
<1>5. WalkersSound'
  BY <1>3 DEF WalkersSound, WalkInv
<1> QED BY <1>4, <1>5 DEF WalkInv

\* One walker goes on.
LEMMA WalkerSteps ==
    ASSUME WalkInv, NEW k \in Walkers, NEW rec, Walks(k, rec), WalkSound(rec, nodes, edges),
           UNCHANGED <<nodes, edges, weaver>>
    PROVE  WalkInv'
<1>1. ASSUME NEW j \in Walkers PROVE WalkSound(walker'[j], nodes, edges)
  <2>1. WalkSound(walker[j], nodes, edges)
    BY DEF WalkInv, WalkersSound
  <2>2. walker'[j] = IF j = k THEN rec ELSE walker[j]
    BY DEF Walks, WalkInv, WalkersSound
  <2> QED BY <2>1, <2>2
<1>2. walker' = [j \in Walkers |-> walker'[j]]
  BY DEF Walks, WalkInv, WalkersSound
<1> QED BY <1>1, <1>2 DEF WalkInv, WalkersSound, WeaversSound

LEMMA GraphRests == ASSUME NEW n, NEW e PROVE Grown(n, e, n, e)
BY DEF Grown

LEMMA WeaverKeeps ==
    ASSUME WalkInv, NEW w \in Weavers,
           WeaveStart(w) \/ WeaveFind(w) \/ WeaveCreate(w) \/ WeaveResolve(w) \/ WeaveCheck(w) \/ WeaveInsert(w)
    PROVE  WalkInv'
<1>1. GraphSound(nodes, edges) /\ WeaveSound(weaver[w], nodes) /\ IsWeave(weaver[w])
  BY DEF WalkInv, WeaversSound, WeaveSound
<1>2. PICK me : me = weaver[w]
  OBVIOUS
<1>3. \A n : /\ WeaveSound(Continued(me), n) /\ WeaveSound(NextPair(me), n) /\ WeaveSound(NoMessage, n)
             /\ IsWeave([me EXCEPT !.left = Tail(@)])
             /\ WeaveSound([me EXCEPT !.pc = "create"], n)
  BY <1>1, <1>2, WeaveGoesOn
<1>4. \A n : WeaveSound(Continued([me EXCEPT !.left = Tail(@)]), n)
  BY <1>3, WeaveGoesOn
<1>5. ASSUME NEW rec, WeaveSound(rec, nodes), Weaves(w, rec), UNCHANGED <<nodes, edges, walker>> PROVE WalkInv'
  <2>1. GraphSound(nodes', edges') /\ Grown(nodes, edges, nodes', edges') /\ WeaveSound(rec, nodes')
    BY <1>1, <1>5, GraphRests
  <2> QED BY <1>5, <2>1, WeaverSteps
<1>6. CASE WeaveStart(w)
  <2>1. PICK known, candidates :
           Weaves(w, Continued([NoMessage EXCEPT !.names = known \o candidates, !.left = candidates]))
    BY <1>6 DEF WeaveStart
  <2>2. IsWeave([NoMessage EXCEPT !.names = known \o candidates, !.left = candidates])
    <3>1. PICK n : n = known \o candidates
      OBVIOUS
    <3>2. IsWeave(NoMessage)
      BY <1>3 DEF WeaveSound
    <3>3. IsWeave([NoMessage EXCEPT !.names = n, !.left = candidates])
      BY <3>2 DEF IsWeave
    <3> QED BY <3>1, <3>3
  <2>3. WeaveSound(Continued([NoMessage EXCEPT !.names = known \o candidates, !.left = candidates]), nodes)
    BY <2>2, WeaveGoesOn
  <2> QED BY <1>5, <1>6, <2>1, <2>3 DEF WeaveStart
<1>7. CASE WeaveFind(w)
  <2>1. \/ Weaves(w, Continued([me EXCEPT !.left = Tail(@)]))
        \/ Weaves(w, [me EXCEPT !.pc = "create"])
        \/ Weaves(w, NoMessage)
    BY <1>2, <1>7 DEF WeaveFind
  <2> QED BY <1>3, <1>4, <1>5, <1>7, <2>1 DEF WeaveFind
<1>8. CASE WeaveCreate(w)
  <2>1. CASE Weaves(w, NoMessage) /\ UNCHANGED nodes
    BY <1>3, <1>5, <1>8, <2>1 DEF WeaveCreate
  <2>2. CASE nodes' = Append(nodes, Head(me.left)) /\ Weaves(w, Continued([me EXCEPT !.left = Tail(@)]))
    <3>1. edges' = edges /\ UNCHANGED walker
      BY <1>8 DEF WeaveCreate
    <3>2. PICK m, x : m = nodes' /\ x = Head(me.left)
      OBVIOUS
    <3>3. GraphSound(m, edges) /\ Grown(nodes, edges, m, edges)
      BY <1>1, <2>2, <3>2, NodeIsAdded
    <3>4. GraphSound(nodes', edges') /\ Grown(nodes, edges, nodes', edges')
      BY <3>1, <3>2, <3>3
    <3> QED BY <1>4, <2>2, <3>1, <3>4, WeaverSteps
  <2> QED BY <1>2, <1>8, <2>1, <2>2 DEF WeaveCreate
<1>9. CASE WeaveResolve(w)
  <2>1. CASE Weaves(w, NoMessage) \/ Weaves(w, NextPair(me))
    BY <1>3, <1>5, <1>9, <2>1 DEF WeaveResolve
  <2>2. CASE \E a \in NodesOf(me.pairs[1][1]), b \in NodesOf(me.pairs[1][2]) :
                Weaves(w, [me EXCEPT !.pc = "check", !.ends = <<a, b>>])
    <3>1. PICK a \in DOMAIN nodes, b \in DOMAIN nodes : Weaves(w, [me EXCEPT !.pc = "check", !.ends = <<a, b>>])
      BY <2>2 DEF NodesOf
    <3>2. PICK rec : rec = [me EXCEPT !.pc = "check", !.ends = <<a, b>>]
      OBVIOUS
    <3>3. IsWeave(rec) /\ rec.ends = <<a, b>>
      BY <1>1, <1>2, <3>2 DEF IsWeave
    <3>4. WeaveSound(rec, nodes)
      BY <3>3 DEF WeaveSound
    <3> QED BY <1>5, <1>9, <3>1, <3>2, <3>4 DEF WeaveResolve
  <2> QED BY <1>2, <1>9, <2>1, <2>2 DEF WeaveResolve
<1>10. CASE WeaveCheck(w)
  <2>1. WeaveSound([me EXCEPT !.pc = "insert"], nodes)
    <3>1. me.pc = "check" /\ WeaveSound(me, nodes)
      BY <1>1, <1>2, <1>10 DEF WeaveCheck
    <3>2. PICK a \in DOMAIN nodes, b \in DOMAIN nodes : me.ends = <<a, b>>
      BY <3>1 DEF WeaveSound
    <3>3. PICK rec : rec = [me EXCEPT !.pc = "insert"]
      OBVIOUS
    <3>4. IsWeave(rec) /\ rec.ends = me.ends
      BY <1>1, <1>2, <3>3 DEF IsWeave
    <3> QED BY <3>2, <3>3, <3>4 DEF WeaveSound
  <2>2. Weaves(w, NextPair(me)) \/ Weaves(w, [me EXCEPT !.pc = "insert"])
    BY <1>2, <1>10 DEF WeaveCheck
  <2> QED BY <1>3, <1>5, <1>10, <2>1, <2>2 DEF WeaveCheck
<1>11. CASE WeaveInsert(w)
  <2>1. me.pc = "insert" /\ WeaveSound(me, nodes)
    BY <1>1, <1>2, <1>11 DEF WeaveInsert
  <2>2. PICK a \in DOMAIN nodes, b \in DOMAIN nodes : me.ends = <<a, b>>
    BY <2>1 DEF WeaveSound
  <2>3. PICK x : x = <<a, b, "co_occurs">>
    OBVIOUS
  <2>4. x = Append(me.ends, "co_occurs") /\ x[1] = a /\ x[2] = b
    BY <2>2, <2>3
  <2>5. edges' = Append(edges, x) /\ Weaves(w, NextPair(me)) /\ nodes' = nodes /\ UNCHANGED walker
    BY <1>2, <1>11, <2>4 DEF WeaveInsert
  <2>6. PICK f : f = edges'
    OBVIOUS
  <2>7. GraphSound(nodes, f) /\ Grown(nodes, edges, nodes, f)
    BY <1>1, <2>2, <2>4, <2>5, <2>6, EdgeIsAdded
  <2>8. GraphSound(nodes', edges') /\ Grown(nodes, edges, nodes', edges')
    BY <2>5, <2>6, <2>7
  <2> QED BY <1>3, <2>5, <2>8, WeaverSteps
<1> QED BY <1>6, <1>7, <1>8, <1>9, <1>10, <1>11

LEMMA NoWalkIs == IsWalk(NoWalk) /\ NoWalk.pc = "idle" /\ NoWalk.hops = 0 /\ NoWalk.taken = {} /\ NoWalk.cut = FALSE
BY DEF IsWalk, NoWalk

LEMMA SpreadBegins ==
    ASSUME WalkInv, NEW k \in Walkers, SpreadStart(k)
    PROVE  WalkInv'
<1>1. PICK seeds \in Queries, depth \in Depths :
          Walks(k, [NoWalk EXCEPT !.pc = "spread", !.from = seeds, !.depth = depth, !.found = seeds,
                                  !.frontier = seeds, !.sure = Ball(seeds, depth)])
  BY DEF SpreadStart
<1>2. PICK ball, A : ball = Ball(seeds, depth) /\ A = NamePairs(nodes, edges)
  OBVIOUS
<1>3. PICK rec : rec = [NoWalk EXCEPT !.pc = "spread", !.from = seeds, !.depth = depth, !.found = seeds,
                                  !.frontier = seeds, !.sure = ball]
  OBVIOUS
<1>4. IsWalk(rec)
  BY <1>3, NoWalkIs DEF IsWalk
<1>5. /\ rec.pc = "spread" /\ rec.from = seeds /\ rec.depth = depth /\ rec.found = seeds /\ rec.frontier = seeds
      /\ rec.sure = ball /\ rec.hops = 0 /\ rec.cut = FALSE
  BY <1>3, NoWalkIs DEF IsWalk
<1>6. depth \in Nat \ {0} /\ IsFiniteSet(seeds) /\ MaxSpread \in Nat \ {0}
  BY WalkAssumption
<1>7. SpreadTyped(rec)
  <2>1. rec.found \ rec.from = {} /\ Cardinality({}) = 0
    BY <1>5, FS_EmptySet
  <2>2. Cardinality(rec.found \ rec.from) < 2 * MaxSpread
    BY <1>6, <2>1
  <2>3. rec.hops <= rec.depth
    BY <1>5, <1>6
  <2> QED BY <1>5, <1>6, <2>2, <2>3 DEF SpreadTyped
<1>8. ASSUME NEW N, NEW w, Layers(w, N, seeds, depth) PROVE w[0] = seeds
  <2>1. Climbs(w, N, seeds, depth)
    BY <1>6, <1>8, LayersAre
  <2> QED BY <2>1 DEF Climbs
<1>9. SpreadNear(rec, A)
  BY <1>5, <1>8 DEF SpreadNear
<1>10. SpreadFar(rec, A)
  <2>1. PICK w : Layers(w, A, seeds, depth)
    BY <1>6, LayersExist
  <2>2. ball = w[depth]
    BY <1>2, <1>6, <2>1, BallIs
  <2>3. w[0] = seeds
    BY <1>8, <2>1
  <2>4. Image(A, rec.found \ rec.frontier) = {}
    BY <1>5 DEF Image
  <2>5. A \subseteq A /\ Layers(w, A, rec.from, rec.depth) /\ rec.sure = w[rec.depth]
    BY <1>5, <2>1, <2>2
  <2>6. w[rec.hops] \subseteq rec.found /\ Image(A, rec.found \ rec.frontier) \subseteq rec.found
    BY <1>5, <2>3, <2>4
  <2> QED BY <2>5, <2>6 DEF SpreadFar
<1>11. SpreadOver(rec) /\ ~IsSearch(rec)
  BY <1>5 DEF SpreadOver, IsOver, IsSearch
<1>12. WalkSound(rec, nodes, edges)
  BY <1>2, <1>4, <1>7, <1>9, <1>10, <1>11 DEF WalkSound, SpreadSound
<1> QED BY <1>1, <1>2, <1>3, <1>12, WalkerSteps DEF SpreadStart

LEMMA SpreadGoesOn ==
    ASSUME WalkInv, NEW k \in Walkers, SpreadHop(k)
    PROVE  WalkInv'
<1>1. PICK me, A, next :
         me = walker[k] /\ A = NamePairs(nodes, edges) /\ next = RowsNextTo(me.frontier)
  OBVIOUS
<1>2. IsWalk(me) /\ SpreadSound(me, A) /\ GraphSound(nodes, edges) /\ me.pc = "spread"
  BY <1>1 DEF WalkInv, WalkersSound, WalkSound, IsSpread, SpreadHop
<1>3. UNCHANGED <<nodes, edges, weaver>>
  BY DEF SpreadHop
<1>4. CASE /\ me.frontier = {} \/ Cardinality(me.found) >= MaxSpread \/ me.hops = me.depth
           /\ Walks(k, [me EXCEPT !.pc = "spread done"])
  <2>1. PICK rec : rec = [me EXCEPT !.pc = "spread done"]
    OBVIOUS
  <2>2. IsWalk(rec) /\ rec.pc = "spread done"
    BY <1>2, <2>1 DEF IsWalk
  <2>3. /\ rec.from = me.from /\ rec.depth = me.depth /\ rec.found = me.found /\ rec.frontier = me.frontier
        /\ rec.hops = me.hops /\ rec.cut = me.cut /\ rec.sure = me.sure
    BY <1>2, <2>1 DEF IsWalk
  <2>4. SpreadTyped(me) /\ SpreadNear(me, A) /\ SpreadFar(me, A)
    BY <1>2 DEF SpreadSound
  <2>5. SpreadTyped(rec) /\ SpreadNear(rec, A) /\ SpreadFar(rec, A)
    BY <2>3, <2>4 DEF SpreadTyped, SpreadNear, SpreadFar
  <2>6. SpreadOver(rec) /\ ~IsSearch(rec)
    BY <1>4, <2>2, <2>3 DEF SpreadOver, IsSearch
  <2>7. WalkSound(rec, nodes, edges)
    BY <1>1, <2>2, <2>5, <2>6 DEF WalkSound, SpreadSound
  <2> QED BY <1>3, <1>4, <2>1, <2>7, WalkerSteps
<1>5. CASE /\ me.frontier # {} /\ Cardinality(me.found) < MaxSpread /\ me.hops < me.depth
           /\ \E rows \in SUBSET next :
                 /\ Cardinality(rows) <= MaxSpread
                 /\ Walks(k, [me EXCEPT !.found = @ \cup NamesIn(rows), !.frontier = NamesIn(rows) \ me.found,
                                        !.hops = @ + 1, !.cut = @ \/ rows # next])
  <2>1. PICK rows \in SUBSET next :
           /\ Cardinality(rows) <= MaxSpread
           /\ Walks(k, [me EXCEPT !.found = @ \cup NamesIn(rows), !.frontier = NamesIn(rows) \ me.found,
                                  !.hops = @ + 1, !.cut = @ \/ rows # next])
    BY <1>5
  <2>2. IsFiniteSet(rows)
    BY <1>1, <1>2, <2>1, RowsAreFinite, FS_Subset
  <2>3. PICK got, cut : got = NamesIn(rows) /\ cut = (me.cut \/ rows # next)
    OBVIOUS
  <2>4. IsFiniteSet(got) /\ Cardinality(got) <= MaxSpread
    <3>1. IsFiniteSet(got) /\ Cardinality(got) <= Cardinality(rows)
      BY <2>2, <2>3, NamesAreFewer
    <3>2. PICK a \in Nat, b \in Nat, c \in Nat : a = Cardinality(got) /\ b = Cardinality(rows) /\ c = MaxSpread
      BY <2>2, <3>1, FS_CardinalityType, WalkAssumption
    <3>3. a <= b /\ b <= c
      BY <2>1, <3>1, <3>2
    <3>4. a <= c
      BY <3>3
    <3> QED BY <3>1, <3>2, <3>4
  <2>5. got \subseteq Image(A, me.frontier) /\ (~cut => ~me.cut /\ got = Image(A, me.frontier))
    <3>1. NamesIn(next) = Image(A, me.frontier)
      BY <1>1, NamesAreNext DEF NamesNextTo
    <3>2. NamesIn(rows) \subseteq NamesIn(next)
      BY <2>1 DEF NamesIn
    <3> QED BY <2>3, <3>1, <3>2
  <2>6. PICK found, frontier, hops :
           found = me.found \cup got /\ frontier = got \ me.found /\ hops = me.hops + 1
    OBVIOUS
  <2>7. PICK rec : rec = [me EXCEPT !.found = found, !.frontier = frontier, !.hops = hops, !.cut = cut]
    OBVIOUS
  <2>8. IsWalk(rec) /\ rec.pc = "spread"
    BY <1>2, <2>7 DEF IsWalk
  <2>9. /\ rec.from = me.from /\ rec.depth = me.depth /\ rec.found = found /\ rec.frontier = frontier
        /\ rec.hops = hops /\ rec.cut = cut /\ rec.sure = me.sure
    BY <1>2, <2>7 DEF IsWalk
  <2>10. cut \in BOOLEAN
    BY <2>3
  <2>11. SpreadSound(rec, A)
    BY <1>2, <1>5, <2>4, <2>5, <2>6, <2>8, <2>9, <2>10, HopIsSound
  <2>12. ~IsSearch(rec)
    BY <2>8 DEF IsSearch
  <2>13. WalkSound(rec, nodes, edges)
    BY <1>1, <2>8, <2>11, <2>12 DEF WalkSound
  <2>14. Walks(k, rec)
    BY <2>1, <2>3, <2>6, <2>7
  <2> QED BY <1>3, <2>13, <2>14, WalkerSteps
<1> QED BY <1>1, <1>4, <1>5 DEF SpreadHop

LEMMA SearchBegins ==
    ASSUME WalkInv, NEW k \in Walkers, GraphSearchStart(k)
    PROVE  WalkInv'
<1>1. PICK names \in Queries, depth \in Depths, matched \in SUBSET DOMAIN nodes :
          /\ matched = {id \in DOMAIN nodes : nodes[id] \in names}
          /\ Walks(k, [NoWalk EXCEPT !.pc = "search", !.from = matched, !.depth = depth, !.frontier = matched,
                                     !.found = matched,
                                     !.sure = UNION {{r \in DOMAIN edges : id \in Ends(edges[r])} : id \in matched}])
  BY DEF GraphSearchStart
<1>2. PICK sure : sure = UNION {{r \in DOMAIN edges : id \in Ends(edges[r])} : id \in matched}
  OBVIOUS
<1>3. PICK rec : rec = [NoWalk EXCEPT !.pc = "search", !.from = matched, !.depth = depth, !.frontier = matched,
                                     !.found = matched, !.sure = sure]
  OBVIOUS
<1>4. IsWalk(rec)
  BY <1>3, NoWalkIs DEF IsWalk
<1>5. /\ rec.pc = "search" /\ rec.from = matched /\ rec.depth = depth /\ rec.found = matched
      /\ rec.frontier = matched /\ rec.sure = sure /\ rec.taken = {}
  BY <1>3, NoWalkIs DEF IsWalk
<1>6. depth \in Nat \ {0}
  BY WalkAssumption
<1>7. SearchTyped(rec, edges)
  BY <1>2, <1>5, <1>6 DEF SearchTyped
<1>8. SearchWide(rec, edges)
  BY <1>2, <1>5 DEF SearchWide
<1>9. SearchNear(rec, edges)
  <2>1. ASSUME NEW w, Layers(w, IdPairs(edges), matched, depth) PROVE matched \subseteq w[depth]
    <3>1. Climbs(w, IdPairs(edges), matched, depth)
      BY <1>6, <2>1, LayersAre
    <3>2. 0 \in 0..depth /\ depth \in 0..depth
      BY <1>6
    <3>3. w[0] \subseteq w[depth]
      BY <1>6, <2>1, <3>2, LayersWiden
    <3> QED BY <3>1, <3>3 DEF Climbs
  <2> QED BY <1>5, <2>1 DEF SearchNear
<1>10. SearchOver(rec) /\ ~IsSpread(rec)
  BY <1>5 DEF SearchOver, IsSpread
<1>11. WalkSound(rec, nodes, edges)
  BY <1>4, <1>7, <1>8, <1>9, <1>10 DEF WalkSound, SearchSound
<1> QED BY <1>1, <1>2, <1>3, <1>11, WalkerSteps DEF GraphSearchStart

LEMMA SearchGoesOn ==
    ASSUME WalkInv, NEW k \in Walkers, GraphSearchStep(k)
    PROVE  WalkInv'
<1>1. PICK me : me = walker[k]
  OBVIOUS
<1>2. IsWalk(me) /\ SearchSound(me, edges) /\ me.pc = "search"
  BY <1>1 DEF WalkInv, WalkersSound, WalkSound, IsSearch, GraphSearchStep
<1>3. SearchTyped(me, edges) /\ SearchWide(me, edges) /\ SearchNear(me, edges)
  BY <1>2 DEF SearchSound
<1>4. UNCHANGED <<nodes, edges, weaver>>
  BY DEF GraphSearchStep
<1>5. CASE me.frontier = {} /\ Walks(k, [me EXCEPT !.pc = "search done"])
  <2>1. PICK rec : rec = [me EXCEPT !.pc = "search done"]
    OBVIOUS
  <2>2. IsWalk(rec) /\ rec.pc = "search done"
    BY <1>2, <2>1 DEF IsWalk
  <2>3. /\ rec.from = me.from /\ rec.depth = me.depth /\ rec.found = me.found /\ rec.frontier = me.frontier
        /\ rec.taken = me.taken /\ rec.sure = me.sure
    BY <1>2, <2>1 DEF IsWalk
  <2>4. SearchTyped(rec, edges) /\ SearchWide(rec, edges) /\ SearchNear(rec, edges)
    BY <1>3, <2>3 DEF SearchTyped, SearchWide, SearchNear
  <2>5. SearchOver(rec) /\ ~IsSpread(rec)
    BY <1>5, <2>2, <2>3 DEF SearchOver, IsSpread
  <2>6. WalkSound(rec, nodes, edges)
    BY <2>2, <2>4, <2>5 DEF WalkSound, SearchSound
  <2> QED BY <1>4, <1>5, <2>1, <2>6, WalkerSteps
<1>6. CASE \E id \in me.frontier :
             LET rows == Neighborhood(id, me.depth)
             IN  Walks(k, [me EXCEPT !.frontier = @ \ {id}, !.taken = @ \cup rows,
                                     !.found = @ \cup UNION {Ends(edges[r]) : r \in rows}])
  <2>1. PICK id \in me.frontier :
             LET rows == Neighborhood(id, me.depth)
             IN  Walks(k, [me EXCEPT !.frontier = @ \ {id}, !.taken = @ \cup rows,
                                     !.found = @ \cup UNION {Ends(edges[r]) : r \in rows}])
    BY <1>6
  <2>2. PICK rows, ends, from, depth :
           /\ rows = Neighborhood(id, me.depth) /\ ends = UNION {Ends(edges[r]) : r \in rows}
           /\ from = me.from /\ depth = me.depth
    OBVIOUS
  <2>3. depth \in Nat \ {0} /\ id \in from
    BY <1>3, <2>1, <2>2 DEF SearchTyped
  <2>4. PICK w : Layers(w, IdPairs(edges), from, depth)
    BY <2>3, LayersExist
  <2>5. /\ rows \subseteq DOMAIN edges
        /\ {r \in DOMAIN edges : id \in Ends(edges[r])} \subseteq rows
    BY <2>2, <2>3, <2>4, NeighborhoodIsNear
  <2>6. PICK found, frontier, taken :
           found = me.found \cup ends /\ frontier = me.frontier \ {id} /\ taken = me.taken \cup rows
    OBVIOUS
  <2>7. PICK rec : rec = [me EXCEPT !.frontier = frontier, !.taken = taken, !.found = found]
    OBVIOUS
  <2>8. IsWalk(rec) /\ rec.pc = "search"
    BY <1>2, <2>7 DEF IsWalk
  <2>9. /\ rec.from = me.from /\ rec.depth = me.depth /\ rec.found = found /\ rec.frontier = frontier
        /\ rec.taken = taken /\ rec.sure = me.sure
    BY <1>2, <2>7 DEF IsWalk
  <2>10. SearchTyped(rec, edges)
    <3>1. UNION {Ends(edges[r]) : r \in taken} = (UNION {Ends(edges[r]) : r \in me.taken}) \cup ends
      BY <2>2, <2>6
    <3>2. found = me.from \cup UNION {Ends(edges[r]) : r \in taken}
      BY <1>3, <2>6, <3>1 DEF SearchTyped
    <3>3. me.depth \in Nat \ {0} /\ frontier \subseteq me.from /\ taken \subseteq DOMAIN edges /\ me.sure \subseteq DOMAIN edges
      BY <1>3, <2>5, <2>6 DEF SearchTyped
    <3> QED BY <2>9, <3>2, <3>3 DEF SearchTyped
  <2>11. SearchWide(rec, edges)
    <3>1. ASSUME NEW r \in me.sure PROVE r \in taken \/ Ends(edges[r]) \cap frontier # {}
      <4>1. r \in DOMAIN edges /\ (r \in me.taken \/ Ends(edges[r]) \cap me.frontier # {})
        BY <1>3, <3>1 DEF SearchTyped, SearchWide
      <4>2. r \in rows \/ id \notin Ends(edges[r])
        BY <2>5, <4>1
      <4> QED BY <2>6, <4>1, <4>2
    <3> QED BY <2>9, <3>1 DEF SearchWide
  <2>12. SearchNear(rec, edges)
    <3>1. ASSUME NEW v, Layers(v, IdPairs(edges), from, depth) PROVE found \subseteq v[depth]
      <4>1. \A r \in rows : Ends(edges[r]) \subseteq v[depth]
        BY <2>2, <2>3, <3>1, NeighborhoodIsNear
      <4>2. ends \subseteq v[depth]
        BY <2>2, <4>1
      <4>3. me.found \subseteq v[depth]
        BY <1>3, <2>2, <3>1 DEF SearchNear
      <4> QED BY <2>6, <4>2, <4>3
    <3> QED BY <2>2, <2>9, <3>1 DEF SearchNear
  <2>13. SearchOver(rec) /\ ~IsSpread(rec)
    BY <2>8 DEF SearchOver, IsSpread
  <2>14. WalkSound(rec, nodes, edges)
    BY <2>8, <2>10, <2>11, <2>12, <2>13 DEF WalkSound, SearchSound
  <2>15. Walks(k, rec)
    BY <2>1, <2>2, <2>6, <2>7
  <2> QED BY <1>4, <2>14, <2>15, WalkerSteps
<1> QED BY <1>1, <1>5, <1>6 DEF GraphSearchStep

LEMMA WalkStarts == WalkInit => WalkInv
<1> SUFFICES ASSUME WalkInit PROVE WalkInv
  OBVIOUS
<1>1. PICK graph \in Graphs : nodes = graph.nodes /\ edges = graph.edges
  BY DEF WalkInit
<1>2. /\ graph.nodes \in Seq(Range(graph.nodes)) /\ graph.edges \in Seq(Range(graph.edges))
      /\ \A edge \in Range(graph.edges) : {edge[1], edge[2]} \subseteq DOMAIN graph.nodes
  BY WalkAssumption
<1>3. GraphSound(nodes, edges)
  BY <1>1, <1>2 DEF GraphSound
<1>4. \A w \in Weavers : weaver[w] = NoMessage
  BY DEF WalkInit
<1>5. WeaveSound(NoMessage, nodes)
  BY DEF WeaveSound, IsWeave, NoMessage
<1>6. weaver = [w \in Weavers |-> weaver[w]] /\ walker = [k \in Walkers |-> walker[k]]
  BY DEF WalkInit
<1>7. WeaversSound
  BY <1>4, <1>5, <1>6 DEF WeaversSound
<1>8. \A k \in Walkers : walker[k] = NoWalk
  BY DEF WalkInit
<1>9. WalkSound(NoWalk, nodes, edges)
  BY NoWalkIs DEF WalkSound, IsSpread, IsSearch
<1>10. WalkersSound
  BY <1>6, <1>8, <1>9 DEF WalkersSound
<1> QED BY <1>3, <1>7, <1>10 DEF WalkInv

LEMMA WalkInvFollows ==
    ASSUME WalkInv PROVE WalksFollowTheGraph
<1> SUFFICES ASSUME NEW k \in Walkers, NEW walk, walk = walker[k]
             PROVE  /\ walk.pc = "spread done" =>
                          /\ walk.found \subseteq Ball(walk.from, walk.depth)
                          /\ ~walk.cut /\ Cardinality(walk.found) < MaxSpread => walk.sure \subseteq walk.found
                          /\ Cardinality(walk.found \ walk.from) < 2 * MaxSpread
                    /\ walk.pc = "search done" =>
                          /\ walk.sure \subseteq walk.taken
                          /\ walk.found = walk.from \cup UNION {Ends(edges[r]) : r \in walk.taken}
                          /\ walk.found \subseteq Around(walk.from, walk.depth)
  BY DEF WalksFollowTheGraph
<1>1. WalkSound(walk, nodes, edges)
  BY DEF WalkInv, WalkersSound
<1>2. ASSUME walk.pc = "spread done"
      PROVE  /\ walk.found \subseteq Ball(walk.from, walk.depth)
             /\ ~walk.cut /\ Cardinality(walk.found) < MaxSpread => walk.sure \subseteq walk.found
             /\ Cardinality(walk.found \ walk.from) < 2 * MaxSpread
  <2>1. PICK A, depth : A = NamePairs(nodes, edges) /\ depth = walk.depth
    OBVIOUS
  <2>2. SpreadSound(walk, A) /\ IsOver(walk)
    BY <1>1, <1>2, <2>1 DEF WalkSound, IsSpread, IsOver
  <2>3. depth \in Nat
    BY <2>1, <2>2 DEF SpreadSound, SpreadTyped
  <2>4. PICK w : Layers(w, A, walk.from, depth)
    BY <2>3, LayersExist
  <2>5. Ball(walk.from, depth) = w[depth]
    BY <2>1, <2>3, <2>4, BallIs
  <2>6. /\ walk.found \subseteq w[walk.depth]
        /\ ~walk.cut /\ Cardinality(walk.found) < MaxSpread => walk.sure \subseteq walk.found
        /\ Cardinality(walk.found \ walk.from) < 2 * MaxSpread
    BY <2>1, <2>2, <2>4, SpreadEnds
  <2> QED BY <2>1, <2>5, <2>6
<1>3. ASSUME walk.pc = "search done"
      PROVE  /\ walk.sure \subseteq walk.taken
             /\ walk.found = walk.from \cup UNION {Ends(edges[r]) : r \in walk.taken}
             /\ walk.found \subseteq Around(walk.from, walk.depth)
  <2>1. SearchSound(walk, edges)
    BY <1>1, <1>3 DEF WalkSound, IsSearch
  <2>2. SearchTyped(walk, edges) /\ SearchWide(walk, edges) /\ SearchNear(walk, edges) /\ walk.frontier = {}
    BY <1>3, <2>1 DEF SearchSound, SearchOver
  <2>3. PICK depth \in Nat : depth = walk.depth
    BY <2>2 DEF SearchTyped
  <2>4. PICK w : Layers(w, IdPairs(edges), walk.from, depth)
    BY <2>3, LayersExist
  <2>5. Around(walk.from, depth) = w[depth]
    BY <2>3, <2>4, AroundIs
  <2>6. walk.found \subseteq w[depth]
    BY <2>2, <2>3, <2>4 DEF SearchNear
  <2>7. walk.sure \subseteq walk.taken
    BY <2>2 DEF SearchWide
  <2>8. walk.found = walk.from \cup UNION {Ends(edges[r]) : r \in walk.taken}
    BY <2>2 DEF SearchTyped
  <2> QED BY <2>3, <2>5, <2>6, <2>7, <2>8
<1> QED BY <1>2, <1>3

\* For any graphs, messages, queries, depths and caps, and any growth of the graph while a walk goes on.
THEOREM WalksKeepToTheGraph == WalkSpec => []WalksFollowTheGraph
<1>1. WalkInit => WalkInv
  BY WalkStarts
<1>2. WalkInv /\ [WalkNext]_walkVars => WalkInv'
  <2> SUFFICES ASSUME WalkInv, [WalkNext]_walkVars PROVE WalkInv'
    OBVIOUS
  <2>1. CASE UNCHANGED walkVars
    BY <2>1 DEF walkVars, WalkInv, WeaversSound, WalkersSound
  <2>2. ASSUME NEW w \in Weavers,
               \/ WeaveStart(w) \/ WeaveFind(w) \/ WeaveCreate(w) \/ WeaveResolve(w) \/ WeaveCheck(w) \/ WeaveInsert(w)
        PROVE  WalkInv'
    BY <2>2, WeaverKeeps
  <2>3. ASSUME NEW k \in Walkers, SpreadStart(k) \/ SpreadHop(k) \/ GraphSearchStart(k) \/ GraphSearchStep(k)
        PROVE  WalkInv'
    BY <2>3, SpreadBegins, SpreadGoesOn, SearchBegins, SearchGoesOn
  <2> QED BY <2>1, <2>2, <2>3 DEF WalkNext
<1>3. WalkInv => WalksFollowTheGraph
  BY WalkInvFollows
<1> QED BY <1>1, <1>2, <1>3, PTL DEF WalkSpec

--------------------------------------------------------------------------------
(* The order of the answer: lists *)

\* What a sort and a retain do: each entry at the places has its place in the result, the greatest value first.
IsArranged(list, places, value, result, at) ==
    /\ at \in [places -> 1..Len(result)]
    /\ \A i \in places : result[at[i]] = list[i]
    /\ \A k \in 1..Len(result) : \E i \in places : at[i] = k
    /\ \A i, j \in places : value[i] > value[j] \/ (value[i] = value[j] /\ i < j) => at[i] < at[j]

Prior(value, i, j) == value[i] > value[j] \/ (value[i] = value[j] /\ i < j)

LEMMA PriorIsAnOrder ==
    ASSUME NEW places \in SUBSET Nat, NEW value, \A i \in places : value[i] \in Int
    PROVE  /\ \A i, j \in places : i = j \/ Prior(value, i, j) \/ Prior(value, j, i)
           /\ \A i \in places : ~Prior(value, i, i)
           /\ \A i, j, k \in places : Prior(value, i, j) /\ Prior(value, j, k) => Prior(value, i, k)
<1>1. ASSUME NEW i \in places, NEW j \in places PROVE i = j \/ Prior(value, i, j) \/ Prior(value, j, i)
  <2>1. value[i] \in Int /\ value[j] \in Int /\ i \in Nat /\ j \in Nat
    OBVIOUS
  <2> QED BY <2>1 DEF Prior
<1>2. ASSUME NEW i \in places PROVE ~Prior(value, i, i)
  BY DEF Prior
<1>3. ASSUME NEW i \in places, NEW j \in places, NEW k \in places, Prior(value, i, j), Prior(value, j, k)
      PROVE  Prior(value, i, k)
  <2>1. /\ value[i] \in Int /\ value[j] \in Int /\ value[k] \in Int
        /\ i \in Nat /\ j \in Nat /\ k \in Nat
    OBVIOUS
  <2> QED BY <1>3, <2>1 DEF Prior
<1> QED BY <1>1, <1>2, <1>3

LEMMA PriorSorts ==
    ASSUME NEW places \in SUBSET Nat, IsFiniteSet(places), NEW value, \A i \in places : value[i] \in Int
    PROVE  \E s \in SetToSeqs(places) : \A i, j \in DOMAIN s : i < j => Prior(value, s[i], s[j])
<1> DEFINE Less(i) == {j \in places : Prior(value, j, i)}
<1>1. PICK k : k = [i \in places |-> Cardinality(Less(i))]
  OBVIOUS
<1>2. ASSUME NEW i \in places PROVE IsFiniteSet(Less(i)) /\ k[i] = Cardinality(Less(i)) /\ k[i] \in Nat
  <2>1. Less(i) \in SUBSET places
    OBVIOUS
  <2>2. IsFiniteSet(Less(i)) /\ Cardinality(Less(i)) \in Nat
    BY <2>1, FS_Subset, FS_CardinalityType
  <2> QED BY <1>1, <2>2
<1>3. ASSUME NEW i \in places, NEW j \in places, Prior(value, i, j) PROVE k[i] < k[j]
  <2>1. Less(i) \in SUBSET Less(j) /\ i \in Less(j) /\ i \notin Less(i)
    BY <1>3, PriorIsAnOrder
  <2>2. Cardinality(Less(i)) <= Cardinality(Less(j)) /\ Cardinality(Less(i)) # Cardinality(Less(j))
    <3>1. IsFiniteSet(Less(j))
      BY <1>2
    <3> HIDE DEF Less
    <3> QED BY <2>1, <3>1, FS_Subset
  <2> QED BY <1>2, <2>2
<1>4. ASSUME NEW i \in places, NEW j \in places, k[i] = k[j] PROVE i = j
  <2>1. k[i] \in Nat /\ k[j] \in Nat
    BY <1>2
  <2> QED BY <1>3, <1>4, <2>1, PriorIsAnOrder
<1>5. k \in [places -> Nat]
  BY <1>1, <1>2
<1>6. PICK s \in SetToSeqs(places) : \A i, j \in DOMAIN s : i < j => k[s[i]] < k[s[j]]
  BY <1>4, <1>5, SortingExists
<1>7. \A i \in DOMAIN s : s[i] \in places
  BY DEF SetToSeqs
<1>8. ASSUME NEW i \in DOMAIN s, NEW j \in DOMAIN s, i < j PROVE Prior(value, s[i], s[j])
  <2>1. s[i] \in places /\ s[j] \in places /\ k[s[i]] < k[s[j]]
    BY <1>6, <1>7, <1>8
  <2>2. k[s[i]] \in Nat /\ k[s[j]] \in Nat
    BY <1>2, <2>1
  <2>3. s[i] # s[j] /\ ~(k[s[j]] < k[s[i]])
    BY <2>1, <2>2
  <2> QED BY <1>3, <2>1, <2>3, PriorIsAnOrder
<1> QED BY <1>8

\* An order of a finite set meets each of its elements.
LEMMA OrderMeetsAll ==
    ASSUME NEW S, IsFiniteSet(S), NEW o \in SetToSeqs(S)
    PROVE  /\ Cardinality(S) \in Nat /\ o \in [1..Cardinality(S) -> S]
           /\ \A i, j \in 1..Cardinality(S) : o[i] = o[j] => i = j
           /\ \A x \in S : \E i \in 1..Cardinality(S) : o[i] = x
<1>1. PICK n \in Nat : n = Cardinality(S)
  BY FS_CardinalityType
<1>2. o \in [1..n -> S] /\ \A i, j \in 1..n : o[i] = o[j] => i = j
  BY <1>1 DEF SetToSeqs
<1>3. o \in Injection(1..n, S)
  BY <1>2 DEF Injection, IsInjective
<1>4. IsFiniteSet(1..n) /\ Cardinality(1..n) = n
  BY <1>1, FS_Interval
<1>5. o \in Surjection(1..n, S)
  BY <1>1, <1>3, <1>4, FS_Injection
<1>6. \A x \in S : \E i \in 1..n : o[i] = x
  BY <1>5 DEF Surjection
<1> QED BY <1>1, <1>2, <1>6

LEMMA ArrangedIs ==
    ASSUME NEW X, NEW list \in Seq(X), NEW places \in SUBSET (1..Len(list)), NEW value,
           \A i \in places : value[i] \in Int
    PROVE  /\ Arranged(list, places, value) \in Seq(X)
           /\ \E at : IsArranged(list, places, value, Arranged(list, places, value), at)
<1>1. Len(list) \in Nat /\ IsFiniteSet(places)
  <2>1. PICK l \in Nat : l = Len(list)
    OBVIOUS
  <2>2. IsFiniteSet(1..l)
    BY FS_Interval
  <2> QED BY <2>1, <2>2, FS_Subset
<1>2. \E s \in SetToSeqs(places) : \A i, j \in DOMAIN s : i < j => Prior(value, s[i], s[j])
  <2>1. places \in SUBSET Nat
    BY <1>1
  <2> QED BY <1>1, <2>1, PriorSorts
<1>3. PICK o : o = CHOOSE s \in SetToSeqs(places) : \A i, j \in DOMAIN s : i < j => Prior(value, s[i], s[j])
  OBVIOUS
<1>4. o \in SetToSeqs(places) /\ \A i, j \in DOMAIN o : i < j => Prior(value, o[i], o[j])
  BY <1>2, <1>3
<1>5. PICK n \in Nat : /\ n = Cardinality(places) /\ o \in [1..n -> places]
                       /\ \A i, j \in 1..n : o[i] = o[j] => i = j
                       /\ \A x \in places : \E i \in 1..n : o[i] = x
  BY <1>1, <1>4, OrderMeetsAll
<1>6. PICK r : r = [i \in 1..n |-> list[o[i]]]
  OBVIOUS
<1>7. Arranged(list, places, value) = r
  BY <1>3, <1>5, <1>6 DEF Arranged, Prior
<1>8. r \in Seq(X) /\ Len(r) = n
  <2>1. ASSUME NEW i \in 1..n PROVE r[i] \in X
    <3>1. o[i] \in 1..Len(list) /\ r[i] = list[o[i]]
      BY <1>5, <1>6
    <3> QED BY <3>1
  <2> QED BY <1>6, <2>1
<1>9. PICK at : at = [x \in places |-> CHOOSE i \in 1..n : o[i] = x]
  OBVIOUS
<1>10. \A x \in places : at[x] \in 1..n /\ o[at[x]] = x
  BY <1>5, <1>9
<1>11. at \in [places -> 1..n]
  BY <1>9, <1>10
<1>12. \A x \in places : r[at[x]] = list[x]
  BY <1>6, <1>10
<1>13. ASSUME NEW k \in 1..n PROVE o[k] \in places /\ at[o[k]] = k
  <2>1. o[k] \in places
    BY <1>5
  <2>2. at[o[k]] \in 1..n /\ o[at[o[k]]] = o[k]
    BY <1>10, <2>1
  <2> QED BY <1>5, <2>1, <2>2
<1>14. ASSUME NEW i \in places, NEW j \in places, Prior(value, i, j) PROVE at[i] < at[j]
  <2>1. at[i] \in 1..n /\ at[j] \in 1..n /\ o[at[i]] = i /\ o[at[j]] = j
    BY <1>10
  <2>2. i # j /\ ~Prior(value, j, i)
    BY <1>14, <1>1, PriorIsAnOrder
  <2>3. ~(at[j] < at[i])
    BY <1>4, <1>5, <2>1, <2>2
  <2>4. at[i] # at[j]
    BY <2>1, <2>2
  <2> QED BY <2>1, <2>3, <2>4
<1>15. IsArranged(list, places, value, r, at)
  BY <1>8, <1>11, <1>12, <1>13, <1>14 DEF IsArranged, Prior
<1> QED BY <1>7, <1>8, <1>15

LEMMA TakeIs ==
    ASSUME NEW X, NEW list \in Seq(X), NEW n \in Nat
    PROVE  /\ Take(list, n) \in Seq(X)
           /\ Len(Take(list, n)) = IF n < Len(list) THEN n ELSE Len(list)
           /\ Len(Take(list, n)) <= n /\ Len(Take(list, n)) <= Len(list)
           /\ \A i \in 1..Len(Take(list, n)) : Take(list, n)[i] = list[i]
<1>1. PICK m \in Nat : m = IF n < Len(list) THEN n ELSE Len(list)
  OBVIOUS
<1>2. Take(list, n) = SubSeq(list, 1, m) /\ m <= Len(list) /\ m <= n
  BY <1>1 DEF Take
<1>3. PICK t : t = Take(list, n)
  OBVIOUS
<1>4. t \in Seq(X) /\ Len(t) = m /\ \A i \in 1..m : t[i] = list[i]
  BY <1>2, <1>3
<1> QED BY <1>1, <1>2, <1>3, <1>4

--------------------------------------------------------------------------------
(* The order of the answer: results *)

Channels == {"vector", "words", "entity", "overlap", "matches"}
ValueOf(name) == [c \in Candidates |-> profile[c][name]]

\* A pair of candidates of which the first is to come before the second: by what the channels say, by what
\* is known before the reranker, and by the reranker too.
BetterPairs ==
    {p \in Candidates \X Candidates :
        \A name \in IF Fused THEN Channels ELSE {"vector"} :
            profile[p[2]][name] > 0 => profile[p[1]][name] > profile[p[2]][name]}
BasePairs ==
    {p \in BetterPairs : /\ settings.ranges /\ profile[p[2]].timely => profile[p[1]].timely
                         /\ profile[p[1]].fade >= profile[p[2]].fade
                         /\ profile[p[1]].weight >= profile[p[2]].weight}
BeatPairs(v) ==
    {p \in BasePairs : settings.ranker = "scores" =>
                          /\ v[p[1]] > v[p[2]]
                          /\ v[p[1]] < 0 /\ ~settings.forgets => profile[p[1]].weight = profile[p[2]].weight}
LeftOf(pairs, some) == {p \in pairs : p[2] \notin some}

\* Candidates in an order, and results with their scores
IsList(l) == l \in Seq(Candidates) /\ \A i, j \in 1..Len(l) : l[i] = l[j] => i = j
Leads(l, pairs) == \A j \in 1..Len(l), m \in Candidates : <<m, l[j]>> \in pairs => \E i \in 1..(j - 1) : l[i] = m

Result == [item : Candidates, score : Int]
IsRanking(L) == L \in Seq(Result) /\ \A i, j \in 1..Len(L) : L[i].item = L[j].item => i = j
InFront(L, i, j, up) == IF up THEN L[i].score >= L[j].score ELSE L[i].score <= L[j].score
Led(L, pairs, up) ==
    \A j \in 1..Len(L), m \in Candidates :
        <<m, L[j].item>> \in pairs => \E i \in 1..(j - 1) : L[i].item = m /\ InFront(L, i, j, up)
Ahead(L, pairs) ==
    \A j \in 1..Len(L), m \in Candidates : <<m, L[j].item>> \in pairs => \E i \in 1..(j - 1) : L[i].item = m
\* What a sort makes led
Worthier(L, i, j, up) ==
    IF up THEN L[i].score > L[j].score \/ (L[i].score = L[j].score /\ i < j)
          ELSE L[i].score < L[j].score \/ (L[i].score = L[j].score /\ i < j)
Worthy(L, pairs, up) ==
    \A j \in 1..Len(L), m \in Candidates :
        <<m, L[j].item>> \in pairs => \E i \in 1..Len(L) : L[i].item = m /\ Worthier(L, i, j, up)
Worth(L, up) == IF up THEN Relevances(L) ELSE Nearnesses(L)
\* What is better never comes later.
Falls(L, up) == \A i, j \in 1..Len(L) : i <= j => InFront(L, i, j, up)
\* Part of what is in another list
From(L, M) == \A i \in 1..Len(L) : \E j \in 1..Len(M) : L[i] = M[j]

LEMMA ResultIs ==
    ASSUME NEW L \in Seq(Result), NEW i \in 1..Len(L)
    PROVE  L[i] \in Result /\ L[i].item \in Candidates /\ L[i].score \in Int
<1>1. L[i] \in Result
  OBVIOUS
<1> QED BY <1>1 DEF Result

LEMMA TakeKeeps ==
    ASSUME NEW L, IsRanking(L), NEW n \in Nat
    PROVE  /\ IsRanking(Take(L, n)) /\ From(Take(L, n), L) /\ Len(Take(L, n)) <= n
           /\ \A pairs, up : Led(L, pairs, up) => Led(Take(L, n), pairs, up)
           /\ \A pairs : Ahead(L, pairs) => Ahead(Take(L, n), pairs)
           /\ \A up : Falls(L, up) => Falls(Take(L, n), up)
<1>1. L \in Seq(Result)
  BY DEF IsRanking
<1>2. PICK t : t = Take(L, n)
  OBVIOUS
<1>3. t \in Seq(Result) /\ Len(t) <= n /\ Len(t) <= Len(L) /\ \A i \in 1..Len(t) : t[i] = L[i]
  BY <1>1, <1>2, TakeIs
<1>4. \A i \in 1..Len(t) : i \in 1..Len(L) /\ t[i] = L[i]
  BY <1>1, <1>3
<1>5. IsRanking(t) /\ From(t, L)
  BY <1>3, <1>4 DEF IsRanking, From
<1>6. ASSUME NEW j \in 1..Len(t) PROVE \A i \in 1..(j - 1) : i \in 1..Len(t)
  BY <1>3
<1>7. ASSUME NEW pairs, NEW up, Led(L, pairs, up) PROVE Led(t, pairs, up)
  <2> SUFFICES ASSUME NEW j \in 1..Len(t), NEW m \in Candidates, <<m, t[j].item>> \in pairs
               PROVE  \E i \in 1..(j - 1) : t[i].item = m /\ InFront(t, i, j, up)
    BY DEF Led
  <2>1. PICK i \in 1..(j - 1) : L[i].item = m /\ InFront(L, i, j, up)
    BY <1>4, <1>7 DEF Led
  <2>2. t[i] = L[i] /\ t[j] = L[j]
    BY <1>4, <1>6
  <2>3. t[i].item = m /\ InFront(t, i, j, up)
    BY <2>1, <2>2 DEF InFront
  <2> QED BY <2>3
<1>8. ASSUME NEW pairs, Ahead(L, pairs) PROVE Ahead(t, pairs)
  <2> SUFFICES ASSUME NEW j \in 1..Len(t), NEW m \in Candidates, <<m, t[j].item>> \in pairs
               PROVE  \E i \in 1..(j - 1) : t[i].item = m
    BY DEF Ahead
  <2>1. PICK i \in 1..(j - 1) : L[i].item = m
    BY <1>4, <1>8 DEF Ahead
  <2>2. t[i] = L[i]
    BY <1>4, <1>6
  <2> QED BY <2>1, <2>2
<1>9. ASSUME NEW up, Falls(L, up) PROVE Falls(t, up)
  BY <1>4, <1>9 DEF Falls, InFront
<1> QED BY <1>2, <1>3, <1>5, <1>7, <1>8, <1>9

LEMMA WorthIs ==
    ASSUME NEW L \in Seq(Result), NEW up \in BOOLEAN
    PROVE  /\ \A i \in DOMAIN L : Worth(L, up)[i] \in Int
           /\ \A i, j \in 1..Len(L) : Worthier(L, i, j, up) => Worth(L, up)[i] > Worth(L, up)[j]
                                          \/ (Worth(L, up)[i] = Worth(L, up)[j] /\ i < j)
           /\ \A i, j \in 1..Len(L) : Worth(L, up)[i] >= Worth(L, up)[j] => InFront(L, i, j, up)
<1>1. DOMAIN L = 1..Len(L)
  OBVIOUS
<1>2. \A i \in 1..Len(L) : L[i].score \in Int
  BY ResultIs
<1>3. \A i \in 1..Len(L) : Worth(L, up)[i] = IF up THEN L[i].score ELSE -L[i].score
  BY <1>1 DEF Worth, Relevances, Nearnesses
<1>4. ASSUME NEW i \in 1..Len(L), NEW j \in 1..Len(L), Worthier(L, i, j, up)
      PROVE  Worth(L, up)[i] > Worth(L, up)[j] \/ (Worth(L, up)[i] = Worth(L, up)[j] /\ i < j)
  <2>1. PICK a \in Int, b \in Int : a = L[i].score /\ b = L[j].score
    BY <1>2
  <2>2. CASE up
    BY <1>3, <1>4, <2>1, <2>2 DEF Worthier
  <2>3. CASE ~up
    <3>1. a < b \/ (a = b /\ i < j)
      BY <1>4, <2>1, <2>3 DEF Worthier
    <3>2. Worth(L, up)[i] = -a /\ Worth(L, up)[j] = -b
      BY <1>3, <2>1, <2>3
    <3> QED BY <3>1, <3>2
  <2> QED BY <2>2, <2>3
<1>5. ASSUME NEW i \in 1..Len(L), NEW j \in 1..Len(L), Worth(L, up)[i] >= Worth(L, up)[j]
      PROVE  InFront(L, i, j, up)
  <2>1. PICK a \in Int, b \in Int : a = L[i].score /\ b = L[j].score
    BY <1>2
  <2>2. CASE up
    BY <1>3, <1>5, <2>1, <2>2 DEF InFront
  <2>3. CASE ~up
    <3>1. -a >= -b
      BY <1>3, <1>5, <2>1, <2>3
    <3>2. a <= b
      BY <3>1
    <3> QED BY <2>1, <2>3, <3>2 DEF InFront
  <2> QED BY <2>2, <2>3
<1>6. \A i \in 1..Len(L) : Worth(L, up)[i] \in Int
  BY <1>2, <1>3
<1> QED BY <1>1, <1>4, <1>5, <1>6

\* A stable sort brings to the front what is worthier.
LEMMA SortedKeeps ==
    ASSUME NEW L, IsRanking(L), NEW up \in BOOLEAN
    PROVE  LET M == Sorted(L, Worth(L, up))
           IN  /\ IsRanking(M) /\ From(M, L) /\ Falls(M, up)
               /\ \A pairs : Worthy(L, pairs, up) => Led(M, pairs, up)
<1>1. L \in Seq(Result) /\ DOMAIN L = 1..Len(L)
  BY DEF IsRanking
<1>2. PICK w : w = Worth(L, up)
  OBVIOUS
<1>3. /\ \A i \in 1..Len(L) : w[i] \in Int
      /\ \A i, j \in 1..Len(L) : Worthier(L, i, j, up) => w[i] > w[j] \/ (w[i] = w[j] /\ i < j)
      /\ \A i, j \in 1..Len(L) : w[i] >= w[j] => InFront(L, i, j, up)
  BY <1>1, <1>2, WorthIs
<1>4. PICK M : M = Sorted(L, w)
  OBVIOUS
<1>5. M \in Seq(Result) /\ \E at : IsArranged(L, 1..Len(L), w, M, at)
  <2>1. M = Arranged(L, 1..Len(L), w)
    BY <1>1, <1>4 DEF Sorted
  <2> QED BY <1>1, <1>3, <2>1, ArrangedIs
<1>6. PICK at : IsArranged(L, 1..Len(L), w, M, at)
  BY <1>5
<1>7. /\ at \in [1..Len(L) -> 1..Len(M)] /\ \A i \in 1..Len(L) : M[at[i]] = L[i]
      /\ \A k \in 1..Len(M) : \E i \in 1..Len(L) : at[i] = k
      /\ \A i, j \in 1..Len(L) : w[i] > w[j] \/ (w[i] = w[j] /\ i < j) => at[i] < at[j]
  BY <1>6 DEF IsArranged
<1>8. From(M, L)
  <2>1. ASSUME NEW k \in 1..Len(M) PROVE \E i \in 1..Len(L) : M[k] = L[i]
    BY <1>7
  <2> QED BY <2>1 DEF From
<1>9. ASSUME NEW k \in 1..Len(M), NEW l \in 1..Len(M), M[k].item = M[l].item PROVE k = l
  <2>1. PICK i \in 1..Len(L), j \in 1..Len(L) : at[i] = k /\ at[j] = l
    BY <1>7
  <2>2. L[i].item = L[j].item
    BY <1>7, <1>9, <2>1
  <2> QED BY <2>1, <2>2 DEF IsRanking
<1>10. IsRanking(M)
  BY <1>5, <1>9 DEF IsRanking
<1>11. ASSUME NEW pairs, Worthy(L, pairs, up) PROVE Led(M, pairs, up)
  <2> SUFFICES ASSUME NEW k \in 1..Len(M), NEW m \in Candidates, <<m, M[k].item>> \in pairs
               PROVE  \E l \in 1..(k - 1) : M[l].item = m /\ InFront(M, l, k, up)
    BY DEF Led
  <2>1. PICK j \in 1..Len(L) : at[j] = k /\ M[k] = L[j]
    BY <1>7
  <2>2. PICK i \in 1..Len(L) : L[i].item = m /\ Worthier(L, i, j, up)
    BY <1>11, <2>1 DEF Worthy
  <2>3. (w[i] > w[j] \/ (w[i] = w[j] /\ i < j)) /\ w[i] \in Int /\ w[j] \in Int
    BY <1>3, <2>2
  <2>a. w[i] >= w[j]
    BY <2>3
  <2>4. at[i] < at[j] /\ w[i] >= w[j] /\ at[i] \in 1..Len(M) /\ M[at[i]] = L[i]
    BY <1>7, <2>3, <2>a
  <2>5. at[i] \in 1..(k - 1) /\ InFront(L, i, j, up)
    BY <1>3, <2>1, <2>4
  <2>6. M[at[i]].item = m /\ InFront(M, at[i], k, up)
    BY <2>1, <2>2, <2>4, <2>5 DEF InFront
  <2> QED BY <2>5, <2>6
<1>12. ASSUME NEW k \in 1..Len(M), NEW l \in 1..Len(M), k <= l PROVE InFront(M, k, l, up)
  <2>1. PICK i \in 1..Len(L), j \in 1..Len(L) : at[i] = k /\ at[j] = l /\ M[k] = L[i] /\ M[l] = L[j]
    BY <1>7
  <2>2. ~(at[j] < at[i])
    BY <1>12, <2>1
  <2>3. ~(w[j] > w[i])
    BY <1>7, <2>2
  <2>4. w[i] \in Int /\ w[j] \in Int
    BY <1>3
  <2>5. w[i] >= w[j]
    BY <2>3, <2>4
  <2>6. InFront(L, i, j, up)
    BY <1>3, <2>5
  <2> QED BY <2>1, <2>6 DEF InFront
<1>13. Falls(M, up)
  BY <1>12 DEF Falls
<1> QED BY <1>2, <1>4, <1>8, <1>10, <1>11, <1>13

\* What is left out changes the order of nothing.
IsPart(L, places, T, at) ==
    /\ at \in [places -> 1..Len(T)] /\ \A i \in places : T[at[i]] = L[i]
    /\ \A k \in 1..Len(T) : \E i \in places : at[i] = k
    /\ \A i, j \in places : i < j => at[i] < at[j]

LEMMA RetainedIs ==
    ASSUME NEW L, IsRanking(L), NEW places \in SUBSET (1..Len(L)), NEW T, T = Retained(L, places)
    PROVE  IsRanking(T) /\ From(T, L) /\ \E at : IsPart(L, places, T, at)
<1>1. L \in Seq(Result)
  BY DEF IsRanking
<1>2. PICK zero : zero = [i \in places |-> 0]
  OBVIOUS
<1>3. T = Arranged(L, places, zero)
  BY <1>2 DEF Retained
<1>4. T \in Seq(Result) /\ \E at : IsArranged(L, places, zero, T, at)
  <2>1. \A i \in places : zero[i] \in Int
    BY <1>2
  <2> QED BY <1>1, <1>3, <2>1, ArrangedIs
<1>5. PICK at : IsPart(L, places, T, at)
  <2>1. PICK at : IsArranged(L, places, zero, T, at)
    BY <1>4
  <2>2. \A i, j \in places : zero[i] = zero[j]
    BY <1>2
  <2>3. IsPart(L, places, T, at)
    BY <2>1, <2>2 DEF IsArranged, IsPart
  <2> QED BY <2>3
<1>6. \A k \in 1..Len(T) : \E i \in places : at[i] = k /\ T[k] = L[i]
  BY <1>5 DEF IsPart
<1>7. ASSUME NEW k \in 1..Len(T), NEW l \in 1..Len(T), T[k].item = T[l].item PROVE k = l
  <2>1. PICK i \in places, j \in places : at[i] = k /\ at[j] = l /\ L[i].item = L[j].item
    BY <1>6, <1>7
  <2>2. i = j
    BY <2>1 DEF IsRanking
  <2> QED BY <2>1, <2>2
<1>8. IsRanking(T)
  BY <1>4, <1>7 DEF IsRanking
<1>9. From(T, L)
  BY <1>6 DEF From
<1> QED BY <1>5, <1>8, <1>9

\* A cut by the score that keeps whatever is better than what it keeps
CutsLast(L, places, up) == \A i, j \in 1..Len(L) : j \in places /\ i < j /\ InFront(L, i, j, up) => i \in places

LEMMA CutLeads ==
    ASSUME NEW L, IsRanking(L), NEW places \in SUBSET (1..Len(L)), NEW T, T = Retained(L, places),
           NEW pairs, NEW up, Led(L, pairs, up), CutsLast(L, places, up)
    PROVE  Led(T, pairs, up)
<1> SUFFICES ASSUME NEW k \in 1..Len(T), NEW m \in Candidates, <<m, T[k].item>> \in pairs
             PROVE  \E l \in 1..(k - 1) : T[l].item = m /\ InFront(T, l, k, up)
  BY DEF Led
<1>1. PICK at : IsPart(L, places, T, at)
  BY RetainedIs
<1>2. PICK j \in places : at[j] = k /\ T[k] = L[j] /\ j \in 1..Len(L)
  BY <1>1 DEF IsPart
<1>3. PICK i \in 1..(j - 1) : L[i].item = m /\ InFront(L, i, j, up)
  BY <1>2 DEF Led
<1>4. i \in 1..Len(L) /\ i < j
  BY <1>2, <1>3 DEF IsRanking
<1>5. i \in places
  BY <1>2, <1>3, <1>4 DEF CutsLast
<1>6. at[i] < k /\ at[i] \in 1..Len(T) /\ T[at[i]] = L[i]
  BY <1>1, <1>2, <1>4, <1>5 DEF IsPart
<1>7. at[i] \in 1..(k - 1) /\ T[at[i]].item = m /\ InFront(T, at[i], k, up)
  BY <1>2, <1>3, <1>6 DEF InFront
<1> QED BY <1>7

\* What is left out of a list that falls leaves it so.
LEMMA PartFalls ==
    ASSUME NEW L, IsRanking(L), NEW places \in SUBSET (1..Len(L)), NEW T, T = Retained(L, places),
           NEW up, Falls(L, up)
    PROVE  Falls(T, up)
<1>1. PICK at : IsPart(L, places, T, at)
  BY RetainedIs
<1> SUFFICES ASSUME NEW k \in 1..Len(T), NEW l \in 1..Len(T), k <= l PROVE InFront(T, k, l, up)
  BY DEF Falls
<1>2. PICK i \in places, j \in places : at[i] = k /\ at[j] = l /\ T[k] = L[i] /\ T[l] = L[j]
  BY <1>1 DEF IsPart
<1>3. ~(at[j] < at[i])
  BY <1>2
<1>4. ~(j < i)
  BY <1>1, <1>3 DEF IsPart
<1>5. i \in 1..Len(L) /\ j \in 1..Len(L) /\ i <= j
  <2>1. Len(L) \in Nat
    BY DEF IsRanking
  <2> QED BY <1>4, <2>1
<1>6. InFront(L, i, j, up)
  BY <1>5 DEF Falls
<1> QED BY <1>2, <1>6 DEF InFront

\* A list that is led stays so when it is sorted.
LEMMA LedIsWorthy ==
    ASSUME NEW L, IsRanking(L), NEW pairs, NEW up \in BOOLEAN, Led(L, pairs, up)
    PROVE  Worthy(L, pairs, up)
<1>1. L \in Seq(Result)
  BY DEF IsRanking
<1> SUFFICES ASSUME NEW j \in 1..Len(L), NEW m \in Candidates, <<m, L[j].item>> \in pairs
             PROVE  \E i \in 1..Len(L) : L[i].item = m /\ Worthier(L, i, j, up)
  BY DEF Worthy
<1>2. PICK i \in 1..(j - 1) : L[i].item = m /\ InFront(L, i, j, up)
  BY DEF Led
<1>3. i \in 1..Len(L) /\ i < j
  BY <1>1
<1>4. L[i].score \in Int /\ L[j].score \in Int
  BY <1>1, <1>3, ResultIs
<1>5. Worthier(L, i, j, up)
  BY <1>2, <1>3, <1>4 DEF InFront, Worthier
<1> QED BY <1>2, <1>3, <1>5

LEMMA LedIsAhead ==
    ASSUME NEW L, NEW pairs, NEW up, Led(L, pairs, up)
    PROVE  Ahead(L, pairs)
  BY DEF Led, Ahead

LEMMA FewerPairs ==
    ASSUME NEW L, NEW pairs, NEW fewer \in SUBSET pairs, NEW up, Led(L, pairs, up)
    PROVE  Led(L, fewer, up)
  BY DEF Led

\* The results with new scores
Scored(L, s) == [i \in DOMAIN L |-> [L[i] EXCEPT !.score = s[i]]]

LEMMA NewScores ==
    ASSUME NEW L, IsRanking(L), NEW s \in [1..Len(L) -> Int], NEW M, M = Scored(L, s)
    PROVE  /\ IsRanking(M) /\ Len(M) = Len(L)
           /\ \A i \in 1..Len(L) : M[i].item = L[i].item /\ M[i].score = s[i]
<1>1. L \in Seq(Result) /\ DOMAIN L = 1..Len(L) /\ Len(L) \in Nat
  BY DEF IsRanking
<1>2. ASSUME NEW i \in 1..Len(L) PROVE M[i] \in Result /\ M[i].item = L[i].item /\ M[i].score = s[i]
  <2>1. L[i] \in Result /\ M[i] = [L[i] EXCEPT !.score = s[i]] /\ s[i] \in Int
    BY <1>1 DEF Scored
  <2> QED BY <2>1 DEF Result
<1>3. M \in Seq(Result) /\ Len(M) = Len(L)
  BY <1>1, <1>2 DEF Scored
<1>4. IsRanking(M)
  BY <1>2, <1>3 DEF IsRanking
<1> QED BY <1>2, <1>3, <1>4

\* A result at the end of which nothing is to come after another one
Longer(M, L, z) == Len(M) = Len(L) + 1 /\ (\A i \in 1..Len(L) : M[i] = L[i]) /\ M[Len(L) + 1] = z
Best(z, pairs) == \A m \in Candidates : <<m, z.item>> \notin pairs

LEMMA OneMoreResult ==
    ASSUME NEW L, IsRanking(L), NEW z \in Result, z.item \notin Items(L), NEW M, M = Append(L, z)
    PROVE  /\ IsRanking(M) /\ Longer(M, L, z)
           /\ \A pairs, up : Led(L, pairs, up) /\ Best(z, pairs) => Led(M, pairs, up)
<1>1. L \in Seq(Result) /\ DOMAIN L = 1..Len(L) /\ Len(L) \in Nat
  BY DEF IsRanking
<1>2. PICK n \in Nat : n = Len(L)
  BY <1>1
<1>3. M \in Seq(Result) /\ Len(M) = n + 1 /\ (\A i \in 1..n : M[i] = L[i]) /\ M[n + 1] = z
  BY <1>1, <1>2
<1>4. \A i \in 1..(n + 1) : i \in 1..n \/ i = n + 1
  BY <1>2
<1>5. \A i \in 1..n : L[i].item # z.item
  BY <1>1, <1>2 DEF Items
<1>6. ASSUME NEW i \in 1..(n + 1), NEW j \in 1..(n + 1), M[i].item = M[j].item PROVE i = j
  <2>1. CASE i \in 1..n /\ j \in 1..n
    BY <1>2, <1>3, <1>6, <2>1 DEF IsRanking
  <2>2. CASE i \notin 1..n \/ j \notin 1..n
    BY <1>3, <1>4, <1>5, <1>6, <2>2
  <2> QED BY <2>1, <2>2
<1>7. IsRanking(M)
  BY <1>3, <1>6 DEF IsRanking
<1>8. ASSUME NEW pairs, NEW up, Led(L, pairs, up), Best(z, pairs)
      PROVE  Led(M, pairs, up)
  <2> SUFFICES ASSUME NEW j \in 1..(n + 1), NEW m \in Candidates, <<m, M[j].item>> \in pairs
               PROVE  \E i \in 1..(j - 1) : M[i].item = m /\ InFront(M, i, j, up)
    BY <1>3 DEF Led
  <2>1. j \in 1..n /\ M[j] = L[j]
    BY <1>3, <1>4, <1>8 DEF Best
  <2>2. PICK i \in 1..(j - 1) : L[i].item = m /\ InFront(L, i, j, up)
    BY <1>2, <1>8, <2>1 DEF Led
  <2>3. M[i] = L[i]
    BY <1>2, <1>3, <2>1
  <2>4. M[i].item = m /\ InFront(M, i, j, up)
    BY <2>1, <2>2, <2>3 DEF InFront
  <2> QED BY <2>4
<1>9. Longer(M, L, z)
  BY <1>2, <1>3 DEF Longer
<1> QED BY <1>7, <1>8, <1>9

--------------------------------------------------------------------------------
(* The order of the answer: the fusion *)

LEMMA GreatestOf ==
    ASSUME NEW S \in SUBSET Nat, IsFiniteSet(S), S # {}
    PROVE  Max(S) \in S /\ \A x \in S : x <= Max(S)
<1> DEFINE Above(x) == {y \in S : y > x}
           T == {Above(x) : x \in S}
<1>1. T \subseteq FiniteSubsetsOf(S) /\ T # {}
  <2>1. \A x \in S : Above(x) \in SUBSET S /\ IsFiniteSet(Above(x))
    BY FS_Subset
  <2> HIDE DEF Above
  <2> QED BY <2>1 DEF FiniteSubsetsOf
<1>2. PICK A \in T : \A B \in T : ~(<<B, A>> \in StrictSubsetOrdering(S))
  <2> HIDE DEF T
  <2> QED BY <1>1, FS_StrictSubsetOrderingWellFounded, WFMin
<1>3. PICK x \in S : A = Above(x)
  OBVIOUS
<1>4. \A y \in S : y <= x
  <2> SUFFICES ASSUME NEW y \in S, y > x PROVE FALSE
    OBVIOUS
  <2>0. x \in Nat /\ y \in Nat /\ S \subseteq Nat
    OBVIOUS
  <2>1. Above(y) \subseteq Above(x) /\ y \in Above(x) /\ y \notin Above(y)
    <3>1. \A z \in S : z > y => z > x
      BY <2>0
    <3>2. y > x /\ ~(y > y)
      BY <2>0
    <3> QED BY <3>1, <3>2
  <2>2. Above(y) \in T /\ Above(y) \in SUBSET S /\ Above(x) \in SUBSET S
    OBVIOUS
  <2> HIDE DEF Above, T
  <2>3. <<Above(y), Above(x)>> \in StrictSubsetOrdering(S)
    BY <2>1, <2>2 DEF StrictSubsetOrdering
  <2> QED BY <1>2, <1>3, <2>2, <2>3
<1>5. \E z \in S : \A y \in S : z >= y
  BY <1>4
<1>6. Max(S) \in S /\ \A y \in S : Max(S) >= y
  BY <1>5 DEF Max
<1> QED BY <1>6

LEMMA ProfileIs ==
    ASSUME profile \in Profiles
    PROVE  /\ Candidates = 1..Len(profile) /\ Len(profile) \in Nat
           /\ (RrfK + Len(profile)) * (RrfK + Len(profile)) <= 15 * Unit /\ RrfK \in Nat /\ Unit \in Nat
           /\ \A c \in Candidates :
                 /\ profile[c].vector \in 0..4 /\ profile[c].timely \in BOOLEAN
                 /\ profile[c].fade \in Nat /\ profile[c].weight \in Nat
           /\ \A name \in Channels, c \in Candidates : profile[c][name] \in Nat
<1>1. /\ Len(profile) \in Nat /\ DOMAIN profile = 1..Len(profile) /\ {RrfK, Unit} \subseteq Nat
      /\ (RrfK + Len(profile)) * (RrfK + Len(profile)) <= 15 * Unit
      /\ \A c \in DOMAIN profile :
            /\ profile[c].vector \in 0..4 /\ profile[c].timely \in BOOLEAN
            /\ {profile[c].words, profile[c].entity, profile[c].overlap, profile[c].matches,
                profile[c].fade, profile[c].weight} \subseteq Nat
  BY RankingAssumption
<1>2. ASSUME NEW name \in Channels, NEW c \in Candidates PROVE profile[c][name] \in Nat
  <2>1. /\ profile[c].vector \in 0..4
        /\ {profile[c].words, profile[c].entity, profile[c].overlap, profile[c].matches} \subseteq Nat
    BY <1>1 DEF Candidates
  <2>2. CASE name = "vector"
    BY <2>1, <2>2
  <2>3. CASE name = "words"
    BY <2>1, <2>3
  <2>4. CASE name = "entity"
    BY <2>1, <2>4
  <2>5. CASE name = "overlap"
    BY <2>1, <2>5
  <2>6. CASE name = "matches"
    BY <2>1, <2>6
  <2> QED BY <2>2, <2>3, <2>4, <2>5, <2>6 DEF Channels
<1> QED BY <1>1, <1>2 DEF Candidates

LEMMA QuotientsFall ==
    ASSUME NEW A \in Nat, NEW x \in Nat \ {0}, NEW y \in Nat, x < y, x * x < A
    PROVE  A \div x \in Nat /\ A \div y \in Nat /\ A \div x > A \div y
<1>1. PICK a \in Nat, r \in 0..(x - 1) : a = A \div x /\ A = x * a + r
  <2>1. A \div x \in Nat /\ A % x \in 0..(x - 1) /\ A = x * (A \div x) + (A % x)
    OBVIOUS
  <2> QED BY <2>1
<1>2. PICK b \in Nat, t \in 0..(y - 1) : b = A \div y /\ A = y * b + t
  <2>1. A \div y \in Nat /\ A % y \in 0..(y - 1) /\ A = y * (A \div y) + (A % y)
    OBVIOUS
  <2> QED BY <2>1
<1>3. ASSUME b >= a PROVE FALSE
  <2>1. y * b >= y * a
    BY <1>3
  <2>2. y * a >= (x + 1) * a
    BY x + 1 <= y
  <2>3. (x + 1) * a = x * a + a
    OBVIOUS
  <2>4. a < x
    BY <1>1, <1>2, <2>1, <2>2, <2>3
  <2>5. x * (a + 1) <= x * x /\ x * (a + 1) = x * a + x
    BY <2>4
  <2> QED BY <1>1, <2>5
<1> QED BY <1>1, <1>2, <1>3

LEMMA ListIsShort ==
    ASSUME profile \in Profiles, NEW l, IsList(l)
    PROVE  Len(l) \in Nat /\ Len(l) <= Len(profile)
<1>1. Candidates = 1..Len(profile) /\ Len(profile) \in Nat
  BY ProfileIs
<1>2. l \in Injection(1..Len(l), Candidates) /\ Len(l) \in Nat
  BY DEF IsList, Injection, IsInjective
<1>3. IsFiniteSet(Candidates) /\ Cardinality(Candidates) = Len(profile)
  <2>1. PICK n \in Nat : n = Len(profile) /\ Candidates = 1..n
    BY <1>1
  <2>2. IsFiniteSet(1..n) /\ Cardinality(1..n) = n
    BY FS_Interval
  <2> QED BY <2>1, <2>2
<1>4. IsFiniteSet(1..Len(l)) /\ Cardinality(1..Len(l)) = Len(l)
  <2>1. PICK n \in Nat : n = Len(l)
    BY <1>2
  <2>2. IsFiniteSet(1..n) /\ Cardinality(1..n) = n
    BY FS_Interval
  <2> QED BY <2>1, <2>2
<1>5. Cardinality(1..Len(l)) <= Cardinality(Candidates)
  BY <1>2, <1>3, FS_Injection
<1> QED BY <1>2, <1>3, <1>4, <1>5

\* The better of two has the larger share of a channel that has the other one, and of each at least as large a share.
LEMMA SharesLead ==
    ASSUME profile \in Profiles, NEW l, IsList(l), NEW pairs, Leads(l, pairs), NEW weight \in Nat, weight >= 15
    PROVE  /\ \A c \in Candidates : RrfScore(l, weight, c) \in Nat
           /\ \A m, n \in Candidates : <<m, n>> \in pairs =>
                 /\ RrfScore(l, weight, m) >= RrfScore(l, weight, n)
                 /\ n \in Range(l) => RrfScore(l, weight, m) > RrfScore(l, weight, n) /\ m \in Range(l)
<1>1. /\ l \in Seq(Candidates) /\ DOMAIN l = 1..Len(l) /\ Len(l) \in Nat /\ Len(l) <= Len(profile)
      /\ \A i, j \in 1..Len(l) : l[i] = l[j] => i = j
  BY ListIsShort DEF IsList
<1>2. PICK A \in Nat : A = weight * Unit /\ A >= 15 * Unit
  <2>1. Unit \in Nat
    BY ProfileIs
  <2>2. weight * Unit \in Nat /\ weight * Unit >= 15 * Unit
    BY <2>1
  <2> QED BY <2>2
<1>3. RrfK \in Nat /\ Len(profile) \in Nat /\ (RrfK + Len(profile)) * (RrfK + Len(profile)) <= 15 * Unit
  BY ProfileIs
<1>4. ASSUME NEW i \in 1..Len(l) PROVE RrfScore(l, weight, l[i]) = A \div (RrfK + i) /\ l[i] \in Range(l)
  <2>1. (CHOOSE k \in DOMAIN l : l[k] = l[i]) = i
    BY <1>1
  <2>2. l[i] \in Range(l)
    BY <1>1 DEF Range
  <2> QED BY <1>2, <2>1, <2>2 DEF RrfScore
<1>5. \A c \in Range(l) : \E i \in 1..Len(l) : l[i] = c
  BY <1>1 DEF Range
<1>6. ASSUME NEW c \in Candidates PROVE RrfScore(l, weight, c) \in Nat
  <2>1. CASE c \in Range(l)
    <3>1. PICK i \in 1..Len(l) : l[i] = c
      BY <1>5, <2>1
    <3>2. RrfK + i \in Nat \ {0}
      BY <1>1, <1>3
    <3>3. A \div (RrfK + i) \in Nat
      BY <3>2
    <3> QED BY <1>4, <3>1, <3>3
  <2>2. CASE c \notin Range(l)
    BY <2>2 DEF RrfScore
  <2> QED BY <2>1, <2>2
<1>7. ASSUME NEW m \in Candidates, NEW n \in Candidates, <<m, n>> \in pairs, n \in Range(l)
      PROVE  RrfScore(l, weight, m) > RrfScore(l, weight, n) /\ m \in Range(l)
  <2>1. PICK j \in 1..Len(l) : l[j] = n
    BY <1>5, <1>7
  <2>2. PICK i \in 1..(j - 1) : l[i] = m
    BY <1>7, <2>1 DEF Leads
  <2>3. i \in 1..Len(l) /\ i < j /\ j <= Len(profile)
    BY <1>1
  <2>4. PICK x \in Nat \ {0}, y \in Nat : x = RrfK + i /\ y = RrfK + j /\ x < y /\ y <= RrfK + Len(profile)
    BY <1>3, <2>3
  <2>5. x * x < A
    <3>a. PICK q : q = RrfK + Len(profile) /\ q * q <= 15 * Unit
      BY <1>3
    <3>b. q \in Nat /\ x < q
      BY <1>3, <2>4, <3>a
    <3>c. q * q <= 15 * Unit
      BY <3>a
    <3>d. 15 * Unit <= A /\ 15 * Unit \in Nat
      <4>a. Unit \in Nat
        BY RankingAssumption
      <4>1. PICK u \in Nat : u = Unit
        BY <4>a
      <4>2. 15 * u \in Nat /\ A >= 15 * u
        BY <1>2, <4>1
      <4> QED BY <4>1, <4>2
    <3>1. q \in Nat /\ x < q /\ q * q <= A
      <4>1. PICK s \in Nat, u \in Nat : s = q * q /\ u = 15 * Unit
        BY <3>b, <3>d
      <4>2. s <= A
        BY <3>c, <3>d, <4>1
      <4> QED BY <3>b, <4>1, <4>2
    <3>2. x * x < q * q
      BY <3>1
    <3> QED BY <3>1, <3>2
  <2>6. A \div x > A \div y
    BY <2>4, <2>5, QuotientsFall
  <2> QED BY <1>4, <2>1, <2>2, <2>3, <2>4, <2>6
<1>8. ASSUME NEW m \in Candidates, NEW n \in Candidates, <<m, n>> \in pairs, n \notin Range(l)
      PROVE  RrfScore(l, weight, m) >= RrfScore(l, weight, n)
  BY <1>6, <1>8 DEF RrfScore
<1>9. ASSUME NEW m \in Candidates, NEW n \in Candidates, <<m, n>> \in pairs
      PROVE  RrfScore(l, weight, m) >= RrfScore(l, weight, n)
  <2>1. RrfScore(l, weight, m) \in Nat /\ RrfScore(l, weight, n) \in Nat
    BY <1>6
  <2> QED BY <1>7, <1>8, <1>9, <2>1
<1> QED BY <1>6, <1>7, <1>9

\* What is of the set, the greater value first
ListedBy(l, S, value) ==
    /\ IsList(l) /\ Range(l) \subseteq S
    /\ \A j \in 1..Len(l), m \in S : value[m] > value[l[j]] => \E i \in 1..(j - 1) : l[i] = m

LEMMA OrderedLeads ==
    ASSUME profile \in Profiles, NEW S \in SUBSET Candidates, NEW value, \A c \in S : value[c] \in Nat, NEW q,
           q \in Ordered(S, value), NEW k \in Nat
    PROVE  ListedBy(Take(q, k), S, value)
<1>1. IsFiniteSet(S)
  <2>1. IsFiniteSet(Candidates)
    BY ProfileIs, FS_Interval
  <2> QED BY <2>1, FS_Subset
<1>2. q \in SetToSeqs(S) /\ \A i, j \in DOMAIN q : i < j => value[q[i]] >= value[q[j]]
  BY DEF Ordered
<1>3. PICK n \in Nat : /\ q \in [1..n -> S] /\ \A i, j \in 1..n : q[i] = q[j] => i = j
                       /\ \A x \in S : \E i \in 1..n : q[i] = x
  <2>1. PICK n : n = Cardinality(S)
    OBVIOUS
  <2>2. /\ n \in Nat /\ q \in [1..n -> S] /\ (\A i, j \in 1..n : q[i] = q[j] => i = j)
        /\ \A x \in S : \E i \in 1..n : q[i] = x
    BY <1>1, <1>2, <2>1, OrderMeetsAll
  <2> QED BY <2>2
<1>4. q \in Seq(S) /\ Len(q) = n
  BY <1>3
<1>5. PICK t : t = Take(q, k)
  OBVIOUS
<1>6. t \in Seq(S) /\ Len(t) <= n /\ \A i \in 1..Len(t) : t[i] = q[i]
  BY <1>4, <1>5, TakeIs
<1>7. IsList(t) /\ Range(t) \subseteq S
  <2>1. t \in Seq(Candidates)
    BY <1>6
  <2>2. \A i, j \in 1..Len(t) : t[i] = t[j] => i = j
    BY <1>3, <1>6
  <2>3. Range(t) \subseteq S
    BY <1>6 DEF Range
  <2> QED BY <2>1, <2>2, <2>3 DEF IsList
<1>8. ASSUME NEW j \in 1..Len(t), NEW m \in S, value[m] > value[t[j]] PROVE \E i \in 1..(j - 1) : t[i] = m
  <2>1. PICK i \in 1..n : q[i] = m
    BY <1>3
  <2>2. j \in 1..n /\ t[j] = q[j] /\ q[j] \in S
    BY <1>3, <1>6
  <2>3. value[q[i]] \in Nat /\ value[q[j]] \in Nat /\ value[q[i]] > value[q[j]]
    BY <1>8, <2>1, <2>2
  <2>4. i # j /\ ~(j < i)
    BY <1>2, <1>3, <2>2, <2>3
  <2>5. i \in 1..(j - 1) /\ i \in 1..Len(t)
    BY <1>6, <2>2, <2>4
  <2> QED BY <1>6, <2>1, <2>5
<1> QED BY <1>5, <1>7, <1>8 DEF ListedBy

LEMMA ValuesAre ==
    ASSUME profile \in Profiles, NEW name \in Channels
    PROVE  ValueOf(name) \in [Candidates -> Nat] /\ \A c \in Candidates : ValueOf(name)[c] = profile[c][name]
  BY ProfileIs DEF ValueOf

LEMMA SettingsAre ==
    ASSUME settings.limit \in Limits
    PROVE  /\ settings.limit \in Nat \ {0} /\ settings.limit * CandidateMult * Mult \in Nat
           /\ settings.limit * Mult \in Nat
<1>1. settings.limit \in Nat \ {0} /\ CandidateMult \in Nat /\ Mult \in Nat
  BY RankingAssumption DEF Mult
<1> QED BY <1>1

\* What a channel finds, the better first
LEMMA ChannelLeads ==
    ASSUME profile \in Profiles, settings.limit \in Limits,
           NEW name \in IF Fused THEN Channels ELSE {"vector"}, NEW l \in Channel(name)
    PROVE  IsList(l) /\ Leads(l, BetterPairs) /\ \A j \in 1..Len(l) : profile[l[j]][name] > 0
<1>1. name \in Channels
  BY DEF Channels
<1>2. PICK V : V = ValueOf(name)
  OBVIOUS
<1>3. V \in [Candidates -> Nat] /\ \A c \in Candidates : V[c] = profile[c][name]
  BY <1>1, <1>2, ValuesAre
<1>4. PICK S : S = {c \in Candidates : V[c] > 0}
  OBVIOUS
<1>5. PICK k \in Nat : k = settings.limit * CandidateMult * Mult
  BY SettingsAre
<1>6. PICK q \in Ordered(S, V) : l = Take(q, k)
  BY <1>2, <1>4, <1>5 DEF Channel, ValueOf
<1>7. /\ IsList(l) /\ Range(l) \subseteq S
      /\ \A j \in 1..Len(l), m \in S : V[m] > V[l[j]] => \E i \in 1..(j - 1) : l[i] = m
  <2>1. S \in SUBSET Candidates /\ \A c \in S : V[c] \in Nat
    BY <1>3, <1>4
  <2>2. ListedBy(Take(q, k), S, V)
    BY <2>1, OrderedLeads
  <2> QED BY <1>6, <2>2 DEF ListedBy
<1>8. \A j \in 1..Len(l) : l[j] \in S
  BY <1>7 DEF IsList, Range
<1>9. ASSUME NEW j \in 1..Len(l), NEW m \in Candidates, <<m, l[j]>> \in BetterPairs
      PROVE  \E i \in 1..(j - 1) : l[i] = m
  <2>1. l[j] \in Candidates /\ V[l[j]] > 0
    BY <1>4, <1>8
  <2>2. profile[l[j]][name] > 0 => profile[m][name] > profile[l[j]][name]
    BY <1>9 DEF BetterPairs
  <2>3. V[m] > V[l[j]] /\ V[m] \in Nat /\ V[l[j]] \in Nat
    BY <1>3, <2>1, <2>2
  <2>4. m \in S
    BY <1>4, <2>1, <2>3
  <2> QED BY <1>7, <2>3, <2>4
<1>10. \A j \in 1..Len(l) : profile[l[j]][name] > 0
  BY <1>3, <1>4, <1>8
<1> QED BY <1>7, <1>9, <1>10 DEF Leads

\* A pool has the entries of both lists, each once.
LEMMA PoolIs ==
    ASSUME NEW a, IsList(a), NEW b, IsList(b)
    PROVE  IsList(Pool(a, b)) /\ Range(Pool(a, b)) = Range(a) \cup Range(b)
<1>1. /\ a \in Seq(Candidates) /\ b \in Seq(Candidates) /\ DOMAIN a = 1..Len(a) /\ DOMAIN b = 1..Len(b)
      /\ Len(a) \in Nat /\ Len(b) \in Nat
  BY DEF IsList
<1>2. PICK places : places = {i \in 1..Len(b) : b[i] \notin Range(a)}
  OBVIOUS
<1>3. PICK zero : zero = [i \in places |-> 0]
  OBVIOUS
<1>4. PICK r : r = Arranged(b, places, zero)
  OBVIOUS
<1>5. r \in Seq(Candidates) /\ \E at : IsArranged(b, places, zero, r, at)
  <2>1. places \in SUBSET (1..Len(b)) /\ \A i \in places : zero[i] \in Int
    BY <1>2, <1>3
  <2> QED BY <1>1, <1>4, <2>1, ArrangedIs
<1>6. PICK at : /\ at \in [places -> 1..Len(r)] /\ \A i \in places : r[at[i]] = b[i]
                /\ \A k \in 1..Len(r) : \E i \in places : at[i] = k
  BY <1>5 DEF IsArranged
<1>7. \A k \in 1..Len(r) : \E i \in 1..Len(b) : at[i] = k /\ r[k] = b[i] /\ b[i] \notin Range(a)
  BY <1>2, <1>6
<1>8. \A k, l \in 1..Len(r) : r[k] = r[l] => k = l
  BY <1>7 DEF IsList
<1>9. Range(r) = Range(b) \ Range(a)
  <2>1. DOMAIN r = 1..Len(r)
    BY <1>5
  <2>2. Range(r) \subseteq Range(b) \ Range(a)
    <3>1. ASSUME NEW k \in 1..Len(r) PROVE r[k] \in Range(b) \ Range(a)
      <4>1. PICK i \in 1..Len(b) : r[k] = b[i] /\ b[i] \notin Range(a)
        BY <1>7
      <4>2. b[i] \in Range(b)
        BY <1>1 DEF Range
      <4> QED BY <4>1, <4>2
    <3> QED BY <2>1, <3>1 DEF Range
  <2>3. ASSUME NEW i \in 1..Len(b), b[i] \notin Range(a) PROVE b[i] \in Range(r)
    BY <1>2, <1>6, <2>1, <2>3 DEF Range
  <2> QED BY <1>1, <2>2, <2>3 DEF Range
<1>10. PICK p : p = a \o r
  OBVIOUS
<1>11. Pool(a, b) = p
  BY <1>1, <1>2, <1>3, <1>4, <1>10 DEF Pool, Retained
<1>12. /\ p \in Seq(Candidates) /\ Len(p) = Len(a) + Len(r) /\ DOMAIN p = 1..(Len(a) + Len(r))
       /\ \A i \in 1..(Len(a) + Len(r)) : p[i] = IF i <= Len(a) THEN a[i] ELSE r[i - Len(a)]
  BY <1>1, <1>5, <1>10
<1>13. \A i \in 1..(Len(a) + Len(r)) : (i <= Len(a) /\ i \in 1..Len(a)) \/ (i > Len(a) /\ i - Len(a) \in 1..Len(r))
  BY <1>1, <1>5
<1>14. ASSUME NEW i \in 1..(Len(a) + Len(r)), NEW j \in 1..(Len(a) + Len(r)), p[i] = p[j] PROVE i = j
  <2>1. ASSUME NEW k \in 1..Len(a), NEW l \in 1..Len(r) PROVE a[k] # r[l]
    <3>1. a[k] \in Range(a)
      BY <1>1 DEF Range
    <3>2. r[l] \notin Range(a)
      BY <1>7
    <3> QED BY <3>1, <3>2
  <2>2. CASE i <= Len(a) /\ j <= Len(a)
    BY <1>12, <1>13, <1>14, <2>2 DEF IsList
  <2>3. CASE i <= Len(a) /\ j > Len(a)
    BY <1>12, <1>13, <1>14, <2>1, <2>3
  <2>4. CASE i > Len(a) /\ j <= Len(a)
    BY <1>12, <1>13, <1>14, <2>1, <2>4
  <2>5. CASE i > Len(a) /\ j > Len(a)
    <3>a. /\ i - Len(a) \in 1..Len(r) /\ p[i] = r[i - Len(a)]
          /\ j - Len(a) \in 1..Len(r) /\ p[j] = r[j - Len(a)]
      BY <1>1, <1>12, <1>13, <2>5
    <3>1. i - Len(a) = j - Len(a)
      BY <1>8, <1>14, <3>a
    <3> QED BY <1>1, <3>1
  <2> QED BY <1>1, <2>2, <2>3, <2>4, <2>5
<1>15. IsList(p)
  BY <1>12, <1>14 DEF IsList
<1>16. Range(p) \subseteq Range(a) \cup Range(r)
  <2>1. DOMAIN r = 1..Len(r)
    BY <1>5
  <2>2. ASSUME NEW i \in 1..(Len(a) + Len(r)) PROVE p[i] \in Range(a) \cup Range(r)
    <3>1. CASE i <= Len(a)
      <4>1. i \in DOMAIN a /\ p[i] = a[i]
        BY <1>1, <1>12, <1>13, <3>1
      <4> QED BY <4>1 DEF Range
    <3>2. CASE i > Len(a)
      <4>1. i - Len(a) \in 1..Len(r) /\ p[i] = r[i - Len(a)]
        BY <1>1, <1>12, <1>13, <3>2
      <4> QED BY <2>1, <4>1 DEF Range
    <3> QED BY <1>1, <3>1, <3>2
  <2> QED BY <1>12, <2>2 DEF Range
<1>17. Range(a) \cup Range(r) \subseteq Range(p)
  <2>1. DOMAIN r = 1..Len(r)
    BY <1>5
  <2>2. ASSUME NEW i \in 1..Len(a) PROVE a[i] \in Range(p)
    <3>1. i \in DOMAIN p /\ p[i] = a[i]
      BY <1>1, <1>5, <1>12
    <3> QED BY <3>1 DEF Range
  <2>3. ASSUME NEW i \in 1..Len(r) PROVE r[i] \in Range(p)
    <3>1. PICK k \in DOMAIN p : k = Len(a) + i /\ k - Len(a) = i /\ ~(k <= Len(a))
      BY <1>1, <1>5, <1>12
    <3>2. p[k] = r[i]
      BY <1>12, <3>1
    <3> QED BY <3>1, <3>2 DEF Range
  <2> QED BY <1>1, <2>1, <2>2, <2>3 DEF Range
<1> QED BY <1>9, <1>11, <1>15, <1>16, <1>17

\* Of a pool that has the better one of a pair with the other, the ones that have some of the value, the better first
LEMMA RescoredLeads ==
    ASSUME profile \in Profiles, Fused, NEW name \in Channels, NEW pool, IsList(pool),
           \A p \in BetterPairs : p[2] \in Range(pool) => p[1] \in Range(pool)
    PROVE  IsList(Rescored(pool, name)) /\ Leads(Rescored(pool, name), BetterPairs)
<1>1. pool \in Seq(Candidates) /\ DOMAIN pool = 1..Len(pool)
  BY DEF IsList
<1>2. PICK w : w = [i \in 1..Len(pool) |-> profile[pool[i]][name]]
  OBVIOUS
<1>3. \A i \in 1..Len(pool) : pool[i] \in Candidates /\ w[i] \in Nat /\ w[i] = profile[pool[i]][name]
  BY <1>1, <1>2, ProfileIs
<1>4. PICK places : places = {i \in 1..Len(pool) : w[i] > 0}
  OBVIOUS
<1>5. PICK r : r = Arranged(pool, places, w)
  OBVIOUS
<1>6. Rescored(pool, name) = r
  BY <1>1, <1>2, <1>4, <1>5 DEF Rescored
<1>7. r \in Seq(Candidates) /\ \E at : IsArranged(pool, places, w, r, at)
  <2>1. places \in SUBSET (1..Len(pool)) /\ \A i \in places : w[i] \in Int
    BY <1>3, <1>4
  <2> QED BY <1>1, <1>5, <2>1, ArrangedIs
<1>8. PICK at : /\ at \in [places -> 1..Len(r)] /\ \A i \in places : r[at[i]] = pool[i]
                /\ \A k \in 1..Len(r) : \E i \in places : at[i] = k
                /\ \A i, j \in places : w[i] > w[j] \/ (w[i] = w[j] /\ i < j) => at[i] < at[j]
  BY <1>7 DEF IsArranged
<1>9. ASSUME NEW k \in 1..Len(r), NEW l \in 1..Len(r), r[k] = r[l] PROVE k = l
  <2>1. PICK i \in places, j \in places : at[i] = k /\ at[j] = l
    BY <1>8
  <2>2. pool[i] = pool[j] /\ i \in 1..Len(pool) /\ j \in 1..Len(pool)
    BY <1>4, <1>8, <1>9, <2>1
  <2> QED BY <2>1, <2>2 DEF IsList
<1>10. IsList(r)
  BY <1>7, <1>9 DEF IsList
<1>11. ASSUME NEW k \in 1..Len(r), NEW m \in Candidates, <<m, r[k]>> \in BetterPairs
       PROVE  \E l \in 1..(k - 1) : r[l] = m
  <2>1. PICK j \in places : at[j] = k /\ r[k] = pool[j] /\ j \in 1..Len(pool) /\ w[j] > 0
    BY <1>4, <1>8
  <2>2. r[k] \in Range(pool)
    BY <1>1, <2>1 DEF Range
  <2>3. m \in Range(pool)
    BY <1>11, <2>2
  <2>4. PICK i \in 1..Len(pool) : pool[i] = m
    BY <1>1, <2>3 DEF Range
  <2>5. profile[r[k]][name] > 0 => profile[m][name] > profile[r[k]][name]
    BY <1>11 DEF BetterPairs
  <2>6. w[i] > w[j]
    BY <1>3, <2>1, <2>4, <2>5
  <2>7. i \in places
    BY <1>3, <1>4, <2>1, <2>6
  <2>8. at[i] < at[j] /\ at[i] \in 1..Len(r) /\ r[at[i]] = m
    BY <1>8, <2>1, <2>4, <2>6, <2>7
  <2>9. at[i] \in 1..(k - 1)
    BY <2>1, <2>8
  <2> QED BY <2>8, <2>9
<1> QED BY <1>6, <1>10, <1>11 DEF Leads

LEMMA LeadsHas ==
    ASSUME NEW l, IsList(l), NEW pairs \in SUBSET (Candidates \X Candidates), Leads(l, pairs), NEW p \in pairs,
           p[2] \in Range(l)
    PROVE  p[1] \in Range(l)
<1>1. DOMAIN l = 1..Len(l) /\ Len(l) \in Nat
  BY DEF IsList
<1>2. PICK j \in 1..Len(l) : l[j] = p[2]
  BY <1>1 DEF Range
<1>3. p = <<p[1], l[j]>> /\ p[1] \in Candidates
  BY <1>2
<1>4. PICK i \in 1..(j - 1) : l[i] = p[1]
  BY <1>3 DEF Leads
<1>5. i \in DOMAIN l
  BY <1>1
<1> QED BY <1>4, <1>5 DEF Range

LEMMA FuseLeads ==
    ASSUME profile \in Profiles, settings.limit \in Limits,
           NEW v, IsList(v), Leads(v, BetterPairs), NEW w, IsList(w), Leads(w, BetterPairs),
           NEW e, IsList(e), Leads(e, BetterPairs), NEW o, IsList(o), Leads(o, BetterPairs),
           NEW d, IsList(d), Leads(d, BetterPairs), NEW L \in RrfFuse(v, w, e, o, d)
    PROVE  IsRanking(L) /\ Led(L, BetterPairs, TRUE) /\ \A i \in 1..Len(L) : L[i].score \in Nat
<1>1. PICK all : all = Range(v) \cup Range(w) \cup Range(e) \cup Range(o) \cup Range(d)
  OBVIOUS
<1>2. all \in SUBSET Candidates
  <2>1. ASSUME NEW l, IsList(l) PROVE Range(l) \subseteq Candidates
    BY <2>1 DEF IsList, Range
  <2> QED BY <1>1, <2>1
<1>3. PICK score : score = [c \in all |-> RrfScore(v, WeightOf.vector, c) + RrfScore(w, WeightOf.words, c)
                                            + RrfScore(e, WeightOf.entity, c) + RrfScore(o, WeightOf.overlap, c)
                                            + RrfScore(d, IdentifierWeight, c)]
  OBVIOUS
<1>4. /\ WeightOf.vector \in Nat /\ WeightOf.vector >= 15 /\ WeightOf.words \in Nat /\ WeightOf.words >= 15
      /\ WeightOf.entity \in Nat /\ WeightOf.entity >= 15 /\ WeightOf.overlap \in Nat /\ WeightOf.overlap >= 15
      /\ IdentifierWeight \in Nat /\ IdentifierWeight >= 15
  BY DEF WeightOf, IdentifierWeight
<1>5. PICK x1, x2, x3, x4, x5 :
          /\ x1 = [c \in Candidates |-> RrfScore(v, WeightOf.vector, c)]
          /\ x2 = [c \in Candidates |-> RrfScore(w, WeightOf.words, c)]
          /\ x3 = [c \in Candidates |-> RrfScore(e, WeightOf.entity, c)]
          /\ x4 = [c \in Candidates |-> RrfScore(o, WeightOf.overlap, c)]
          /\ x5 = [c \in Candidates |-> RrfScore(d, IdentifierWeight, c)]
  OBVIOUS
<1> DEFINE Fits(x, l) == /\ \A c \in Candidates : x[c] \in Nat
                         /\ \A p \in BetterPairs : /\ x[p[1]] >= x[p[2]]
                                                   /\ p[2] \in Range(l) => x[p[1]] > x[p[2]] /\ p[1] \in Range(l)
<1>6. \A p \in BetterPairs : p[1] \in Candidates /\ p[2] \in Candidates /\ <<p[1], p[2]>> \in BetterPairs
  BY DEF BetterPairs
<1>7. ASSUME NEW l, IsList(l), Leads(l, BetterPairs), NEW weight \in Nat, weight >= 15, NEW x,
             x = [c \in Candidates |-> RrfScore(l, weight, c)]
      PROVE  Fits(x, l)
  <2>1. /\ \A c \in Candidates : RrfScore(l, weight, c) \in Nat
        /\ \A m, n \in Candidates : <<m, n>> \in BetterPairs =>
              /\ RrfScore(l, weight, m) >= RrfScore(l, weight, n)
              /\ n \in Range(l) => RrfScore(l, weight, m) > RrfScore(l, weight, n) /\ m \in Range(l)
    BY <1>7, SharesLead
  <2>2. \A c \in Candidates : x[c] = RrfScore(l, weight, c)
    BY <1>7
  <2> QED BY <1>6, <2>1, <2>2
<1>8. Fits(x1, v) /\ Fits(x2, w) /\ Fits(x3, e) /\ Fits(x4, o) /\ Fits(x5, d)
  <2> HIDE DEF Fits
  <2>1. Fits(x1, v)
    BY <1>4, <1>5, <1>7
  <2>2. Fits(x2, w)
    BY <1>4, <1>5, <1>7
  <2>3. Fits(x3, e)
    BY <1>4, <1>5, <1>7
  <2>4. Fits(x4, o)
    BY <1>4, <1>5, <1>7
  <2>5. Fits(x5, d)
    BY <1>4, <1>5, <1>7
  <2> QED BY <2>1, <2>2, <2>3, <2>4, <2>5
<1>9. \A c \in all : c \in Candidates /\ score[c] = x1[c] + x2[c] + x3[c] + x4[c] + x5[c]
  BY <1>2, <1>3, <1>5
<1>10. \A c \in all : score[c] \in Nat
  BY <1>8, <1>9
<1>11. ASSUME NEW p \in BetterPairs, p[2] \in all PROVE p[1] \in all /\ score[p[1]] > score[p[2]]
  <2>1. PICK m \in Candidates, n \in Candidates : m = p[1] /\ n = p[2]
    BY <1>6
  <2>2. x1[m] >= x1[n] /\ x2[m] >= x2[n] /\ x3[m] >= x3[n] /\ x4[m] >= x4[n] /\ x5[m] >= x5[n]
    BY <1>8, <2>1
  <2>3. /\ x1[m] \in Nat /\ x2[m] \in Nat /\ x3[m] \in Nat /\ x4[m] \in Nat /\ x5[m] \in Nat
        /\ x1[n] \in Nat /\ x2[n] \in Nat /\ x3[n] \in Nat /\ x4[n] \in Nat /\ x5[n] \in Nat
    BY <1>8, <2>1
  <2>4. /\ x1[m] > x1[n] \/ x2[m] > x2[n] \/ x3[m] > x3[n] \/ x4[m] > x4[n] \/ x5[m] > x5[n]
        /\ m \in all
    BY <1>1, <1>8, <1>11, <2>1
  <2>5. score[m] = x1[m] + x2[m] + x3[m] + x4[m] + x5[m] /\ score[n] = x1[n] + x2[n] + x3[n] + x4[n] + x5[n]
    BY <1>9, <1>11, <2>1, <2>4
  <2>6. score[m] > score[n]
    BY <2>2, <2>3, <2>4, <2>5
  <2> QED BY <2>1, <2>4, <2>6
<1>12. PICK k \in Nat : k = settings.limit * Mult
  BY SettingsAre
<1>13. PICK t, q : /\ q \in Ordered(all, score) /\ t = Take(q, k)
                   /\ L = [i \in DOMAIN t |-> [item |-> t[i], score |-> score[t[i]]]]
  <2> DEFINE All == Range(v) \cup Range(w) \cup Range(e) \cup Range(o) \cup Range(d)
             Score == [c \in All |-> RrfScore(v, WeightOf.vector, c) + RrfScore(w, WeightOf.words, c)
                                        + RrfScore(e, WeightOf.entity, c) + RrfScore(o, WeightOf.overlap, c)
                                        + RrfScore(d, IdentifierWeight, c)]
  <2>1. \E t \in {Take(q, settings.limit * Mult) : q \in Ordered(All, Score)} :
            L = [i \in DOMAIN t |-> [item |-> t[i], score |-> Score[t[i]]]]
    BY Zenon DEF RrfFuse
  <2>2. All = all /\ Score = score
    BY <1>1, <1>3
  <2> HIDE DEF All, Score
  <2>3. PICK q \in Ordered(All, Score) :
            L = [i \in DOMAIN Take(q, settings.limit * Mult) |->
                    [item |-> Take(q, settings.limit * Mult)[i], score |-> Score[Take(q, settings.limit * Mult)[i]]]]
    BY <2>1
  <2> QED BY <1>12, <2>2, <2>3
<1>14. /\ IsList(t) /\ Range(t) \subseteq all
       /\ \A j \in 1..Len(t), m \in all : score[m] > score[t[j]] => \E i \in 1..(j - 1) : t[i] = m
  <2>1. ListedBy(Take(q, k), all, score)
    BY <1>2, <1>10, <1>13, OrderedLeads
  <2> QED BY <1>13, <2>1 DEF ListedBy
<1>15. t \in Seq(Candidates) /\ DOMAIN t = 1..Len(t) /\ Len(t) \in Nat /\ \A i \in 1..Len(t) : t[i] \in all
  BY <1>14 DEF IsList, Range
<1>16. ASSUME NEW i \in 1..Len(t)
       PROVE  L[i] \in Result /\ L[i].item = t[i] /\ L[i].score = score[t[i]] /\ L[i].score \in Nat
  <2>1. L[i] = [item |-> t[i], score |-> score[t[i]]]
    BY <1>13, <1>15
  <2>2. t[i] \in Candidates /\ score[t[i]] \in Nat
    BY <1>2, <1>10, <1>15
  <2> QED BY <2>1, <2>2 DEF Result
<1>17. L \in Seq(Result) /\ Len(L) = Len(t)
  BY <1>13, <1>15, <1>16
<1>18. IsRanking(L)
  BY <1>14, <1>16, <1>17 DEF IsRanking, IsList
<1>19. ASSUME NEW j \in 1..Len(t), NEW m \in Candidates, <<m, L[j].item>> \in BetterPairs
       PROVE  \E i \in 1..(j - 1) : L[i].item = m /\ InFront(L, i, j, TRUE)
  <2>1. PICK n : n = t[j] /\ n \in all /\ L[j].item = n /\ L[j].score = score[n]
    BY <1>15, <1>16
  <2>2. m \in all /\ score[m] > score[n]
    BY <1>11, <1>19, <2>1
  <2>3. PICK i \in 1..(j - 1) : t[i] = m
    BY <1>14, <2>1, <2>2
  <2>4. i \in 1..Len(t)
    BY <1>15
  <2>5. L[i].item = m /\ L[i].score = score[m]
    BY <1>16, <2>3, <2>4
  <2>6. score[m] \in Nat /\ score[n] \in Nat
    BY <1>10, <2>1, <2>2
  <2>7. InFront(L, i, j, TRUE)
    BY <2>1, <2>2, <2>5, <2>6 DEF InFront
  <2> QED BY <2>5, <2>7
<1>20. Led(L, BetterPairs, TRUE)
  BY <1>17, <1>19 DEF Led
<1> QED BY <1>16, <1>17, <1>18, <1>20

\* The first of the identifiers' list has no better one, so that nothing that is better is left behind.
LEMMA BoostLeads ==
    ASSUME profile \in Profiles, NEW L, IsRanking(L), Led(L, BetterPairs, TRUE),
           \A i \in 1..Len(L) : L[i].score \in Nat, NEW d, IsList(d), Leads(d, BetterPairs)
    PROVE  /\ IsRanking(Boosted(L, d)) /\ Led(Boosted(L, d), BetterPairs, TRUE)
           /\ \A i \in 1..Len(Boosted(L, d)) : Boosted(L, d)[i].score \in Nat
<1>1. L \in Seq(Result) /\ DOMAIN L = 1..Len(L) /\ Len(L) \in Nat
  BY DEF IsRanking
<1>2. CASE d = <<>>
  BY <1>2 DEF Boosted
<1>3. CASE d # <<>>
  <2>1. d \in Seq(Candidates) /\ Len(d) \in Nat /\ 1 \in 1..Len(d)
    BY <1>3 DEF IsList
  <2>2. PICK exact \in Candidates : exact = d[1]
    BY <2>1
  <2>3. \A m \in Candidates : <<m, exact>> \notin BetterPairs
    BY <2>1, <2>2 DEF Leads
  <2>4. PICK S : S = {L[i].score : i \in DOMAIN L} \cup {0}
    OBVIOUS
  <2>5. S \in SUBSET Nat /\ IsFiniteSet(S) /\ S # {}
    <3>1. IsFiniteSet({L[i].score : i \in 1..Len(L)})
      <4>1. IsFiniteSet(1..Len(L))
        <5>1. PICK n \in Nat : n = Len(L)
          BY <1>1
        <5>2. IsFiniteSet(1..n)
          BY FS_Interval
        <5> QED BY <5>1, <5>2
      <4>2. PICK f : f = [i \in 1..Len(L) |-> L[i].score]
        OBVIOUS
      <4>3. PICK T : T = {L[i].score : i \in 1..Len(L)}
        OBVIOUS
      <4>4. f \in Surjection(1..Len(L), T)
        BY <4>2, <4>3 DEF Surjection
      <4> QED BY <4>1, <4>3, <4>4, FS_Surjection
    <3>2. IsFiniteSet({0})
      BY FS_Singleton
    <3>3. IsFiniteSet(S)
      BY <1>1, <2>4, <3>1, <3>2, FS_Union
    <3> QED BY <1>1, <2>4, <3>3
  <2>6. PICK best \in Nat : best = Max(S) + One /\ \A i \in 1..Len(L) : L[i].score <= best
    <3>1. Max(S) \in Nat /\ \A x \in S : x <= Max(S)
      BY <2>5, GreatestOf
    <3>2. One \in Nat
      BY ProfileIs DEF One
    <3>3. \A i \in 1..Len(L) : L[i].score <= Max(S)
      BY <1>1, <2>4, <3>1
    <3>4. PICK a \in Nat, b \in Nat : a = Max(S) /\ b = One
      BY <3>1, <3>2
    <3>5. a + b \in Nat /\ \A i \in 1..Len(L) : L[i].score <= a + b
      BY <3>3, <3>4
    <3> QED BY <3>4, <3>5
  <2>7. CASE exact \in Items(L)
    <3>1. PICK M : M = [i \in DOMAIN L |-> IF L[i].item = exact THEN [L[i] EXCEPT !.score = best] ELSE L[i]]
      OBVIOUS
    <3>2. Boosted(L, d) = M
      BY <1>3, <2>2, <2>4, <2>6, <2>7, <3>1 DEF Boosted
    <3>3. ASSUME NEW i \in 1..Len(L)
          PROVE  /\ M[i] \in Result /\ M[i].item = L[i].item /\ M[i].score \in Nat
                 /\ M[i].score = IF L[i].item = exact THEN best ELSE L[i].score
      <4>1. M[i] = IF L[i].item = exact THEN [L[i] EXCEPT !.score = best] ELSE L[i]
        BY <1>1, <3>1
      <4>2. L[i] \in Result /\ L[i].score \in Nat
        BY <1>1
      <4> QED BY <4>1, <4>2 DEF Result
    <3>4. M \in Seq(Result) /\ Len(M) = Len(L)
      BY <1>1, <3>1, <3>3
    <3>5. IsRanking(M)
      BY <3>3, <3>4 DEF IsRanking
    <3>6. ASSUME NEW j \in 1..Len(L), NEW m \in Candidates, <<m, M[j].item>> \in BetterPairs
          PROVE  \E i \in 1..(j - 1) : M[i].item = m /\ InFront(M, i, j, TRUE)
      <4>1. <<m, L[j].item>> \in BetterPairs /\ L[j].item # exact
        BY <2>3, <3>3, <3>6
      <4>2. PICK i \in 1..(j - 1) : L[i].item = m /\ L[i].score >= L[j].score
        BY <4>1 DEF Led, InFront
      <4>3. i \in 1..Len(L)
        BY <1>1
      <4>4. M[i].item = m /\ M[j].score = L[j].score /\ (M[i].score = best \/ M[i].score = L[i].score)
        BY <3>3, <4>1, <4>2, <4>3
      <4>5. M[i].score >= M[j].score
        <5>1. L[j].score \in Nat /\ L[j].score <= best
          BY <2>6
        <5> QED BY <4>2, <4>4, <5>1
      <4> QED BY <4>4, <4>5 DEF InFront
    <3>7. Led(M, BetterPairs, TRUE)
      BY <3>4, <3>6 DEF Led
    <3> QED BY <3>2, <3>3, <3>4, <3>5, <3>7
  <2>8. CASE exact \notin Items(L)
    <3>1. PICK z : z = [item |-> exact, score |-> best]
      OBVIOUS
    <3>2. z \in Result /\ z.item = exact /\ z.score = best
      BY <3>1 DEF Result
    <3>3. PICK M : M = Append(L, z)
      OBVIOUS
    <3>4. Boosted(L, d) = M
      BY <1>3, <2>2, <2>4, <2>6, <2>8, <3>1, <3>3 DEF Boosted
    <3>5. IsRanking(M) /\ Longer(M, L, z) /\ \A pairs, up : Led(L, pairs, up) /\ Best(z, pairs) => Led(M, pairs, up)
      <4>1. z.item \notin Items(L)
        BY <2>8, <3>2
      <4> QED BY <3>2, <3>3, <4>1, OneMoreResult
    <3>6. \A i \in 1..Len(M) : M[i].score \in Nat
      <4>1. \A i \in 1..Len(M) : i \in 1..Len(L) \/ i = Len(L) + 1
        BY <1>1, <3>5 DEF Longer
      <4> QED BY <3>2, <3>5, <4>1 DEF Longer
    <3>7. Led(M, BetterPairs, TRUE)
      <4>1. Best(z, BetterPairs)
        BY <2>3, <3>2 DEF Best
      <4> QED BY <3>5, <4>1
    <3> QED BY <3>4, <3>5, <3>6, <3>7
  <2> QED BY <2>7, <2>8
<1> QED BY <1>2, <1>3

--------------------------------------------------------------------------------
(* The order of the answer: the inductive invariant *)

Stages == {"recall", "time", "augment", "rerank", "forget", "weigh", "return", "done"}
SettingType == [mode : {"fused", "vector"}, ranker : {"none", "scores", "passes", "fails"},
                forgets : BOOLEAN, ranges : BOOLEAN, limit : Limits, cap : Caps, threshold : Thresholds]

\* A reranker that passes distances on as if they were relevances
PassesDistances == settings.ranker = "passes" /\ ~Fused
\* After the reranker a greater score is better.
IsRelevance == Fused \/ settings.ranker = "scores"
Judged(L, v) == \A i \in 1..Len(L) : L[i].score = v[L[i].item]
NotNegative(L) == \A i \in 1..Len(L) : L[i].score >= 0
Sized(L) == NotNegative(L) /\ (~Fused => \A i \in 1..Len(L) : L[i].score <= Farthest)

Earlier(L, j) == {L[i].item : i \in 1..(j - 1)}
SameSession(L, j, m) == {c \in Earlier(L, j) : profile[c].session = profile[m].session}
HasItsShare(L, j, m) == settings.cap > 0 /\ Cardinality(SameSession(L, j, m)) >= settings.cap
\* The answer, with what the cap of a session has left out
Answers(L, pairs) ==
    \A j \in 1..Len(L), m \in Candidates :
        <<m, L[j].item>> \in pairs => m \in Earlier(L, j) \/ HasItsShare(L, j, m)

\* What the results are at each stage.
SoundAt(s, L, a, v) ==
    /\ s \in {"time", "augment", "rerank"} => Led(L, LeftOf(BasePairs, a), Fused) /\ Sized(L)
    /\ s = "forget" /\ ~PassesDistances =>
          /\ Led(L, LeftOf(BeatPairs(v), a), IsRelevance)
          /\ IF settings.ranker = "scores" THEN Judged(L, v) ELSE Sized(L)
    /\ s = "weigh" /\ ~PassesDistances =>
          /\ Led(L, LeftOf(BeatPairs(v), a), IsRelevance \/ settings.forgets)
          /\ IF settings.ranker = "scores" /\ ~settings.forgets THEN Judged(L, v) ELSE NotNegative(L)
    /\ s = "return" => /\ Falls(L, Relevant)
                       /\ ~PassesDistances => Ahead(L, LeftOf(BeatPairs(v), a))
    /\ s = "done" => /\ Len(L) <= settings.limit /\ Cardinality(Items(L)) = Len(L)
                     /\ ~PassesDistances => Answers(L, LeftOf(BeatPairs(v), a))

ShapeAt(s, L, a) ==
    /\ profile \in Profiles /\ settings \in SettingType
    /\ s \in Stages /\ IsRanking(L) /\ (s \in {"recall", "time", "augment"} => a = {})

RankInv == ShapeAt(stage, ranking, added) /\ SoundAt(stage, ranking, added, verdicts)

\* A step keeps the invariant if it holds of the new results for the same candidates and settings.
LEMMA RankMoves ==
    ASSUME UNCHANGED <<profile, settings>>, NEW s, NEW L, NEW a, NEW v,
           stage' = s, ranking' = L, added' = a, verdicts' = v, ShapeAt(s, L, a), SoundAt(s, L, a, v)
    PROVE  RankInv'
<1>1. /\ Candidates' = Candidates /\ (Fused' <=> Fused) /\ (PassesDistances' <=> PassesDistances)
      /\ (IsRelevance' <=> IsRelevance) /\ (Relevant' <=> Relevant) /\ profile' = profile /\ settings' = settings
  BY DEF Candidates, Fused, Reranked, Relevant, PassesDistances, IsRelevance
<1>2. BetterPairs' = BetterPairs
  BY <1>1 DEF BetterPairs
<1>3. BasePairs' = BasePairs
  BY <1>1, <1>2 DEF BasePairs
<1>4. BeatPairs(verdicts)' = BeatPairs(v)
  BY <1>1, <1>3 DEF BeatPairs
<1>5. ShapeAt(stage, ranking, added)'
  BY <1>1 DEF ShapeAt, IsRanking, Result, SettingType
<1>6. /\ LeftOf(BasePairs, added)' = LeftOf(BasePairs, a)
      /\ LeftOf(BeatPairs(verdicts), added)' = LeftOf(BeatPairs(v), a)
  BY <1>3, <1>4 DEF LeftOf
<1>7. s \in {"time", "augment", "rerank"} => (Led(ranking, LeftOf(BasePairs, added), Fused) /\ Sized(ranking))'
  BY <1>1, <1>6 DEF SoundAt, Led, InFront, Sized, NotNegative, Farthest
<1>8. s = "forget" /\ ~PassesDistances =>
          (/\ Led(ranking, LeftOf(BeatPairs(verdicts), added), IsRelevance)
           /\ IF settings.ranker = "scores" THEN Judged(ranking, verdicts) ELSE Sized(ranking))'
  BY <1>1, <1>6 DEF SoundAt, Led, InFront, Sized, NotNegative, Farthest, Judged
<1>9. s = "weigh" /\ ~PassesDistances =>
          (/\ Led(ranking, LeftOf(BeatPairs(verdicts), added), IsRelevance \/ settings.forgets)
           /\ IF settings.ranker = "scores" /\ ~settings.forgets THEN Judged(ranking, verdicts) ELSE NotNegative(ranking))'
  BY <1>1, <1>6 DEF SoundAt, Led, InFront, NotNegative, Judged
<1>10. s = "return" => (/\ Falls(ranking, Relevant)
                        /\ ~PassesDistances => Ahead(ranking, LeftOf(BeatPairs(verdicts), added)))'
  BY <1>1, <1>6 DEF SoundAt, Ahead, Falls, InFront
<1>11. s = "done" =>
          (/\ Len(ranking) <= settings.limit /\ Cardinality(Items(ranking)) = Len(ranking)
           /\ ~PassesDistances => Answers(ranking, LeftOf(BeatPairs(verdicts), added)))'
  <2>1. \A j, m : (HasItsShare(ranking, j, m)' <=> HasItsShare(L, j, m)) /\ Earlier(ranking, j)' = Earlier(L, j)
    BY <1>1 DEF HasItsShare, SameSession, Earlier
  <2>2. Answers(ranking, LeftOf(BeatPairs(verdicts), added))' <=> Answers(L, LeftOf(BeatPairs(v), a))
    BY <1>1, <1>6, <2>1 DEF Answers
  <2>3. Items(ranking)' = Items(L)
    BY <1>1 DEF Items
  <2> QED BY <1>1, <2>2, <2>3 DEF SoundAt
<1>12. SoundAt(stage, ranking, added, verdicts)'
  BY <1>1, <1>7, <1>8, <1>9, <1>10, <1>11 DEF SoundAt
<1> QED BY <1>5, <1>12 DEF RankInv

LEMMA PairsAre ==
    ASSUME NEW v, NEW a
    PROVE  /\ BetterPairs \subseteq Candidates \X Candidates /\ BasePairs \subseteq BetterPairs
           /\ BeatPairs(v) \subseteq BasePairs
           /\ LeftOf(BasePairs, a) \subseteq BasePairs /\ LeftOf(BeatPairs(v), a) \subseteq BeatPairs(v)
           /\ LeftOf(BeatPairs(v), a) \subseteq LeftOf(BasePairs, a)
  BY DEF BetterPairs, BasePairs, BeatPairs, LeftOf

\* The pairs of a list that is led keep their order by the new scores.
Keeps(L, s, pairs, old, up) ==
    \A i, j \in 1..Len(L) : <<L[i].item, L[j].item>> \in pairs /\ InFront(L, i, j, old) =>
        IF up THEN s[i] >= s[j] ELSE s[i] <= s[j]
\* Each of the results has its new score.
HasScores(N, L, s) == \A k \in 1..Len(N) : \E i \in 1..Len(L) : N[k].item = L[i].item /\ N[k].score = s[i]

\* The results are sorted by new scores.
LEMMA RescoreLeads ==
    ASSUME NEW L, IsRanking(L), NEW s \in [1..Len(L) -> Int], NEW up \in BOOLEAN, NEW N,
           N = Sorted(Scored(L, s), Worth(Scored(L, s), up))
    PROVE  /\ IsRanking(N) /\ HasScores(N, L, s) /\ Falls(N, up)
           /\ \A pairs, old : Led(L, pairs, old) /\ Keeps(L, s, pairs, old, up) => Led(N, pairs, up)
<1>1. L \in Seq(Result) /\ Len(L) \in Nat
  BY DEF IsRanking
<1>2. PICK M : M = Scored(L, s)
  OBVIOUS
<1>3. /\ IsRanking(M) /\ Len(M) = Len(L)
      /\ \A i \in 1..Len(L) : M[i].item = L[i].item /\ M[i].score = s[i]
  BY <1>2, NewScores
<1>4. /\ IsRanking(N) /\ From(N, M) /\ Falls(N, up)
      /\ \A pairs : Worthy(M, pairs, up) => Led(N, pairs, up)
  <2>1. N = Sorted(M, Worth(M, up))
    BY <1>2
  <2> QED BY <1>3, <2>1, SortedKeeps
<1>5. HasScores(N, L, s)
  <2>1. ASSUME NEW k \in 1..Len(N) PROVE \E i \in 1..Len(L) : N[k].item = L[i].item /\ N[k].score = s[i]
    <3>1. PICK i \in 1..Len(M) : N[k] = M[i]
      BY <1>4 DEF From
    <3> QED BY <1>3, <3>1
  <2> QED BY <2>1 DEF HasScores
<1>6. ASSUME NEW pairs, NEW old, Led(L, pairs, old), Keeps(L, s, pairs, old, up)
      PROVE  Led(N, pairs, up)
  <2>1. ASSUME NEW j \in 1..Len(M), NEW m \in Candidates, <<m, M[j].item>> \in pairs
        PROVE  \E i \in 1..(j - 1) : M[i].item = m /\ InFront(M, i, j, up)
    <3>1. <<m, L[j].item>> \in pairs /\ j \in 1..Len(L)
      BY <1>3, <2>1
    <3>2. PICK i \in 1..(j - 1) : L[i].item = m /\ InFront(L, i, j, old)
      BY <1>6, <3>1 DEF Led
    <3>3. i \in 1..Len(L)
      BY <1>1, <3>1
    <3>4. IF up THEN s[i] >= s[j] ELSE s[i] <= s[j]
      BY <1>6, <3>1, <3>2, <3>3 DEF Keeps
    <3>5. M[i].item = m /\ InFront(M, i, j, up)
      BY <1>3, <3>1, <3>2, <3>3, <3>4 DEF InFront
    <3> QED BY <3>5
  <2>2. Led(M, pairs, up)
    BY <2>1 DEF Led
  <2>3. Worthy(M, pairs, up)
    BY <1>3, <2>2, LedIsWorthy
  <2> QED BY <1>4, <2>3
<1> QED BY <1>4, <1>5, <1>6

\* What is left out of a list that leads leaves it so.
LEMMA TakeLeads ==
    ASSUME NEW l, IsList(l), NEW pairs, Leads(l, pairs), NEW k \in Nat
    PROVE  /\ IsList(Take(l, k)) /\ Leads(Take(l, k), pairs)
           /\ \A i \in 1..Len(Take(l, k)) : \E j \in 1..Len(l) : Take(l, k)[i] = l[j]
<1>1. l \in Seq(Candidates) /\ Len(l) \in Nat
  BY DEF IsList
<1>2. PICK t : t = Take(l, k)
  OBVIOUS
<1>3. t \in Seq(Candidates) /\ Len(t) <= Len(l) /\ \A i \in 1..Len(t) : t[i] = l[i]
  BY <1>1, <1>2, TakeIs
<1>4. \A i \in 1..Len(t) : i \in 1..Len(l) /\ t[i] = l[i]
  BY <1>1, <1>3
<1>5. IsList(t)
  BY <1>3, <1>4 DEF IsList
<1>6. ASSUME NEW j \in 1..Len(t), NEW m \in Candidates, <<m, t[j]>> \in pairs PROVE \E i \in 1..(j - 1) : t[i] = m
  <2>1. PICK i \in 1..(j - 1) : l[i] = m
    BY <1>4, <1>6 DEF Leads
  <2>2. i \in 1..Len(t)
    BY <1>3
  <2> QED BY <1>4, <2>1, <2>2
<1>7. Leads(t, pairs)
  BY <1>6 DEF Leads
<1> QED BY <1>2, <1>4, <1>5, <1>7

\* What is raised, halved or multiplied keeps its order.
LEMMA RaisedAre ==
    ASSUME NEW a \in Nat, NEW b \in Nat, a <= b
    PROVE  /\ (3 * a) \div 2 \in Nat /\ (3 * b) \div 2 \in Nat /\ a <= (3 * a) \div 2 /\ (3 * a) \div 2 <= (3 * b) \div 2
           /\ (2 * a) \div 3 \in Nat /\ (2 * b) \div 3 \in Nat /\ (2 * a) \div 3 <= a /\ (2 * a) \div 3 <= (2 * b) \div 3
  OBVIOUS

LEMMA ProductsAre ==
    ASSUME NEW a \in Nat, NEW b \in Nat, NEW x \in Nat, NEW y \in Nat, a <= b, x <= y
    PROVE  a * x \in Nat /\ b * y \in Nat /\ a * x <= b * y
<1>1. a * x <= b * x
  OBVIOUS
<1>2. b * x <= b * y
  OBVIOUS
<1>3. a * x \in Nat /\ b * x \in Nat /\ b * y \in Nat
  OBVIOUS
<1> QED BY <1>1, <1>2, <1>3

\* Verdicts, with their weights
LEMMA VerdictsAre ==
    ASSUME NEW a \in Int, NEW b \in Int, NEW x \in Nat, NEW y \in Nat, a < b, x <= y, b < 0 => x = y
    PROVE  a * x \in Int /\ b * y \in Int /\ a * x <= b * y
<1>1. CASE b < 0
  <2>1. a * x <= b * x
    BY a <= b
  <2> QED BY <1>1, <2>1
<1>2. CASE b >= 0 /\ a >= 0
  <2>1. a \in Nat /\ b \in Nat /\ a <= b
    BY <1>2
  <2> QED BY <2>1, ProductsAre
<1>3. CASE b >= 0 /\ a < 0
  <2>1. a * x <= 0
    <3>1. PICK c \in Nat : c = -a
      BY <1>3
    <3>2. c * x >= 0 /\ a * x = -(c * x)
      BY <3>1
    <3> QED BY <3>2
  <2>2. b * y >= 0
    BY <1>3
  <2> QED BY <2>1, <2>2
<1> QED BY <1>1, <1>2, <1>3

LEMMA SettingIs ==
    ASSUME settings \in SettingType
    PROVE  /\ settings.limit \in Limits /\ settings.limit \in Nat \ {0} /\ settings.cap \in Nat
           /\ settings.ranker \in {"none", "scores", "passes", "fails"}
           /\ settings.forgets \in BOOLEAN /\ settings.ranges \in BOOLEAN /\ settings.threshold \subseteq Int
           /\ Relevant \in BOOLEAN
           /\ Fused \in BOOLEAN /\ IsRelevance \in BOOLEAN /\ PassesDistances \in BOOLEAN
  BY RankingAssumption DEF SettingType, Fused, Reranked, Relevant, IsRelevance, PassesDistances

LEMMA RankStarts == ASSUME RankInit PROVE RankInv
<1>1. profile \in Profiles /\ settings \in SettingType /\ stage = "recall" /\ ranking = <<>> /\ added = {}
  BY DEF RankInit, SettingType
<1>2. IsRanking(<<>>)
  BY DEF IsRanking
<1>3. ShapeAt(stage, ranking, added)
  BY <1>1, <1>2 DEF ShapeAt, Stages
<1>4. SoundAt(stage, ranking, added, verdicts)
  BY <1>1 DEF SoundAt
<1> QED BY <1>3, <1>4 DEF RankInv

LEMMA FuseKeeps == ASSUME RankInv, RankFuse PROVE RankInv'
<1>1. /\ profile \in Profiles /\ settings \in SettingType /\ Fused /\ added = {}
      /\ UNCHANGED <<profile, settings, added, verdicts>> /\ stage' = "time"
  BY DEF RankInv, ShapeAt, RankFuse, RankGoes
<1>2. settings.limit \in Limits
  BY <1>1, SettingIs
<1>3. PICK v \in Channel("vector"), w \in Channel("words"), e \in Channel("entity") :
          \E list \in RrfFuse(v, w, e, Rescored(Pool(Pool(v, w), e), "overlap"), Rescored(Pool(v, w), "matches")) :
              ranking' = Boosted(list, Rescored(Pool(v, w), "matches"))
  BY DEF RankFuse
<1>4. /\ IsList(v) /\ Leads(v, BetterPairs) /\ IsList(w) /\ Leads(w, BetterPairs)
      /\ IsList(e) /\ Leads(e, BetterPairs)
  <2>1. "vector" \in Channels /\ "words" \in Channels /\ "entity" \in Channels
    BY DEF Channels
  <2> QED BY <1>1, <1>2, <2>1, ChannelLeads
<1> DEFINE Full(s) == \A p \in BetterPairs : p[2] \in s => p[1] \in s
<1>5. Full(Range(v)) /\ Full(Range(w)) /\ Full(Range(e))
  <2>1. BetterPairs \in SUBSET (Candidates \X Candidates)
    BY PairsAre
  <2>2. Full(Range(v))
    BY <1>4, <2>1, LeadsHas
  <2>3. Full(Range(w))
    BY <1>4, <2>1, LeadsHas
  <2>4. Full(Range(e))
    BY <1>4, <2>1, LeadsHas
  <2> QED BY <2>2, <2>3, <2>4
<1>6. PICK p : p = Pool(v, w)
  OBVIOUS
<1>7. IsList(p) /\ Full(Range(p))
  <2>1. IsList(p) /\ Range(p) = Range(v) \cup Range(w)
    BY <1>4, <1>6, PoolIs
  <2> QED BY <1>5, <2>1
<1>8. PICK q : q = Pool(p, e)
  OBVIOUS
<1>9. IsList(q) /\ Full(Range(q))
  <2>1. IsList(q) /\ Range(q) = Range(p) \cup Range(e)
    BY <1>4, <1>7, <1>8, PoolIs
  <2> QED BY <1>5, <1>7, <2>1
<1>10. PICK d, o : d = Rescored(p, "matches") /\ o = Rescored(q, "overlap")
  OBVIOUS
<1>11. IsList(d) /\ Leads(d, BetterPairs) /\ IsList(o) /\ Leads(o, BetterPairs)
  <2>1. "matches" \in Channels /\ "overlap" \in Channels
    BY DEF Channels
  <2> QED BY <1>1, <1>7, <1>9, <1>10, <2>1, RescoredLeads
<1>12. PICK list \in RrfFuse(v, w, e, o, d) : ranking' = Boosted(list, d)
  BY <1>3, <1>6, <1>8, <1>10
<1>13. IsRanking(list) /\ Led(list, BetterPairs, TRUE) /\ \A i \in 1..Len(list) : list[i].score \in Nat
  <2> HIDE DEF Full
  <2> QED BY <1>1, <1>2, <1>4, <1>11, FuseLeads
<1>14. PICK L : L = ranking'
  OBVIOUS
<1>15. IsRanking(L) /\ Led(L, BetterPairs, TRUE) /\ \A i \in 1..Len(L) : L[i].score \in Nat
  <2>1. L = Boosted(list, d)
    BY <1>12, <1>14
  <2> HIDE DEF Full
  <2> QED BY <1>1, <1>11, <1>13, <2>1, BoostLeads
<1>16. Led(L, LeftOf(BasePairs, added), Fused)
  <2>1. LeftOf(BasePairs, added) \in SUBSET BetterPairs
    BY PairsAre
  <2>2. Led(L, LeftOf(BasePairs, added), TRUE)
    BY <1>15, <2>1, FewerPairs
  <2> QED BY <1>1, <2>2 DEF Led, InFront
<1>17. Sized(L)
  <2>1. \A i \in 1..Len(L) : L[i].score >= 0
    BY <1>15
  <2> QED BY <1>1, <2>1 DEF Sized, NotNegative
<1>18. ShapeAt("time", L, added) /\ SoundAt("time", L, added, verdicts)
  BY <1>1, <1>15, <1>16, <1>17 DEF ShapeAt, SoundAt, Stages
<1> QED BY <1>1, <1>14, <1>18, RankMoves

LEMMA PartIsSized ==
    ASSUME NEW L, NEW M, From(L, M), Sized(M)
    PROVE  Sized(L)
  BY DEF From, Sized, NotNegative

LEMMA VectorsKeep == ASSUME RankInv, RankVectors PROVE RankInv'
<1>1. /\ profile \in Profiles /\ settings \in SettingType /\ ~Fused /\ added = {}
      /\ UNCHANGED <<profile, settings, added, verdicts>> /\ stage' = "time"
  BY DEF RankInv, ShapeAt, RankVectors, RankGoes
<1>2. settings.limit \in Limits /\ settings.threshold \subseteq Int
  BY <1>1, SettingIs
<1>3. PICK k \in Nat : k = settings.limit * Mult
  BY <1>2, SettingsAre
<1>4. PICK l \in Channel("vector") :
          LET rows == [i \in DOMAIN Take(l, k) |-> [item |-> Take(l, k)[i],
                                                    score |-> 3 * (4 - profile[Take(l, k)[i]].vector)]]
          IN  ranking' = Retained(rows, {i \in DOMAIN rows : \A t \in settings.threshold : rows[i].score <= t})
  BY <1>3 DEF RankVectors
<1>5. IsList(l) /\ Leads(l, BetterPairs) /\ \A j \in 1..Len(l) : profile[l[j]]["vector"] > 0
  BY <1>1, <1>2, ChannelLeads
<1>6. PICK t : t = Take(l, k)
  OBVIOUS
<1>7. IsList(t) /\ Leads(t, BetterPairs) /\ \A j \in 1..Len(t) : profile[t[j]]["vector"] > 0
  <2>1. IsList(t) /\ Leads(t, BetterPairs) /\ \A i \in 1..Len(t) : \E j \in 1..Len(l) : t[i] = l[j]
    BY <1>5, <1>6, TakeLeads
  <2> QED BY <1>5, <2>1
<1>8. t \in Seq(Candidates) /\ DOMAIN t = 1..Len(t) /\ Len(t) \in Nat
  BY <1>7 DEF IsList
<1>9. PICK N : N = ranking'
  OBVIOUS
<1>10. PICK L : L = [i \in 1..Len(t) |-> [item |-> t[i], score |-> 3 * (4 - profile[t[i]].vector)]]
  OBVIOUS
<1>a. PICK places : places = {i \in DOMAIN L : \A x \in settings.threshold : L[i].score <= x}
  OBVIOUS
<1>b. N = Retained(L, places)
  BY <1>4, <1>6, <1>8, <1>9, <1>10, <1>a
<1>11. ASSUME NEW i \in 1..Len(t)
       PROVE  /\ L[i] \in Result /\ L[i].item = t[i] /\ L[i].score = 3 * (4 - profile[t[i]].vector)
              /\ profile[t[i]].vector \in 1..4 /\ 0 <= L[i].score /\ L[i].score <= 12
  <2>1. t[i] \in Candidates
    BY <1>8
  <2>2. profile[t[i]].vector \in 0..4 /\ profile[t[i]].vector > 0
    BY <1>1, <1>7, <2>1, ProfileIs
  <2>3. PICK x \in 1..4 : x = profile[t[i]].vector
    BY <2>2
  <2>4. L[i] = [item |-> t[i], score |-> 3 * (4 - x)]
    BY <1>10, <2>3
  <2>5. 3 * (4 - x) \in Int /\ 0 <= 3 * (4 - x) /\ 3 * (4 - x) <= 12
    BY <2>3
  <2> QED BY <2>1, <2>3, <2>4, <2>5, SMTT(30) DEF Result
<1>12. L \in Seq(Result) /\ Len(L) = Len(t)
  BY <1>8, <1>10, <1>11
<1>13. IsRanking(L)
  BY <1>7, <1>11, <1>12 DEF IsRanking, IsList
<1>14. ASSUME NEW j \in 1..Len(L), NEW m \in Candidates, <<m, L[j].item>> \in BetterPairs
       PROVE  \E i \in 1..(j - 1) : L[i].item = m /\ InFront(L, i, j, FALSE)
  <2>1. j \in 1..Len(t) /\ L[j].item = t[j]
    BY <1>11, <1>12
  <2>2. PICK i \in 1..(j - 1) : t[i] = m
    BY <1>7, <1>14, <2>1 DEF Leads
  <2>3. i \in 1..Len(t)
    BY <1>8, <2>1
  <2>4. profile[t[j]]["vector"] > 0 => profile[m]["vector"] > profile[t[j]]["vector"]
    BY <1>1, <1>14, <2>1 DEF BetterPairs
  <2>5. PICK x \in 1..4, y \in 1..4 : x = profile[t[i]].vector /\ y = profile[t[j]].vector
    BY <1>11, <2>1, <2>3
  <2>6. x > y
    BY <2>2, <2>4, <2>5
  <2>7. L[i].score = 3 * (4 - x) /\ L[j].score = 3 * (4 - y) /\ L[i].item = m
    BY <1>11, <2>1, <2>2, <2>3, <2>5
  <2>8. L[i].score <= L[j].score
    BY <2>6, <2>7
  <2> QED BY <2>7, <2>8 DEF InFront
<1>15. places \in SUBSET (1..Len(L)) /\ CutsLast(L, places, FALSE)
  <2>1. ASSUME NEW i \in 1..Len(L), NEW j \in places, InFront(L, i, j, FALSE) PROVE i \in places
    <3>1. j \in 1..Len(L) /\ \A x \in settings.threshold : L[j].score <= x
      BY <1>8, <1>10, <1>12, <1>a
    <3>2. PICK a \in Int, b \in Int : a = L[i].score /\ b = L[j].score
      BY <1>12, <3>1, ResultIs
    <3>3. a <= b
      BY <2>1, <3>2 DEF InFront
    <3>4. ASSUME NEW x \in settings.threshold PROVE a <= x
      <4>1. x \in Int /\ b <= x
        BY <1>2, <3>1, <3>2
      <4> QED BY <3>3, <4>1
    <3> QED BY <1>8, <1>10, <1>12, <1>a, <3>2, <3>4
  <2>2. places \in SUBSET (1..Len(L))
    BY <1>8, <1>10, <1>12, <1>a
  <2> QED BY <2>1, <2>2 DEF CutsLast
<1>16. IsRanking(N) /\ From(N, L)
  BY <1>13, <1>15, <1>b, RetainedIs
<1>17. Led(N, LeftOf(BasePairs, added), Fused)
  <2>1. LeftOf(BasePairs, added) \in SUBSET BetterPairs
    BY PairsAre
  <2>2. Led(L, BetterPairs, FALSE)
    BY <1>14 DEF Led
  <2>3. Led(L, LeftOf(BasePairs, added), FALSE)
    BY <2>1, <2>2, FewerPairs
  <2>4. Led(N, LeftOf(BasePairs, added), FALSE)
    BY <1>13, <1>15, <1>b, <2>3, CutLeads
  <2> QED BY <1>1, <2>4 DEF Led, InFront
<1>18. Sized(N)
  <2>1. Sized(L)
    BY <1>11, <1>12 DEF Sized, NotNegative, Farthest
  <2> QED BY <1>16, <2>1, PartIsSized
<1>19. ShapeAt("time", N, added) /\ SoundAt("time", N, added, verdicts)
  BY <1>1, <1>16, <1>17, <1>18 DEF ShapeAt, SoundAt, Stages
<1> QED BY <1>1, <1>9, <1>19, RankMoves

LEMMA TimeKeeps == ASSUME RankInv, RankTime PROVE RankInv'
<1>1. /\ profile \in Profiles /\ settings \in SettingType /\ IsRanking(ranking) /\ added = {}
      /\ UNCHANGED <<profile, settings, added, verdicts>> /\ stage' = "augment" /\ stage = "time"
  BY DEF RankInv, ShapeAt, RankTime, RankGoes
<1>2. Led(ranking, LeftOf(BasePairs, added), Fused) /\ Sized(ranking)
  BY <1>1 DEF RankInv, SoundAt
<1>3. PICK L : L = ranking'
  OBVIOUS
<1>4. Fused \in BOOLEAN
  BY <1>1, SettingIs
<1>5. IsRanking(L) /\ Led(L, LeftOf(BasePairs, added), Fused) /\ Sized(L)
  <2>1. CASE ~settings.ranges
    BY <1>1, <1>2, <1>3, <2>1 DEF RankTime
  <2>2. CASE settings.ranges
    <3>1. PICK n \in Nat : n = Len(ranking) /\ DOMAIN ranking = 1..n /\ ranking \in Seq(Result)
      BY <1>1 DEF IsRanking
    <3>2. PICK s : s = [i \in 1..n |-> IF ~profile[ranking[i].item].timely THEN ranking[i].score
                                       ELSE IF Fused THEN (3 * ranking[i].score) \div 2
                                       ELSE (2 * ranking[i].score) \div 3]
      OBVIOUS
    <3>3. ASSUME NEW i \in 1..n
          PROVE  /\ ranking[i].item \in Candidates /\ ranking[i].score \in Nat
                 /\ ~Fused => ranking[i].score <= Farthest
                 /\ s[i] \in Nat /\ (~Fused => s[i] <= Farthest)
      <4>1. ranking[i].item \in Candidates /\ ranking[i].score \in Int /\ ranking[i].score >= 0
        BY <1>2, <3>1, ResultIs DEF Sized, NotNegative
      <4>2. ~Fused => ranking[i].score <= Farthest
        BY <1>2, <3>1 DEF Sized
      <4>3. PICK a \in Nat : a = ranking[i].score
        BY <4>1
      <4>4. (3 * a) \div 2 \in Nat /\ (2 * a) \div 3 \in Nat /\ (2 * a) \div 3 <= a
        BY RaisedAre
      <4>5. s[i] = IF ~profile[ranking[i].item].timely THEN a ELSE IF Fused THEN (3 * a) \div 2 ELSE (2 * a) \div 3
        BY <3>2, <4>3
      <4>6. s[i] \in Nat
        BY <4>3, <4>4, <4>5
      <4>7. ~Fused => s[i] <= Farthest
        BY <4>2, <4>3, <4>4, <4>5 DEF Farthest
      <4> QED BY <4>1, <4>2, <4>3, <4>6, <4>7
    <3>4. PICK M : M = Scored(ranking, s)
      OBVIOUS
    <3>5. L = Sorted(M, Worth(M, Fused))
      <4>1. M = [i \in DOMAIN ranking |->
                    [ranking[i] EXCEPT !.score = IF ~profile[ranking[i].item].timely THEN ranking[i].score
                                                 ELSE IF Fused THEN (3 * ranking[i].score) \div 2
                                                 ELSE (2 * ranking[i].score) \div 3]]
        BY <3>1, <3>2, <3>4 DEF Scored
      <4>2. L = IF Fused THEN Sorted(M, Relevances(M)) ELSE Sorted(M, Nearnesses(M))
        BY <1>3, <2>2, <4>1 DEF RankTime
      <4> QED BY <4>2 DEF Worth
    <3>6. s \in [1..Len(ranking) -> Int]
      BY <3>1, <3>2, <3>3
    <3>7. /\ IsRanking(L) /\ HasScores(L, ranking, s)
          /\ \A pairs, old : Led(ranking, pairs, old) /\ Keeps(ranking, s, pairs, old, Fused) => Led(L, pairs, Fused)
      <4>1. L = Sorted(Scored(ranking, s), Worth(Scored(ranking, s), Fused))
        BY <3>4, <3>5
      <4> QED BY <1>1, <1>4, <3>6, <4>1, RescoreLeads
    <3>8. Sized(L)
      <4>1. ASSUME NEW k \in 1..Len(L) PROVE L[k].score >= 0 /\ (~Fused => L[k].score <= Farthest)
        <5>a. HasScores(L, ranking, s)
          BY <3>7
        <5>b. PICK i \in 1..Len(ranking) : L[k].score = s[i]
          BY <5>a DEF HasScores
        <5>1. i \in 1..n
          BY <3>1
        <5> QED BY <3>3, <5>b, <5>1
      <4> QED BY <4>1 DEF Sized, NotNegative
    <3>9. ASSUME NEW i \in 1..n, NEW j \in 1..n,
                 <<ranking[i].item, ranking[j].item>> \in LeftOf(BasePairs, added), InFront(ranking, i, j, Fused)
          PROVE  IF Fused THEN s[i] >= s[j] ELSE s[i] <= s[j]
      <4>1. PICK a \in Nat, b \in Nat : a = ranking[i].score /\ b = ranking[j].score
        BY <3>3
      <4>2. PICK x \in BOOLEAN, y \in BOOLEAN :
                x = profile[ranking[i].item].timely /\ y = profile[ranking[j].item].timely
        BY <1>1, <3>3, ProfileIs
      <4>3. y => x
        BY <2>2, <3>9, <4>2 DEF LeftOf, BasePairs
      <4>4. /\ s[i] = IF ~x THEN a ELSE IF Fused THEN (3 * a) \div 2 ELSE (2 * a) \div 3
            /\ s[j] = IF ~y THEN b ELSE IF Fused THEN (3 * b) \div 2 ELSE (2 * b) \div 3
        BY <3>2, <4>1, <4>2
      <4>5. CASE Fused
        <5>1. b <= a
          BY <3>9, <4>1, <4>5 DEF InFront
        <5>2. a <= (3 * a) \div 2 /\ (3 * b) \div 2 <= (3 * a) \div 2 /\ (3 * a) \div 2 \in Nat /\ (3 * b) \div 2 \in Nat
          BY <5>1, RaisedAre
        <5> QED BY <4>3, <4>4, <4>5, <5>1, <5>2
      <4>6. CASE ~Fused
        <5>1. a <= b
          BY <3>9, <4>1, <4>6 DEF InFront
        <5>2. (2 * a) \div 3 <= a /\ (2 * a) \div 3 <= (2 * b) \div 3 /\ (2 * a) \div 3 \in Nat /\ (2 * b) \div 3 \in Nat
          BY <5>1, RaisedAre
        <5> QED BY <4>3, <4>4, <4>6, <5>1, <5>2
      <4> QED BY <4>5, <4>6
    <3>10. Led(L, LeftOf(BasePairs, added), Fused)
      <4>1. Keeps(ranking, s, LeftOf(BasePairs, added), Fused, Fused)
        BY <3>1, <3>9 DEF Keeps
      <4> QED BY <1>2, <3>7, <4>1
    <3> QED BY <3>7, <3>8, <3>10
  <2> QED BY <2>1, <2>2
<1>6. ShapeAt("augment", L, added) /\ SoundAt("augment", L, added, verdicts)
  BY <1>1, <1>5 DEF ShapeAt, SoundAt, Stages
<1> QED BY <1>1, <1>3, <1>6, RankMoves

LEMMA AugmentKeeps == ASSUME RankInv, RankAugment PROVE RankInv'
<1>1. /\ profile \in Profiles /\ settings \in SettingType /\ IsRanking(ranking) /\ added = {}
      /\ UNCHANGED <<profile, settings, verdicts>> /\ stage' = "rerank" /\ stage = "augment"
  BY DEF RankInv, ShapeAt, RankAugment, RankGoes
<1>2. Led(ranking, LeftOf(BasePairs, added), Fused) /\ Sized(ranking)
  BY <1>1 DEF RankInv, SoundAt
<1>3. PICK L, a : L = ranking' /\ a = added'
  OBVIOUS
<1>4. IsRanking(L) /\ Led(L, LeftOf(BasePairs, a), Fused) /\ Sized(L)
  <2>1. CASE UNCHANGED <<ranking, added>>
    BY <1>1, <1>2, <1>3, <2>1
  <2>2. CASE ~UNCHANGED <<ranking, added>>
    <3>1. Fused /\ \E c \in Candidates \ Items(ranking), distance \in {0, 2 * One} :
             L = Append(ranking, [item |-> c, score |-> distance]) /\ a = {c}
      BY <1>3, <2>2 DEF RankAugment
    <3>2. PICK c \in Candidates \ Items(ranking), distance \in {0, 2 * One} :
             L = Append(ranking, [item |-> c, score |-> distance]) /\ a = {c}
      BY <3>1
    <3>3. distance \in Nat
      <4>1. One \in Nat
        BY <1>1, ProfileIs DEF One
      <4> QED BY <4>1
    <3>4. PICK z : z = [item |-> c, score |-> distance]
      OBVIOUS
    <3>5. z \in Result /\ z.item = c /\ z.score \in Nat
      BY <3>3, <3>4 DEF Result
    <3>6. /\ IsRanking(L) /\ Longer(L, ranking, z)
          /\ \A pairs, up : Led(ranking, pairs, up) /\ Best(z, pairs) => Led(L, pairs, up)
      <4>1. z.item \notin Items(ranking) /\ L = Append(ranking, z)
        BY <3>2, <3>4, <3>5
      <4> QED BY <1>1, <3>5, <4>1, OneMoreResult
    <3>7. LeftOf(BasePairs, a) \in SUBSET LeftOf(BasePairs, added)
      BY <1>1 DEF LeftOf
    <3>8. Best(z, LeftOf(BasePairs, a))
      BY <3>2, <3>5 DEF LeftOf, Best
    <3>9. Led(ranking, LeftOf(BasePairs, a), Fused)
      BY <1>2, <3>7, FewerPairs
    <3>10. Led(L, LeftOf(BasePairs, a), Fused)
      BY <3>6, <3>8, <3>9
    <3>11. \A i \in 1..Len(L) : L[i].score >= 0
      <4>1. Len(ranking) \in Nat
        BY <1>1 DEF IsRanking
      <4>2. \A i \in 1..Len(L) : i \in 1..Len(ranking) \/ i = Len(ranking) + 1
        BY <3>6, <4>1 DEF Longer
      <4>3. z.score >= 0 /\ \A i \in 1..Len(ranking) : ranking[i].score >= 0
        BY <1>2, <3>5 DEF Sized, NotNegative
      <4> QED BY <3>6, <4>2, <4>3 DEF Longer
    <3>12. Sized(L)
      BY <3>1, <3>11 DEF Sized, NotNegative
    <3> QED BY <3>6, <3>10, <3>12
  <2> QED BY <2>1, <2>2
<1>5. ShapeAt("rerank", L, a) /\ SoundAt("rerank", L, a, verdicts)
  BY <1>1, <1>4 DEF ShapeAt, SoundAt, Stages
<1> QED BY <1>1, <1>3, <1>5, RankMoves

LEMMA RerankKeeps == ASSUME RankInv, Rerank PROVE RankInv'
<1>1. /\ profile \in Profiles /\ settings \in SettingType /\ IsRanking(ranking)
      /\ UNCHANGED <<profile, settings, added>> /\ stage' = "forget" /\ stage = "rerank"
  BY DEF RankInv, ShapeAt, Rerank, RankGoes
<1>2. Led(ranking, LeftOf(BasePairs, added), Fused) /\ Sized(ranking)
  BY <1>1 DEF RankInv, SoundAt
<1>3. PICK L, v : L = ranking' /\ v = verdicts'
  OBVIOUS
<1>4. settings.limit \in Nat /\ settings.ranker \in {"none", "scores", "passes", "fails"} /\ Fused \in BOOLEAN
  BY <1>1, SettingIs
<1> DEFINE pairs == LeftOf(BeatPairs(v), added)
<1>5. pairs \in SUBSET LeftOf(BasePairs, added)
  BY PairsAre
<1>6. Led(ranking, pairs, Fused)
  BY <1>2, <1>5, FewerPairs
<1>7. CASE settings.ranker # "scores"
  <2>1. L = ranking \/ L = Take(ranking, settings.limit)
    BY <1>3, <1>4, <1>7 DEF Rerank
  <2>2. IsRanking(L) /\ Led(L, pairs, Fused) /\ Sized(L)
    <3>1. CASE L = ranking
      BY <1>1, <1>2, <1>6, <3>1
    <3>2. CASE L = Take(ranking, settings.limit)
      <4>1. IsRanking(L) /\ From(L, ranking) /\ Led(L, pairs, Fused)
        BY <1>1, <1>4, <1>6, <3>2, TakeKeeps
      <4>2. Sized(L)
        BY <1>2, <4>1, PartIsSized
      <4> QED BY <4>1, <4>2
    <3> QED BY <2>1, <3>1, <3>2
  <2>3. Led(L, pairs, IsRelevance)
    BY <1>7, <2>2 DEF IsRelevance, Led, InFront
  <2> HIDE DEF pairs
  <2>4. ShapeAt("forget", L, added)
    BY <1>1, <2>2 DEF ShapeAt, Stages
  <2>5. SoundAt("forget", L, added, v)
    BY <1>7, <2>2, <2>3 DEF SoundAt, pairs
  <2> QED BY <1>1, <1>3, <2>4, <2>5, RankMoves
<1>8. CASE settings.ranker = "scores"
  <2>1. PICK n \in Nat : n = Len(ranking) /\ DOMAIN ranking = 1..n /\ ranking \in Seq(Result)
    BY <1>1 DEF IsRanking
  <2>2. PICK u \in Injection(Items(ranking), Verdicts) :
            /\ v = [c \in Candidates |-> IF c \in Items(ranking) THEN u[c] ELSE 0]
            /\ L = LET judged == [i \in DOMAIN ranking |-> [ranking[i] EXCEPT !.score = u[ranking[i].item]]]
                   IN  Take(Sorted(judged, Relevances(judged)), settings.limit)
    BY <1>3, <1>8 DEF Rerank
  <2>3. PICK s : s = [i \in 1..n |-> u[ranking[i].item]]
    OBVIOUS
  <2>4. ASSUME NEW i \in 1..n PROVE ranking[i].item \in Candidates /\ s[i] \in Int /\ s[i] = v[ranking[i].item]
    <3>1. ranking[i].item \in Candidates /\ ranking[i].item \in Items(ranking)
      BY <2>1, ResultIs DEF Items
    <3>2. u[ranking[i].item] \in Verdicts
      BY <3>1 DEF Injection
    <3>3. u[ranking[i].item] \in Int
      BY <3>2, RankingAssumption
    <3> QED BY <2>2, <2>3, <3>1, <3>3
  <2>5. PICK M : M = Scored(ranking, s)
    OBVIOUS
  <2>6. M = [i \in DOMAIN ranking |-> [ranking[i] EXCEPT !.score = u[ranking[i].item]]]
    BY <2>1, <2>3, <2>5 DEF Scored
  <2>7. PICK N : N = Sorted(M, Worth(M, TRUE))
    OBVIOUS
  <2>8. L = Take(N, settings.limit)
    BY <2>2, <2>6, <2>7 DEF Worth
  <2>9. s \in [1..Len(ranking) -> Int]
    BY <2>1, <2>3, <2>4
  <2>10. /\ IsRanking(M) /\ Len(M) = n
         /\ \A i \in 1..n : M[i].item = ranking[i].item /\ M[i].score = s[i]
    <3>1. /\ IsRanking(M) /\ Len(M) = Len(ranking)
          /\ \A i \in 1..Len(ranking) : M[i].item = ranking[i].item /\ M[i].score = s[i]
      BY <1>1, <2>5, <2>9, NewScores
    <3> QED BY <2>1, <3>1
  <2>11. Worthy(M, pairs, TRUE)
    <3> SUFFICES ASSUME NEW j \in 1..n, NEW m \in Candidates, <<m, M[j].item>> \in pairs
                 PROVE  \E i \in 1..n : M[i].item = m /\ Worthier(M, i, j, TRUE)
      BY <2>10 DEF Worthy
    <3>1. <<m, ranking[j].item>> \in pairs /\ M[j].score = v[ranking[j].item] /\ M[j].score \in Int
      BY <2>4, <2>10
    <3>2. PICK i \in 1..(j - 1) : ranking[i].item = m
      BY <1>6, <2>1, <3>1 DEF Led
    <3>3. i \in 1..n
      BY <2>1
    <3>4. M[i].item = m /\ M[i].score = v[m] /\ M[i].score \in Int
      BY <2>4, <2>10, <3>2, <3>3
    <3>5. v[m] > v[ranking[j].item]
      BY <1>8, <3>1 DEF LeftOf, BeatPairs
    <3> QED BY <3>1, <3>3, <3>4, <3>5 DEF Worthier
  <2>12. IsRanking(N) /\ From(N, M) /\ Led(N, pairs, TRUE)
    BY <2>7, <2>10, <2>11, SortedKeeps
  <2>13. IsRanking(L) /\ From(L, N) /\ Led(L, pairs, TRUE)
    BY <1>4, <2>8, <2>12, TakeKeeps
  <2>14. Judged(L, v)
    <3>1. ASSUME NEW i \in 1..Len(L) PROVE L[i].score = v[L[i].item]
      <4>1. PICK k \in 1..Len(N) : L[i] = N[k]
        BY <2>13 DEF From
      <4>2. PICK j \in 1..n : N[k] = M[j]
        BY <2>10, <2>12 DEF From
      <4> QED BY <2>4, <2>10, <4>1, <4>2
    <3> QED BY <3>1 DEF Judged
  <2>15. Led(L, pairs, IsRelevance)
    BY <1>8, <2>13 DEF IsRelevance, Led, InFront
  <2> HIDE DEF pairs
  <2>16. ShapeAt("forget", L, added)
    BY <1>1, <2>13 DEF ShapeAt, Stages
  <2>17. SoundAt("forget", L, added, v)
    BY <1>8, <2>14, <2>15 DEF SoundAt, pairs
  <2> QED BY <1>1, <1>3, <2>16, <2>17, RankMoves
<1> QED BY <1>7, <1>8

LEMMA ForgetKeeps == ASSUME RankInv, RankForget PROVE RankInv'
<1>1. /\ profile \in Profiles /\ settings \in SettingType /\ IsRanking(ranking)
      /\ UNCHANGED <<profile, settings, added, verdicts>> /\ stage' = "weigh" /\ stage = "forget"
  BY DEF RankInv, ShapeAt, RankForget, RankGoes
<1> DEFINE pairs == LeftOf(BeatPairs(verdicts), added)
<1>2. ~PassesDistances => /\ Led(ranking, pairs, IsRelevance)
                          /\ IF settings.ranker = "scores" THEN Judged(ranking, verdicts) ELSE Sized(ranking)
  BY <1>1 DEF RankInv, SoundAt
<1>3. PICK L : L = ranking'
  OBVIOUS
<1>4. /\ settings.ranker \in {"none", "scores", "passes", "fails"} /\ settings.forgets \in BOOLEAN
      /\ Fused \in BOOLEAN /\ IsRelevance \in BOOLEAN /\ PassesDistances \in BOOLEAN
  BY <1>1, SettingIs
<1>5. CASE ~settings.forgets
  <2>1. L = ranking
    BY <1>3, <1>5 DEF RankForget
  <2>2. ~PassesDistances => Led(L, pairs, IsRelevance \/ settings.forgets)
    BY <1>2, <1>5, <2>1 DEF Led, InFront
  <2>3. ~PassesDistances => IF settings.ranker = "scores" THEN Judged(L, verdicts) ELSE NotNegative(L)
    BY <1>2, <2>1 DEF Sized
  <2> HIDE DEF pairs
  <2>4. ShapeAt("weigh", L, added)
    BY <1>1, <2>1 DEF ShapeAt, Stages
  <2>5. SoundAt("weigh", L, added, verdicts)
    BY <1>5, <2>2, <2>3 DEF SoundAt, pairs
  <2> QED BY <1>1, <1>3, <2>4, <2>5, RankMoves
<1>6. CASE settings.forgets
  <2>1. PICK n \in Nat : n = Len(ranking) /\ DOMAIN ranking = 1..n /\ ranking \in Seq(Result)
    BY <1>1 DEF IsRanking
  <2>2. PICK near : near = [i \in 1..n |-> IF ~(Fused \/ Reranked) THEN Farthest - ranking[i].score
                                           ELSE IF ranking[i].score > 0 THEN ranking[i].score ELSE 0]
    OBVIOUS
  <2>3. PICK s : s = [i \in 1..n |-> profile[ranking[i].item].fade * near[i]]
    OBVIOUS
  <2>4. ASSUME NEW i \in 1..n
        PROVE  /\ ranking[i].item \in Candidates /\ ranking[i].score \in Int /\ near[i] \in Int
               /\ profile[ranking[i].item].fade \in Nat /\ s[i] \in Int
               /\ ~PassesDistances => near[i] \in Nat
    <3>1. ranking[i].item \in Candidates /\ ranking[i].score \in Int
      BY <2>1, ResultIs
    <3>2. profile[ranking[i].item].fade \in Nat
      BY <1>1, <3>1, ProfileIs
    <3>3. near[i] \in Int
      BY <2>2, <3>1 DEF Farthest
    <3>4. s[i] \in Int
      BY <2>3, <3>2, <3>3
    <3>5. ASSUME ~PassesDistances PROVE near[i] \in Nat
      <4>1. CASE Fused \/ Reranked
        BY <2>2, <3>1, <4>1
      <4>2. CASE ~(Fused \/ Reranked)
        <5>1. settings.ranker # "scores" /\ ~Fused
          BY <4>2 DEF Reranked
        <5>2. ranking[i].score <= Farthest
          BY <1>2, <2>1, <3>5, <5>1 DEF Sized
        <5> QED BY <2>2, <3>1, <4>2, <5>2 DEF Farthest
      <4> QED BY <4>1, <4>2
    <3> QED BY <3>1, <3>2, <3>3, <3>4, <3>5
  <2>5. PICK M : M = Scored(ranking, s)
    OBVIOUS
  <2>6. L = Sorted(M, Worth(M, TRUE))
    <3>1. M = [i \in DOMAIN ranking |->
                  [ranking[i] EXCEPT !.score = profile[ranking[i].item].fade *
                      (IF ~(Fused \/ Reranked) THEN Farthest - ranking[i].score
                       ELSE IF ranking[i].score > 0 THEN ranking[i].score ELSE 0)]]
      BY <2>1, <2>2, <2>3, <2>5 DEF Scored
    <3>2. L = Sorted(M, Relevances(M))
      BY <1>3, <1>6, <3>1 DEF RankForget
    <3> QED BY <3>2 DEF Worth
  <2>7. s \in [1..Len(ranking) -> Int]
    BY <2>1, <2>3, <2>4
  <2>8. /\ IsRanking(L) /\ HasScores(L, ranking, s)
        /\ \A some, old : Led(ranking, some, old) /\ Keeps(ranking, s, some, old, TRUE) => Led(L, some, TRUE)
    <3>1. L = Sorted(Scored(ranking, s), Worth(Scored(ranking, s), TRUE))
      BY <2>5, <2>6
    <3> QED BY <1>1, <2>7, <3>1, RescoreLeads
  <2>9. ASSUME ~PassesDistances PROVE Led(L, pairs, TRUE) /\ NotNegative(L)
    <3>1. ASSUME NEW i \in 1..n, NEW j \in 1..n,
                 <<ranking[i].item, ranking[j].item>> \in pairs, InFront(ranking, i, j, IsRelevance)
          PROVE  s[i] >= s[j]
      <4>1. PICK f \in Nat, g \in Nat : f = profile[ranking[i].item].fade /\ g = profile[ranking[j].item].fade
        BY <2>4
      <4>2. g <= f
        BY <3>1, <4>1 DEF LeftOf, BeatPairs, BasePairs
      <4>3. PICK x \in Nat, y \in Nat : x = near[i] /\ y = near[j]
        BY <2>4, <2>9
      <4>4. y <= x
        <5>1. PICK a \in Int, b \in Int : a = ranking[i].score /\ b = ranking[j].score
          BY <2>4
        <5>2. CASE Fused \/ Reranked
          <6>1. IsRelevance
            BY <1>4, <2>9, <5>2 DEF Reranked, IsRelevance, PassesDistances
          <6>2. b <= a
            BY <3>1, <5>1, <6>1 DEF InFront
          <6> QED BY <2>2, <4>3, <5>1, <5>2, <6>2
        <5>3. CASE ~(Fused \/ Reranked)
          <6>1. ~IsRelevance
            BY <5>3 DEF Reranked, IsRelevance
          <6>2. a <= b
            BY <3>1, <5>1, <6>1 DEF InFront
          <6>3. x = Farthest - a /\ y = Farthest - b
            BY <2>2, <4>3, <5>1, <5>3
          <6> QED BY <5>1, <6>2, <6>3 DEF Farthest
        <5> QED BY <5>2, <5>3
      <4>5. g * y <= f * x /\ s[i] = f * x /\ s[j] = g * y
        BY <2>3, <4>1, <4>2, <4>3, <4>4, ProductsAre
      <4>6. f * x \in Int /\ g * y \in Int
        OBVIOUS
      <4> QED BY <4>5, <4>6
    <3>2. Led(L, pairs, TRUE)
      <4>1. Keeps(ranking, s, pairs, IsRelevance, TRUE)
        BY <2>1, <3>1 DEF Keeps
      <4> HIDE DEF pairs
      <4> QED BY <1>2, <2>8, <2>9, <4>1
    <3>3. \A i \in 1..n : s[i] >= 0
      <4>1. ASSUME NEW i \in 1..n PROVE s[i] >= 0
        <5>1. PICK f \in Nat, x \in Nat : f = profile[ranking[i].item].fade /\ x = near[i]
          BY <2>4, <2>9
        <5>2. f * x >= 0 /\ s[i] = f * x
          BY <2>3, <5>1
        <5> QED BY <5>2
      <4> QED BY <4>1
    <3>4. NotNegative(L)
      BY <2>1, <2>8, <3>3 DEF HasScores, NotNegative
    <3> QED BY <3>2, <3>4
  <2> HIDE DEF pairs
  <2>10. ShapeAt("weigh", L, added)
    BY <1>1, <2>8 DEF ShapeAt, Stages
  <2>11. SoundAt("weigh", L, added, verdicts)
    <3>1. ~PassesDistances => Led(L, pairs, IsRelevance \/ settings.forgets)
      BY <1>6, <2>9 DEF Led, InFront
    <3> QED BY <1>6, <2>9, <3>1 DEF SoundAt, pairs
  <2> QED BY <1>1, <1>3, <2>10, <2>11, RankMoves
<1> QED BY <1>4, <1>5, <1>6

LEMMA WeighKeeps == ASSUME RankInv, RankWeigh PROVE RankInv'
<1>1. /\ profile \in Profiles /\ settings \in SettingType /\ IsRanking(ranking)
      /\ UNCHANGED <<profile, settings, added, verdicts>> /\ stage' = "return" /\ stage = "weigh"
  BY DEF RankInv, ShapeAt, RankWeigh, RankGoes
<1> DEFINE pairs == LeftOf(BeatPairs(verdicts), added)
<1>2. ~PassesDistances =>
         /\ Led(ranking, pairs, IsRelevance \/ settings.forgets)
         /\ IF settings.ranker = "scores" /\ ~settings.forgets THEN Judged(ranking, verdicts) ELSE NotNegative(ranking)
  BY <1>1 DEF RankInv, SoundAt
<1>3. PICK L : L = ranking'
  OBVIOUS
<1>4. /\ settings.ranker \in {"none", "scores", "passes", "fails"} /\ settings.forgets \in BOOLEAN
      /\ Fused \in BOOLEAN /\ IsRelevance \in BOOLEAN /\ PassesDistances \in BOOLEAN
  BY <1>1, SettingIs
<1>5. IsRanking(L) /\ Falls(L, Relevant) /\ (~PassesDistances => Ahead(L, pairs))
  <2>1. CASE Relevant
    <3>1. PICK n \in Nat : n = Len(ranking) /\ DOMAIN ranking = 1..n /\ ranking \in Seq(Result)
      BY <1>1 DEF IsRanking
    <3>2. PICK s : s = [i \in 1..n |-> ranking[i].score * profile[ranking[i].item].weight]
      OBVIOUS
    <3>3. ASSUME NEW i \in 1..n
          PROVE  /\ ranking[i].item \in Candidates /\ ranking[i].score \in Int
                 /\ profile[ranking[i].item].weight \in Nat /\ s[i] \in Int
      <4>1. ranking[i].item \in Candidates /\ ranking[i].score \in Int
        BY <3>1, ResultIs
      <4>2. profile[ranking[i].item].weight \in Nat
        BY <1>1, <4>1, ProfileIs
      <4>3. s[i] \in Int
        BY <3>2, <4>1, <4>2
      <4> QED BY <4>1, <4>2, <4>3
    <3>4. PICK M : M = Scored(ranking, s)
      OBVIOUS
    <3>5. L = Sorted(M, Worth(M, TRUE))
      <4>1. M = [i \in DOMAIN ranking |-> [ranking[i] EXCEPT !.score = @ * profile[ranking[i].item].weight]]
        BY <3>1, <3>2, <3>4 DEF Scored
      <4>2. L = Sorted(M, Relevances(M))
        BY <1>3, <2>1, <4>1 DEF RankWeigh
      <4> QED BY <4>2 DEF Worth
    <3>6. s \in [1..Len(ranking) -> Int]
      BY <3>1, <3>2, <3>3
    <3>7. /\ IsRanking(L) /\ Falls(L, TRUE)
          /\ \A some, old : Led(ranking, some, old) /\ Keeps(ranking, s, some, old, TRUE) => Led(L, some, TRUE)
      <4>1. L = Sorted(Scored(ranking, s), Worth(Scored(ranking, s), TRUE))
        BY <3>4, <3>5
      <4> QED BY <1>1, <3>6, <4>1, RescoreLeads
    <3>8. ASSUME ~PassesDistances PROVE Ahead(L, pairs)
      <4>1. IsRelevance \/ settings.forgets
        BY <1>4, <2>1, <3>8 DEF Relevant, Reranked, IsRelevance, PassesDistances
      <4>2. ASSUME NEW i \in 1..n, NEW j \in 1..n,
                   <<ranking[i].item, ranking[j].item>> \in pairs,
                   InFront(ranking, i, j, IsRelevance \/ settings.forgets)
            PROVE  s[i] >= s[j]
        <5>1. PICK f \in Nat, g \in Nat :
                  f = profile[ranking[i].item].weight /\ g = profile[ranking[j].item].weight
          BY <3>3
        <5>2. PICK a \in Int, b \in Int : a = ranking[i].score /\ b = ranking[j].score
          BY <3>3
        <5>3. s[i] = a * f /\ s[j] = b * g
          BY <3>2, <5>1, <5>2
        <5>4. b <= a
          BY <4>1, <4>2, <5>2 DEF InFront
        <5>5. g <= f
          BY <4>2, <5>1 DEF LeftOf, BeatPairs, BasePairs
        <5>6. b * g <= a * f /\ b * g \in Int /\ a * f \in Int
          <6>1. CASE settings.ranker = "scores" /\ ~settings.forgets
            <7>1. a = verdicts[ranking[i].item] /\ b = verdicts[ranking[j].item]
              BY <1>2, <3>1, <3>8, <5>2, <6>1 DEF Judged
            <7>2. b < a /\ (a < 0 => f = g)
              BY <4>2, <5>1, <5>2, <6>1, <7>1 DEF LeftOf, BeatPairs
            <7> QED BY <5>5, <7>2, VerdictsAre
          <6>2. CASE ~(settings.ranker = "scores" /\ ~settings.forgets)
            <7>1. a \in Nat /\ b \in Nat
              BY <1>2, <3>1, <3>8, <5>2, <6>2 DEF NotNegative
            <7>2. b * g <= a * f
              BY <5>4, <5>5, <7>1, ProductsAre
            <7> QED BY <7>2
          <6> QED BY <6>1, <6>2
        <5> QED BY <5>3, <5>6
      <4>a. Keeps(ranking, s, pairs, IsRelevance \/ settings.forgets, TRUE)
        BY <3>1, <4>2 DEF Keeps
      <4> HIDE DEF pairs
      <4>3. Led(L, pairs, TRUE)
        BY <1>2, <3>7, <3>8, <4>a
      <4> QED BY <4>3, LedIsAhead
    <3>9. Falls(L, Relevant)
      BY <2>1, <3>7 DEF Falls, InFront
    <3> QED BY <3>7, <3>8, <3>9
  <2>2. CASE ~Relevant
    <3>1. L = Sorted(ranking, Worth(ranking, FALSE))
      BY <1>3, <2>2 DEF RankWeigh, Worth
    <3>2. IsRanking(L) /\ Falls(L, FALSE) /\ \A some : Worthy(ranking, some, FALSE) => Led(L, some, FALSE)
      BY <1>1, <3>1, SortedKeeps
    <3>3. ASSUME ~PassesDistances PROVE Ahead(L, pairs)
      <4>1. ~(IsRelevance \/ settings.forgets)
        BY <2>2 DEF Relevant, Reranked, IsRelevance
      <4>2. Led(ranking, pairs, FALSE)
        BY <1>2, <3>3, <4>1 DEF Led, InFront
      <4> HIDE DEF pairs
      <4>3. Worthy(ranking, pairs, FALSE)
        BY <1>1, <4>2, LedIsWorthy
      <4>4. Led(L, pairs, FALSE)
        BY <3>2, <4>3
      <4> QED BY <4>4, LedIsAhead
    <3>4. Falls(L, Relevant)
      BY <2>2, <3>2 DEF Falls, InFront
    <3> QED BY <3>2, <3>3, <3>4
  <2> QED BY <2>1, <2>2
<1>6. ShapeAt("return", L, added) /\ SoundAt("return", L, added, verdicts)
  BY <1>1, <1>5 DEF ShapeAt, SoundAt, Stages
<1> QED BY <1>1, <1>3, <1>6, RankMoves

LEMMA ItemsAreAsMany ==
    ASSUME NEW L, IsRanking(L)
    PROVE  Cardinality(Items(L)) = Len(L)
<1>1. L \in Seq(Result) /\ DOMAIN L = 1..Len(L) /\ Len(L) \in Nat
  BY DEF IsRanking
<1>2. PICK f : f = [i \in 1..Len(L) |-> L[i].item]
  OBVIOUS
<1>3. f \in Injection(1..Len(L), Items(L)) /\ f \in Surjection(1..Len(L), Items(L))
  <2>1. f \in [1..Len(L) -> Items(L)]
    BY <1>1, <1>2 DEF Items
  <2>2. \A i, j \in 1..Len(L) : f[i] = f[j] => i = j
    BY <1>2 DEF IsRanking
  <2>3. \A c \in Items(L) : \E i \in 1..Len(L) : f[i] = c
    BY <1>1, <1>2 DEF Items
  <2> QED BY <2>1, <2>2, <2>3 DEF Injection, Surjection, IsInjective
<1>4. IsFiniteSet(1..Len(L)) /\ Cardinality(1..Len(L)) = Len(L)
  BY <1>1, FS_Interval
<1> QED BY <1>3, <1>4, FS_Surjection

\* Those of a session up to a place
UpTo(session, i) == {j \in 1..i : session[j] = session[i]}

IsShare(K, session, cap, q) ==
    /\ IsFiniteSet(K) /\ Cardinality(K) >= cap
    /\ \A i \in K : i \in 1..q /\ session[i] = session[q] /\ Cardinality(UpTo(session, i)) <= cap

\* What is left out is preceded by as many of its session as are kept.
LEMMA SessionHasItsShare ==
    ASSUME NEW session, NEW cap \in Nat, NEW q \in Nat \ {0}, Cardinality(UpTo(session, q)) > cap
    PROVE  \E K : IsShare(K, session, cap, q)
<1>1. ASSUME NEW i \in Nat PROVE IsFiniteSet(UpTo(session, i)) /\ Cardinality(UpTo(session, i)) \in Nat
  <2>1. IsFiniteSet(1..i) /\ UpTo(session, i) \in SUBSET (1..i)
    BY FS_Interval DEF UpTo
  <2> QED BY <2>1, FS_Subset, FS_CardinalityType
<1>2. PICK S : S = {i \in 1..q : session[i] = session[q] /\ Cardinality(UpTo(session, i)) > cap}
  OBVIOUS
<1>3. S \in SUBSET Nat /\ q \in S
  BY <1>2
<1>4. PICK t \in S : \A y \in S : ~(y < t)
  BY <1>3, Least
<1>5. t \in 1..q /\ session[t] = session[q] /\ Cardinality(UpTo(session, t)) > cap /\ t \in UpTo(session, t)
  BY <1>2, <1>4 DEF UpTo
<1>6. PICK K : K = UpTo(session, t) \ {t}
  OBVIOUS
<1>7. IsFiniteSet(K) /\ Cardinality(K) >= cap
  <2>1. IsFiniteSet(UpTo(session, t)) /\ Cardinality(UpTo(session, t)) \in Nat
    BY <1>1, <1>5
  <2>2. IsFiniteSet(K) /\ Cardinality(K) = Cardinality(UpTo(session, t)) - 1
    BY <1>5, <1>6, <2>1, FS_RemoveElement
  <2> QED BY <1>5, <2>1, <2>2
<1>8. ASSUME NEW i \in K
      PROVE  i \in 1..q /\ session[i] = session[q] /\ Cardinality(UpTo(session, i)) <= cap
  <2>1. i \in 1..q /\ i < t /\ session[i] = session[q]
    BY <1>5, <1>6 DEF UpTo
  <2>2. i \notin S
    BY <1>4, <2>1
  <2>3. Cardinality(UpTo(session, i)) \in Nat /\ ~(Cardinality(UpTo(session, i)) > cap)
    BY <1>1, <1>2, <2>1, <2>2
  <2> QED BY <2>1, <2>3
<1> QED BY <1>7, <1>8 DEF IsShare

LEMMA EarlierIsFinite ==
    ASSUME NEW T, IsRanking(T), NEW j \in 1..Len(T)
    PROVE  IsFiniteSet(Earlier(T, j))
<1>1. PICK g : g = [i \in 1..(j - 1) |-> T[i].item]
  OBVIOUS
<1>2. g \in Surjection(1..(j - 1), Earlier(T, j))
  BY <1>1 DEF Surjection, Earlier
<1>3. IsFiniteSet(1..(j - 1))
  <2>1. j - 1 \in Nat
    BY DEF IsRanking
  <2> QED BY <2>1, FS_Interval
<1> QED BY <1>2, <1>3, FS_Surjection

\* Some of what comes earlier, from places of another list
LEMMA ShareIs ==
    ASSUME NEW T, IsRanking(T), NEW L, IsRanking(L), NEW j \in 1..Len(T), NEW m, NEW K \in SUBSET (1..Len(L)),
           IsFiniteSet(K), \A i \in K : L[i].item \in SameSession(T, j, m)
    PROVE  Cardinality(SameSession(T, j, m)) >= Cardinality(K)
<1>1. PICK C : C = SameSession(T, j, m)
  OBVIOUS
<1>2. PICK f : f = [i \in K |-> L[i].item]
  OBVIOUS
<1>3. f \in Injection(K, C)
  <2>1. f \in [K -> C]
    BY <1>1, <1>2
  <2>2. \A i, k \in K : f[i] = f[k] => i = k
    BY <1>2 DEF IsRanking
  <2> QED BY <2>1, <2>2 DEF Injection, IsInjective
<1>4. IsFiniteSet(C)
  BY <1>1, EarlierIsFinite, FS_Subset DEF SameSession
<1>5. Cardinality(K) <= Cardinality(C) /\ Cardinality(K) \in Nat /\ Cardinality(C) \in Nat
  BY <1>3, <1>4, FS_Injection, FS_CardinalityType
<1> QED BY <1>1, <1>5

\* The threshold: it cuts the end off, where what is better comes first.
LEMMA CutAnswers ==
    ASSUME NEW T, IsRanking(T), NEW up, Falls(T, up), NEW limit \in Nat, Len(T) <= limit,
           NEW places \in SUBSET (1..Len(T)), CutsLast(T, places, up), NEW A, A = Retained(T, places), NEW pairs,
           settings.cap \in Nat
    PROVE  /\ IsRanking(A) /\ Len(A) <= limit /\ Cardinality(Items(A)) = Len(A)
           /\ Answers(T, pairs) => Answers(A, pairs)
<1>1. IsRanking(A) /\ From(A, T)
  BY RetainedIs
<1>2. PICK at : IsPart(T, places, A, at)
  BY RetainedIs
<1>3. Cardinality(Items(A)) = Len(A) /\ Cardinality(Items(T)) = Len(T) /\ Len(A) \in Nat /\ Len(T) \in Nat
  BY <1>1, ItemsAreAsMany DEF IsRanking
<1>4. Len(A) <= limit
  <2>1. DOMAIN A = 1..Len(A) /\ DOMAIN T = 1..Len(T)
    BY <1>1 DEF IsRanking
  <2>2. Items(A) \in SUBSET Items(T)
    BY <1>1, <2>1 DEF Items, From
  <2>3. PICK f : f = [i \in 1..Len(T) |-> T[i].item]
    OBVIOUS
  <2>4. f \in Surjection(1..Len(T), Items(T))
    BY <2>1, <2>3 DEF Surjection, Items
  <2>5. IsFiniteSet(1..Len(T))
    BY <1>3, FS_Interval
  <2>6. IsFiniteSet(Items(T))
    BY <2>4, <2>5, FS_Surjection
  <2>7. Cardinality(Items(A)) <= Cardinality(Items(T))
    BY <2>2, <2>6, FS_Subset
  <2> QED BY <1>3, <2>7
<1>5. ASSUME Answers(T, pairs) PROVE Answers(A, pairs)
  <2> SUFFICES ASSUME NEW k \in 1..Len(A), NEW m \in Candidates, <<m, A[k].item>> \in pairs
               PROVE  m \in Earlier(A, k) \/ HasItsShare(A, k, m)
    BY DEF Answers
  <2>1. PICK j \in places : at[j] = k /\ A[k] = T[j] /\ j \in 1..Len(T)
    BY <1>2 DEF IsPart
  <2>2. m \in Earlier(T, j) \/ HasItsShare(T, j, m)
    BY <1>5, <2>1 DEF Answers
  <2>3. Earlier(T, j) \in SUBSET Earlier(A, k)
    <3>1. ASSUME NEW i \in 1..(j - 1) PROVE T[i].item \in Earlier(A, k)
      <4>1. i \in 1..Len(T) /\ i < j /\ i <= j
        BY <1>3, <2>1
      <4>2. InFront(T, i, j, up)
        BY <2>1, <4>1 DEF Falls
      <4>3. i \in places
        BY <2>1, <4>1, <4>2 DEF CutsLast
      <4>4. at[i] < k /\ at[i] \in 1..Len(A) /\ A[at[i]] = T[i]
        BY <1>2, <2>1, <4>1, <4>3 DEF IsPart
      <4>5. at[i] \in 1..(k - 1)
        BY <1>3, <4>4
      <4> QED BY <4>4, <4>5 DEF Earlier
    <3> QED BY <3>1 DEF Earlier
  <2>4. IsFiniteSet(Earlier(A, k))
    BY <1>1, EarlierIsFinite
  <2>5. ASSUME HasItsShare(T, j, m) PROVE HasItsShare(A, k, m)
    <3>1. SameSession(T, j, m) \in SUBSET SameSession(A, k, m) /\ SameSession(A, k, m) \in SUBSET Earlier(A, k)
      BY <2>3 DEF SameSession
    <3>2. IsFiniteSet(SameSession(A, k, m))
      BY <2>4, <3>1, FS_Subset
    <3>3. /\ Cardinality(SameSession(T, j, m)) <= Cardinality(SameSession(A, k, m))
          /\ Cardinality(SameSession(T, j, m)) \in Nat /\ Cardinality(SameSession(A, k, m)) \in Nat
      BY <3>1, <3>2, FS_Subset, FS_CardinalityType
    <3>4. settings.cap > 0 /\ Cardinality(SameSession(T, j, m)) >= settings.cap
      BY <2>5 DEF HasItsShare
    <3> QED BY <3>3, <3>4 DEF HasItsShare
  <2> QED BY <2>2, <2>3, <2>5
<1> QED BY <1>1, <1>3, <1>4, <1>5

LEMMA ReturnKeeps == ASSUME RankInv, RankReturn PROVE RankInv'
<1>1. /\ profile \in Profiles /\ settings \in SettingType /\ IsRanking(ranking)
      /\ UNCHANGED <<profile, settings, added, verdicts>> /\ stage' = "done" /\ stage = "return"
  BY DEF RankInv, ShapeAt, RankReturn, RankGoes
<1> DEFINE pairs == LeftOf(BeatPairs(verdicts), added)
<1>2. Falls(ranking, Relevant) /\ (~PassesDistances => Ahead(ranking, pairs))
  BY <1>1 DEF RankInv, SoundAt
<1>3. settings.limit \in Nat /\ settings.cap \in Nat /\ settings.threshold \subseteq Int /\ Relevant \in BOOLEAN
  BY <1>1, SettingIs
<1>4. PICK n \in Nat : n = Len(ranking) /\ DOMAIN ranking = 1..n /\ ranking \in Seq(Result)
  BY <1>1 DEF IsRanking
<1>5. PICK session : session = [i \in 1..n |-> profile[ranking[i].item].session]
  OBVIOUS
<1>6. PICK kept : kept = {i \in 1..n : settings.cap > 0 /\ session[i] # "none"
                                          => Cardinality(UpTo(session, i)) <= settings.cap}
  OBVIOUS
<1>7. PICK R : R = Retained(ranking, kept)
  OBVIOUS
<1>8. PICK T : T = Take(R, settings.limit)
  OBVIOUS
<1>9. PICK passing : passing = {i \in DOMAIN T : \A x \in settings.threshold :
                                    IF Relevant THEN T[i].score >= x ELSE T[i].score <= x}
  OBVIOUS
<1>10. ranking' = Retained(T, passing)
  <2>1. ASSUME NEW i \in 1..n
        PROVE  {j \in 1..i : profile[ranking[j].item].session = profile[ranking[i].item].session} = UpTo(session, i)
    <3>1. \A j \in 1..i : j \in 1..n
      BY <1>4
    <3> QED BY <1>5, <3>1 DEF UpTo
  <2>2. kept = {i \in DOMAIN ranking :
                   settings.cap > 0 /\ profile[ranking[i].item].session # "none" =>
                       Cardinality({j \in 1..i : profile[ranking[j].item].session = profile[ranking[i].item].session})
                           <= settings.cap}
    <3>1. \A i \in 1..n : session[i] = profile[ranking[i].item].session
      BY <1>5
    <3> QED BY <1>4, <1>6, <2>1, <3>1
  <2>3. T = Take(Retained(ranking, kept), settings.limit)
    BY <1>7, <1>8
  <2> QED BY <1>9, <2>2, <2>3 DEF RankReturn
<1>13. kept \in SUBSET (1..n)
  BY <1>6
<1>11. IsRanking(R) /\ Falls(R, Relevant)
  BY <1>1, <1>2, <1>3, <1>4, <1>7, <1>13, RetainedIs, PartFalls
<1>12. PICK at : /\ at \in [kept -> 1..Len(R)] /\ \A i \in kept : R[at[i]] = ranking[i]
                 /\ \A k \in 1..Len(R) : \E i \in kept : at[i] = k
                 /\ \A i, j \in kept : i < j => at[i] < at[j]
  <2>1. \E at : IsPart(ranking, kept, R, at)
    BY <1>1, <1>4, <1>7, <1>13, RetainedIs
  <2> QED BY <2>1 DEF IsPart
<1>16. IsRanking(T) /\ Len(T) <= settings.limit /\ Falls(T, Relevant)
  BY <1>3, <1>8, <1>11, TakeKeeps
<1>17. Len(T) <= Len(R) /\ \A i \in 1..Len(T) : T[i] = R[i]
  BY <1>3, <1>8, <1>11, TakeIs DEF IsRanking
<1>19. ASSUME NEW j \in 1..Len(T), NEW p \in kept, at[p] = j, NEW q \in kept, q < p
       PROVE  ranking[q].item \in Earlier(T, j)
  <2>1. at[q] < j /\ at[q] \in 1..Len(R) /\ R[at[q]] = ranking[q]
    BY <1>12, <1>19
  <2>2. j \in Nat /\ Len(T) \in Nat
    BY <1>16 DEF IsRanking
  <2>3. at[q] \in 1..(j - 1) /\ at[q] \in 1..Len(T)
    BY <2>1, <2>2
  <2>4. T[at[q]] = ranking[q]
    BY <1>17, <2>1, <2>3
  <2> QED BY <2>3, <2>4 DEF Earlier
<1>20. ASSUME ~PassesDistances, NEW j \in 1..Len(T), NEW m \in Candidates, <<m, T[j].item>> \in pairs,
              m \notin Earlier(T, j)
       PROVE  HasItsShare(T, j, m)
  <2>1. j \in 1..Len(R) /\ T[j] = R[j]
    <3>1. Len(T) \in Nat /\ Len(R) \in Nat
      BY <1>11, <1>16 DEF IsRanking
    <3> QED BY <1>17, <3>1
  <2>2. PICK p \in kept : at[p] = j /\ T[j] = ranking[p]
    BY <1>12, <2>1
  <2>3. p \in 1..n
    BY <1>13
  <2>4. PICK q \in 1..(p - 1) : ranking[q].item = m
    BY <1>2, <1>4, <1>20, <2>2, <2>3 DEF Ahead
  <2>5. q \in 1..n /\ q < p
    BY <1>4, <2>3
  <2>6. q \notin kept
    BY <1>19, <1>20, <2>2, <2>4, <2>5
  <2>7. settings.cap > 0 /\ session[q] # "none" /\ ~(Cardinality(UpTo(session, q)) <= settings.cap)
    BY <1>6, <2>5, <2>6
  <2>8. Cardinality(UpTo(session, q)) > settings.cap
    <3>1. UpTo(session, q) \in SUBSET (1..q) /\ IsFiniteSet(1..q)
      BY <2>5, FS_Interval DEF UpTo
    <3>2. Cardinality(UpTo(session, q)) \in Nat
      BY <3>1, FS_Subset, FS_CardinalityType
    <3> QED BY <1>3, <2>7, <3>2
  <2>a. PICK K : IsShare(K, session, settings.cap, q)
    <3>1. q \in Nat \ {0}
      BY <2>5
    <3> QED BY <1>3, <2>8, <3>1, SessionHasItsShare
  <2>9. /\ IsFiniteSet(K) /\ Cardinality(K) >= settings.cap
        /\ \A i \in K : i \in 1..q /\ session[i] = session[q] /\ Cardinality(UpTo(session, i)) <= settings.cap
    BY <2>a DEF IsShare
  <2>10. ASSUME NEW i \in K
         PROVE  /\ i \in 1..Len(ranking) /\ ranking[i].item \in Earlier(T, j)
                /\ profile[ranking[i].item].session = profile[m].session
    <3>a. i \in 1..q
      BY <2>9
    <3>1. i \in 1..n /\ i < p
      BY <1>4, <2>3, <2>5, <3>a
    <3>2. i \in kept
      BY <1>6, <2>9, <3>1
    <3>3. ranking[i].item \in Earlier(T, j)
      BY <1>19, <2>2, <3>1, <3>2
    <3>4. profile[ranking[i].item].session = profile[m].session
      <4>1. session[i] = session[q]
        BY <2>9
      <4> QED BY <1>5, <2>4, <2>5, <3>1, <4>1
    <3> QED BY <1>4, <3>1, <3>3, <3>4
  <2>11. Cardinality(SameSession(T, j, m)) >= Cardinality(K)
    <3>1. K \in SUBSET (1..Len(ranking)) /\ \A i \in K : ranking[i].item \in SameSession(T, j, m)
      BY <2>10 DEF SameSession
    <3> QED BY <1>1, <1>16, <2>9, <3>1, ShareIs
  <2>12. Cardinality(SameSession(T, j, m)) >= settings.cap
    <3>1. Cardinality(K) \in Nat
      BY <2>9, FS_CardinalityType
    <3>2. IsFiniteSet(Earlier(T, j))
      BY <1>16, EarlierIsFinite
    <3>3. Cardinality(SameSession(T, j, m)) \in Nat
      BY <3>2, FS_Subset, FS_CardinalityType DEF SameSession
    <3> QED BY <1>3, <2>9, <2>11, <3>1, <3>3
  <2> QED BY <2>7, <2>12 DEF HasItsShare
<1>21. ~PassesDistances => Answers(T, pairs)
  BY <1>20 DEF Answers
<1> HIDE DEF pairs
<1>22. PICK A : A = ranking'
  OBVIOUS
<1>23. passing \in SUBSET (1..Len(T)) /\ CutsLast(T, passing, Relevant)
  <2>1. DOMAIN T = 1..Len(T) /\ T \in Seq(Result)
    BY <1>16 DEF IsRanking
  <2>2. passing \in SUBSET (1..Len(T))
    BY <1>9, <2>1
  <2>3. ASSUME NEW i \in 1..Len(T), NEW j \in passing, InFront(T, i, j, Relevant) PROVE i \in passing
    <3>1. PICK a \in Int, b \in Int : a = T[i].score /\ b = T[j].score
      BY <2>1, <2>2, ResultIs
    <3>2. IF Relevant THEN a >= b ELSE a <= b
      BY <2>3, <3>1 DEF InFront
    <3>3. ASSUME NEW x \in settings.threshold PROVE IF Relevant THEN a >= x ELSE a <= x
      <4>1. x \in Int
        BY <1>3
      <4>2. IF Relevant THEN b >= x ELSE b <= x
        BY <1>9, <3>1
      <4> QED BY <3>2, <4>1, <4>2
    <3> QED BY <1>9, <2>1, <3>1, <3>3
  <2> QED BY <2>2, <2>3 DEF CutsLast
<1>24. IsRanking(A) /\ Len(A) <= settings.limit /\ Cardinality(Items(A)) = Len(A)
       /\ (Answers(T, pairs) => Answers(A, pairs))
  BY <1>3, <1>10, <1>16, <1>22, <1>23, CutAnswers
<1>25. ShapeAt("done", A, added)
  BY <1>1, <1>24 DEF ShapeAt, Stages
<1>26. SoundAt("done", A, added, verdicts)
  BY <1>21, <1>24 DEF SoundAt, pairs
<1> QED BY <1>1, <1>22, <1>25, <1>26, RankMoves

LEMMA RankInvHolds == RankSpec => []RankInv
<1>1. RankInit => RankInv
  BY RankStarts
<1>2. RankInv /\ [RankNext]_rankVars => RankInv'
  <2> SUFFICES ASSUME RankInv, [RankNext]_rankVars PROVE RankInv'
    OBVIOUS
  <2>1. CASE RankFuse
    BY <2>1, FuseKeeps
  <2>2. CASE RankVectors
    BY <2>2, VectorsKeep
  <2>3. CASE RankTime
    BY <2>3, TimeKeeps
  <2>4. CASE RankAugment
    BY <2>4, AugmentKeeps
  <2>5. CASE Rerank
    BY <2>5, RerankKeeps
  <2>6. CASE RankForget
    BY <2>6, ForgetKeeps
  <2>7. CASE RankWeigh
    BY <2>7, WeighKeeps
  <2>8. CASE RankReturn
    BY <2>8, ReturnKeeps
  <2>9. CASE UNCHANGED rankVars
    <3>1. UNCHANGED <<profile, settings>> /\ stage' = stage /\ ranking' = ranking /\ added' = added
          /\ verdicts' = verdicts
      BY <2>9 DEF rankVars
    <3>2. ShapeAt(stage, ranking, added) /\ SoundAt(stage, ranking, added, verdicts)
      BY DEF RankInv
    <3> QED BY <3>1, <3>2, RankMoves
  <2> QED BY <2>1, <2>2, <2>3, <2>4, <2>5, <2>6, <2>7, <2>8, <2>9 DEF RankNext
<1> QED BY <1>1, <1>2, PTL DEF RankSpec

\* Of two results of a search the one that is better in everything comes first, and neither the limit nor the
\* threshold cuts it off in favour of the other, only the cap of its session: BetterComesFirst, whatever the
\* fusion, the times, the graph, the reranker, the forgetting curve and the weights make of the scores.
THEOREM BetterOnesComeFirst == RankSpec => []BetterComesFirst
<1>1. RankInv => BetterComesFirst
  <2> SUFFICES ASSUME RankInv, stage = "done" PROVE BetterComesFirst
    BY DEF BetterComesFirst
  <2>1. /\ Len(ranking) <= settings.limit /\ Cardinality(Items(ranking)) = Len(ranking) /\ IsRanking(ranking)
        /\ ~PassesDistances => Answers(ranking, LeftOf(BeatPairs(verdicts), added))
    BY DEF RankInv, ShapeAt, SoundAt
  <2>2. ASSUME ~(settings.ranker = "passes" /\ ~Fused), NEW i \in DOMAIN ranking, NEW m \in Candidates,
               Beats(m, ranking[i].item), ranking[i].item \notin added
        PROVE  \/ m \in Earlier(ranking, i)
               \/ /\ settings.cap > 0
                  /\ Cardinality({c \in Earlier(ranking, i) : profile[c].session = profile[m].session}) >= settings.cap
    <3>1. ranking \in Seq(Result) /\ i \in 1..Len(ranking)
      BY <2>1 DEF IsRanking
    <3>2. PICK n \in Candidates : n = ranking[i].item
      BY <3>1, ResultIs
    <3>3. <<m, n>> \in BetterPairs
      BY <2>2, <3>2 DEF Beats, BetterPairs, Channels
    <3>4. <<m, n>> \in LeftOf(BeatPairs(verdicts), added)
      BY <2>2, <3>2, <3>3 DEF Beats, BasePairs, BeatPairs, LeftOf
    <3>5. Answers(ranking, LeftOf(BeatPairs(verdicts), added))
      BY <2>1, <2>2 DEF PassesDistances
    <3> QED BY <3>1, <3>2, <3>4, <3>5 DEF Answers, HasItsShare, SameSession
  <2> QED BY <2>1, <2>2 DEF BetterComesFirst, Earlier
<1> QED BY <1>1, RankInvHolds, PTL
================================================================================
