---------------------------- MODULE MeditationProofs ----------------------------
(* For any callers, episodes and bounds, with any statement failing and the process dying     *)
(* anywhere: two recent runs are not in progress together unless the later one could not see   *)
(* the earlier one's record; and what is marked is stored, and in the graph no more often than  *)
(* looks for it overlapped.                                                                      *)
EXTENDS Meditation, FiniteSetTheorems, WellFoundedInduction, TLAPS

\* Where a call is with an episode, and where it has none.
WithEpisode == {"store", "look", "put", "relate", "insert", "link"}
WithNone == {"idle", "begin", "completed", "failed"}
Call == [pc : WithEpisode \cup WithNone \cup {"next"}, run : Nat,
         todo : SUBSET Episodes, marks : SUBSET Episodes, at : Episodes \cup {NoEpisode},
         ids : Seq(Nat), found : Nat]

\* What the variables hold.
MedTypeOK ==
    /\ meditated \subseteq Episodes /\ facts \subseteq Episodes
    /\ excused \subseteq Episodes /\ again \subseteq Episodes
    /\ entities \in Seq(Mentioned) /\ relations \in Seq(Nat \X Nat)
    /\ record \in [1..MaxRuns -> {"none", "running", "completed", "failed"}] /\ aged \in Nat
    /\ caller \in [Callers -> Call]
    /\ digests \in [Episodes -> Nat]
    /\ saw \in [Callers -> SUBSET (1..MaxRuns)]
    /\ spent \in [runs : 0..MaxRuns, errors : Nat]

\* What a call holds follows from how far it has come.
SoundCall(k, runs) ==
    /\ k.pc = "idle" <=> k.run = 0
    /\ k.run <= runs
    /\ k.pc \in WithNone => k.todo = {} /\ k.marks = {}
    /\ k.pc \in WithEpisode => k.at \in k.todo \ Gone
    /\ k.pc \notin WithEpisode => k.at = NoEpisode
    /\ k.pc \notin WithEpisode \ {"store"} => k.ids = <<>>
    /\ k.pc \in {"look", "put"} => Len(k.ids) < Len(Mentions[k.at])
    /\ k.pc \in {"relate", "insert", "link"} => k.ids # <<>>

CallsAreSound == \A c \in Callers : SoundCall(caller[c], spent.runs)

\* The record of a run in progress is not finished, no two calls have the same run, and no run
\* is recorded before it is counted.
RunsAreSound ==
    /\ \A c \in Callers : caller[c].run > 0 => record[caller[c].run] \in {"none", "running"}
    /\ \A a, b \in Callers : caller[a].run = caller[b].run /\ caller[a].run > 0 => a = b
    /\ \A r \in Recorded : r <= spent.runs

\* What is marked, put down to be marked, or past the store, is stored or given up.
MarksAreStored ==
    /\ meditated \subseteq Gone \cup facts \cup excused
    /\ \A c \in Callers : caller[c].marks \subseteq facts \cup excused
    /\ \A c \in Callers : caller[c].pc \in WithEpisode \ {"store"} => caller[c].at \in facts \cup excused

\* An episode that went to the model is marked or in some hand, and in one hand alone; a hand
\* holds no other that went to the model before: all this but for those that are to go again.
DigestsAreKept ==
    /\ \A e \in Gone : digests[e] = 0
    /\ \A e \in Episodes : digests[e] > 0 => e \in meditated \cup again \cup UNION {InHand(c) : c \in Callers}
    /\ \A a, b \in Callers : a # b => InHand(a) \cap InHand(b) \subseteq again
    /\ \A c \in Callers : \A e \in caller[c].todo : e # caller[c].at /\ e \notin again => digests[e] = 0
    /\ DigestedAgain

\* Those that are about to add an entity of a name, or a row of a relation, without having found one.
Adding(n) == {c \in Callers : caller[c].pc = "put" /\ caller[c].found = 0 /\ TheName(c) = n}
Relating(p) == {c \in Callers : caller[c].pc = "insert" /\ TheRelation(c) = p}
Named(n) == {i \in DOMAIN entities : entities[i] = n}
Rows(p) == {i \in DOMAIN relations : relations[i] = p}

\* With them there are no more of a name than there are callers, or runs.
Few(N, P) ==
    /\ IsFiniteSet(N)
    /\ Cardinality(N) + Cardinality(P) <= Cardinality(Callers)
    /\ Cardinality(N) + Cardinality(P) <= spent.runs

NamesAreFew == \A n \in Mentioned : Few(Named(n), Adding(n))
RowsAreFew == \A p \in Nat \X Nat : Few(Rows(p), Relating(p))
TwinsAreBounded == NamesAreFew /\ RowsAreFew

MedInv ==
    /\ MedTypeOK /\ CallsAreSound
    /\ RunsAreSound /\ OneMeditation
    /\ MarksAreStored /\ DigestsAreKept /\ TwinsAreBounded

--------------------------------------------------------------------------------
\* The call of c becomes this, and no other call changes.
Becomes(c, k) == caller' = [caller EXCEPT ![c] = k]
CallOf(p, r, t, m, a, i, f) == [pc |-> p, run |-> r, todo |-> t, marks |-> m, at |-> a, ids |-> i, found |-> f]

LEMMA NothingFits ==
    {} \in SUBSET Episodes /\ NoEpisode \in Episodes \cup {NoEpisode} /\ <<>> \in Seq(Nat) /\ 0 \in Nat
  OBVIOUS

\* Then the others are what they were.
LEMMA OthersStay ==
    ASSUME MedTypeOK, NEW c \in Callers, NEW k \in Call, Becomes(c, k)
    PROVE  caller' \in [Callers -> Call] /\ caller'[c] = k /\ \A d \in Callers \ {c} : caller'[d] = caller[d]
  BY DEF MedTypeOK, Becomes

\* A call has these fields and no others.
LEMMA CallFields ==
    ASSUME MedTypeOK, NEW c \in Callers
    PROVE  /\ caller[c].pc \in WithEpisode \cup WithNone \cup {"next"} /\ caller[c].run \in Nat
           /\ caller[c].todo \in SUBSET Episodes /\ caller[c].marks \in SUBSET Episodes
           /\ caller[c].at \in Episodes \cup {NoEpisode}
           /\ caller[c].ids \in Seq(Nat) /\ caller[c].found \in Nat
           /\ InHand(c) \in SUBSET Episodes
           /\ caller[c] = [pc |-> caller[c].pc, run |-> caller[c].run, todo |-> caller[c].todo,
                           marks |-> caller[c].marks, at |-> caller[c].at, ids |-> caller[c].ids,
                           found |-> caller[c].found]
  BY DEF MedTypeOK, Call, InHand

\* What each change of a call makes of it.
LEMMA CallBecomes ==
    ASSUME MedTypeOK, NEW c \in Callers
    PROVE  LET k == caller[c]
           IN  /\ caller' = [caller EXCEPT ![c] = Resting] => Becomes(c, CallOf("idle", 0, {}, {}, NoEpisode, <<>>, 0))
               /\ caller' = [caller EXCEPT ![c] = [Resting EXCEPT !.pc = "failed", !.run = caller[c].run]]
                     => Becomes(c, CallOf("failed", k.run, {}, {}, NoEpisode, <<>>, 0))
               /\ \A p : Goes(c, p) => Becomes(c, CallOf(p, k.run, k.todo, k.marks, k.at, k.ids, k.found))
               /\ \A p, r : caller' = [caller EXCEPT ![c].pc = p, ![c].run = r]
                     => Becomes(c, CallOf(p, r, k.todo, k.marks, k.at, k.ids, k.found))
               /\ \A t : caller' = [caller EXCEPT ![c].todo = t]
                     => Becomes(c, CallOf(k.pc, k.run, t, k.marks, k.at, k.ids, k.found))
               /\ \A m : caller' = [caller EXCEPT ![c].marks = m]
                     => Becomes(c, CallOf(k.pc, k.run, k.todo, m, k.at, k.ids, k.found))
               /\ \A e : caller' = [caller EXCEPT ![c].pc = "store", ![c].at = e]
                     => Becomes(c, CallOf("store", k.run, k.todo, k.marks, e, k.ids, k.found))
               /\ \A t, m : caller' = [caller EXCEPT ![c].todo = t, ![c].marks = m]
                     => Becomes(c, CallOf(k.pc, k.run, t, m, k.at, k.ids, k.found))
               /\ \A f : caller' = [caller EXCEPT ![c].pc = "put", ![c].found = f]
                     => Becomes(c, CallOf("put", k.run, k.todo, k.marks, k.at, k.ids, f))
               /\ \A p, i : caller' = [caller EXCEPT ![c].pc = p, ![c].ids = i, ![c].found = 0]
                     => Becomes(c, CallOf(p, k.run, k.todo, k.marks, k.at, i, 0))
               /\ EpisodeDone(c)
                     => Becomes(c, CallOf("next", k.run, k.todo \ {k.at}, k.marks \cup {k.at}, NoEpisode, <<>>, 0))
<1>1. PICK k \in Call : k = caller[c]
  BY DEF MedTypeOK
<1>2. k = [pc |-> k.pc, run |-> k.run, todo |-> k.todo, marks |-> k.marks, at |-> k.at, ids |-> k.ids, found |-> k.found]
  BY DEF Call
<1>3. caller' = [caller EXCEPT ![c] = Resting] => Becomes(c, CallOf("idle", 0, {}, {}, NoEpisode, <<>>, 0))
  BY DEF Becomes, CallOf, Resting
<1>4. caller' = [caller EXCEPT ![c] = [Resting EXCEPT !.pc = "failed", !.run = caller[c].run]]
        => Becomes(c, CallOf("failed", k.run, {}, {}, NoEpisode, <<>>, 0))
  BY <1>1 DEF Becomes, CallOf, Resting
<1>5. ASSUME NEW p, NEW r, NEW t, NEW m, NEW i, NEW f
      PROVE  /\ Goes(c, p) => Becomes(c, CallOf(p, k.run, k.todo, k.marks, k.at, k.ids, k.found))
             /\ caller' = [caller EXCEPT ![c].pc = p, ![c].run = r]
                  => Becomes(c, CallOf(p, r, k.todo, k.marks, k.at, k.ids, k.found))
             /\ caller' = [caller EXCEPT ![c].todo = t]
                  => Becomes(c, CallOf(k.pc, k.run, t, k.marks, k.at, k.ids, k.found))
             /\ caller' = [caller EXCEPT ![c].marks = m]
                  => Becomes(c, CallOf(k.pc, k.run, k.todo, m, k.at, k.ids, k.found))
             /\ caller' = [caller EXCEPT ![c].pc = "store", ![c].at = t]
                  => Becomes(c, CallOf("store", k.run, k.todo, k.marks, t, k.ids, k.found))
             /\ caller' = [caller EXCEPT ![c].todo = t, ![c].marks = m]
                  => Becomes(c, CallOf(k.pc, k.run, t, m, k.at, k.ids, k.found))
             /\ caller' = [caller EXCEPT ![c].pc = "put", ![c].found = f]
                  => Becomes(c, CallOf("put", k.run, k.todo, k.marks, k.at, k.ids, f))
             /\ caller' = [caller EXCEPT ![c].pc = p, ![c].ids = i, ![c].found = 0]
                  => Becomes(c, CallOf(p, k.run, k.todo, k.marks, k.at, i, 0))
  BY <1>1, <1>2 DEF Becomes, CallOf, Goes, MedTypeOK
<1>6. EpisodeDone(c) => Becomes(c, CallOf("next", k.run, k.todo \ {k.at}, k.marks \cup {k.at}, NoEpisode, <<>>, 0))
  BY <1>1 DEF Becomes, CallOf, EpisodeDone, Resting
<1> QED BY <1>1, <1>3, <1>4, <1>5, <1>6

\* A call that rests, that goes on to p, and that has done with an episode.
LEMMA CallRests ==
    ASSUME MedTypeOK, NEW c \in Callers, caller' = [caller EXCEPT ![c] = Resting]
    PROVE  \E k \in Call : /\ Becomes(c, k) /\ k.pc = "idle" /\ k.run = 0 /\ k.todo = {} /\ k.marks = {}
                           /\ k.at = NoEpisode /\ k.ids = <<>> /\ k.found = 0
<1>1. PICK k : k = CallOf("idle", 0, {}, {}, NoEpisode, <<>>, 0)
  OBVIOUS
<1>2. Becomes(c, k)
  BY <1>1, CallBecomes
<1>3. "idle" \in WithEpisode \cup WithNone \cup {"next"}
  BY DEF WithNone
<1>4. /\ k \in Call /\ k.pc = "idle" /\ k.run = 0 /\ k.todo = {} /\ k.marks = {}
      /\ k.at = NoEpisode /\ k.ids = <<>> /\ k.found = 0
  BY <1>1, <1>3, NothingFits DEF CallOf, Call
<1> QED BY <1>2, <1>4

LEMMA CallGoes ==
    ASSUME MedTypeOK, NEW c \in Callers, NEW p \in WithEpisode \cup WithNone \cup {"next"}, Goes(c, p)
    PROVE  \E k \in Call : /\ Becomes(c, k) /\ k.pc = p /\ k.run = caller[c].run
                           /\ k.todo = caller[c].todo /\ k.marks = caller[c].marks
                           /\ k.at = caller[c].at /\ k.ids = caller[c].ids /\ k.found = caller[c].found
<1>1. PICK k : k = CallOf(p, caller[c].run, caller[c].todo, caller[c].marks, caller[c].at, caller[c].ids,
                          caller[c].found)
  OBVIOUS
<1>2. Becomes(c, k)
  BY <1>1, CallBecomes
<1>3. /\ k \in Call /\ k.pc = p /\ k.run = caller[c].run
      /\ k.todo = caller[c].todo /\ k.marks = caller[c].marks
      /\ k.at = caller[c].at /\ k.ids = caller[c].ids /\ k.found = caller[c].found
  BY <1>1, CallFields DEF CallOf, Call
<1> QED BY <1>2, <1>3

LEMMA CallIsDone ==
    ASSUME MedTypeOK, NEW c \in Callers, caller[c].at \in Episodes, EpisodeDone(c)
    PROVE  \E k \in Call : /\ Becomes(c, k) /\ k.pc = "next" /\ k.run = caller[c].run
                           /\ k.todo = caller[c].todo \ {caller[c].at}
                           /\ k.marks = caller[c].marks \cup {caller[c].at}
                           /\ k.at = NoEpisode /\ k.ids = <<>> /\ k.found = 0
<1>1. PICK t, m : t = caller[c].todo \ {caller[c].at} /\ m = caller[c].marks \cup {caller[c].at}
  OBVIOUS
<1>2. PICK k : k = CallOf("next", caller[c].run, t, m, NoEpisode, <<>>, 0)
  OBVIOUS
<1>3. Becomes(c, k)
  BY <1>1, <1>2, CallBecomes
<1>4. t \in SUBSET Episodes /\ m \in SUBSET Episodes /\ caller[c].run \in Nat
  BY <1>1, CallFields
<1>5. "next" \in WithEpisode \cup WithNone \cup {"next"}
  OBVIOUS
<1>6. /\ k \in Call /\ k.pc = "next" /\ k.run = caller[c].run /\ k.todo = t /\ k.marks = m
      /\ k.at = NoEpisode /\ k.ids = <<>> /\ k.found = 0
  BY <1>2, <1>4, <1>5, NothingFits DEF CallOf, Call
<1> QED BY <1>1, <1>3, <1>6

\* The names of an episode.
LEMMA NamesAreMentioned ==
    \A e \in Episodes : /\ Mentions[e] \in Seq(Mentioned) /\ Len(Mentions[e]) \in Nat \ {0}
                        /\ \A i \in 1..Len(Mentions[e]) : Mentions[e][i] \in Mentioned
  BY MeditationAssumption

--------------------------------------------------------------------------------
(* What a change of one call leaves of the invariant *)

\* The shape of the calls, when the new one has its own.
LEMMA ShapeStays ==
    ASSUME MedTypeOK, CallsAreSound, NEW c \in Callers, NEW k \in Call, Becomes(c, k),
           spent'.runs \in Nat, spent.runs <= spent'.runs, SoundCall(k, spent'.runs)
    PROVE  CallsAreSound'
<1>1. ASSUME NEW d \in Callers \ {c} PROVE SoundCall(caller'[d], spent'.runs)
  <2>1. caller'[d] = caller[d] /\ SoundCall(caller[d], spent.runs) /\ caller[d].run \in Nat
        /\ spent.runs \in Nat /\ MaxRuns \in Nat
    BY OthersStay, CallFields, MeditationAssumption, SMTT(30) DEF CallsAreSound, MedTypeOK
  <2> QED BY <2>1 DEF SoundCall
<1> QED BY <1>1, OthersStay DEF CallsAreSound

\* The runs, when the call goes on with its own or ends, and no record changes.
LEMMA RunsStay ==
    ASSUME MedTypeOK, RunsAreSound, OneMeditation, NEW c \in Callers, NEW k \in Call,
           Becomes(c, k), k.run \in {caller[c].run, 0},
           spent'.runs = spent.runs, UNCHANGED <<record, aged, saw>>
    PROVE  RunsAreSound' /\ OneMeditation'
<1>1. \A d \in Callers : caller'[d].run = caller[d].run \/ caller'[d].run = 0
  BY OthersStay
<1>2. Recorded' = Recorded
  BY DEF Recorded
<1>3. RunsAreSound'
  BY <1>1, <1>2 DEF RunsAreSound
<1>4. OneMeditation'
  <2>1. \A d \in Callers : caller[d].run \in Nat
    BY CallFields
  <2> QED BY <1>1, <2>1 DEF OneMeditation
<1> QED BY <1>3, <1>4

\* What is stored, when nothing is taken back.
LEMMA MarksStay ==
    ASSUME MedTypeOK, MarksAreStored, NEW c \in Callers, NEW k \in Call, Becomes(c, k),
           facts \subseteq facts', excused \subseteq excused',
           meditated' \subseteq Gone \cup facts' \cup excused',
           k.marks \subseteq facts' \cup excused',
           k.pc \in WithEpisode \ {"store"} => k.at \in facts' \cup excused'
    PROVE  MarksAreStored'
  BY OthersStay DEF MarksAreStored

\* The digests, when what leaves the hand is marked, to go again, or was never with the model.
LEMMA DigestsStay ==
    ASSUME MedTypeOK, DigestsAreKept, NEW c \in Callers, NEW k \in Call, Becomes(c, k),
           digests' = digests, meditated \subseteq meditated', again \subseteq again',
           k.todo \subseteq caller[c].todo, k.todo \cup k.marks \subseteq InHand(c),
           \A e \in InHand(c) \ (k.todo \cup k.marks) : digests[e] = 0 \/ e \in meditated' \cup again',
           \A e \in k.todo : e = caller[c].at => e = k.at
    PROVE  DigestsAreKept'
<1>1. /\ caller'[c] = k /\ \A d \in Callers \ {c} : caller'[d] = caller[d]
      /\ InHand(c)' = k.todo \cup k.marks
      /\ \A d \in Callers \ {c} : InHand(d)' = InHand(d)
  BY OthersStay DEF InHand
<1>2. \A e \in Episodes : digests[e] \in Nat
  BY DEF MedTypeOK
<1>3. \A e \in Gone : digests'[e] = 0
  BY DEF DigestsAreKept
<1>4. ASSUME NEW e \in Episodes, digests'[e] > 0
      PROVE  e \in meditated' \cup again' \cup UNION {InHand(d)' : d \in Callers}
  <2>1. CASE e \in meditated \cup again
    BY <2>1
  <2>2. CASE \E d \in Callers \ {c} : e \in InHand(d)
    BY <1>1, <2>2
  <2>3. CASE e \in InHand(c)
    BY <1>1, <1>2, <1>4, <2>3
  <2> QED BY <1>4, <2>1, <2>2, <2>3 DEF DigestsAreKept
<1>5. \A a, b \in Callers : a # b => InHand(a)' \cap InHand(b)' \subseteq again'
  BY <1>1 DEF DigestsAreKept
<1>6. \A d \in Callers : \A e \in caller'[d].todo : e # caller'[d].at /\ e \notin again' => digests'[e] = 0
  BY <1>1 DEF DigestsAreKept
<1>7. DigestedAgain'
  BY DEF DigestsAreKept, DigestedAgain
<1> QED BY <1>3, <1>4, <1>5, <1>6, <1>7 DEF DigestsAreKept

\* Those about to add what they did not find are callers, each with a run.
LEMMA PendingIsSmall ==
    ASSUME MedTypeOK, CallsAreSound, RunsAreSound, NEW P \in SUBSET Callers,
           \A c \in P : caller[c].pc # "idle"
    PROVE  IsFiniteSet(P) /\ Cardinality(P) <= Cardinality(Callers) /\ Cardinality(P) <= spent.runs
<1>1. IsFiniteSet(P) /\ Cardinality(P) <= Cardinality(Callers)
  BY MeditationAssumption, FS_Subset
<1>2. spent.runs \in Nat
  BY MeditationAssumption DEF MedTypeOK
<1>3. PICK f : f = [c \in P |-> caller[c].run]
  OBVIOUS
<1>4. \A c \in P : caller[c].run \in 1..spent.runs
  <2>1. ASSUME NEW c \in P PROVE caller[c].run \in 1..spent.runs
    <3>1. c \in Callers /\ caller[c].pc # "idle" /\ SoundCall(caller[c], spent.runs)
      BY DEF CallsAreSound
    <3>2. caller[c].run \in Nat /\ caller[c].run # 0 /\ caller[c].run <= spent.runs
      BY <3>1, CallFields DEF SoundCall
    <3> QED BY <1>2, <3>2
  <2> QED BY <2>1
<1>5. f \in Injection(P, 1..spent.runs)
  <2>1. \A a, b \in P : f[a] = f[b] => a = b
    BY <1>3, <1>4 DEF RunsAreSound
  <2>2. f \in [P -> 1..spent.runs]
    BY <1>3, <1>4
  <2> QED BY <2>1, <2>2 DEF Injection, IsInjective
<1>6. IsFiniteSet(1..spent.runs) /\ Cardinality(1..spent.runs) = spent.runs
  <2>1. PICK n \in Nat : n = spent.runs
    BY <1>2
  <2>2. 1 \in Int /\ n \in Int
    OBVIOUS
  <2>3. IsFiniteSet(1..n) /\ Cardinality(1..n) = IF 1 > n THEN 0 ELSE n - 1 + 1
    BY <2>2, FS_Interval
  <2>4. Cardinality(1..n) = n
    BY <2>3
  <2> QED BY <2>1, <2>3, <2>4
<1>7. Cardinality(P) <= Cardinality(1..spent.runs)
  BY <1>5, <1>6, FS_Injection
<1> QED BY <1>1, <1>6, <1>7

\* With fewer that are about to add, and no more that was added, there are few still.
LEMMA FewStay ==
    ASSUME NEW N, NEW P, NEW Q, Few(N, P), IsFiniteSet(P), Q \subseteq P,
           spent.runs \in Nat, spent'.runs \in Nat, spent.runs <= spent'.runs
    PROVE  /\ IsFiniteSet(N) /\ Cardinality(N) + Cardinality(Q) <= Cardinality(Callers)
           /\ Cardinality(N) + Cardinality(Q) <= spent'.runs
<1>1. IsFiniteSet(Q) /\ Cardinality(Q) <= Cardinality(P)
  BY FS_Subset
<1>2. Cardinality(N) \in Nat /\ Cardinality(P) \in Nat /\ Cardinality(Q) \in Nat /\ Cardinality(Callers) \in Nat
  BY <1>1, FS_CardinalityType, MeditationAssumption DEF Few
<1> QED BY <1>1, <1>2 DEF Few

\* One that is about to add adds one.
LEMMA OneMore ==
    ASSUME NEW N, NEW P, NEW M, NEW Q, NEW c \in P, NEW i, Few(N, P), IsFiniteSet(P),
           i \notin N, M = N \cup {i}, Q \subseteq P \ {c}, spent.runs \in Nat
    PROVE  /\ IsFiniteSet(M) /\ Cardinality(M) + Cardinality(Q) <= Cardinality(Callers)
           /\ Cardinality(M) + Cardinality(Q) <= spent.runs
<1>1. IsFiniteSet(P \ {c}) /\ Cardinality(P \ {c}) = Cardinality(P) - 1
  BY FS_RemoveElement
<1>2. IsFiniteSet(Q) /\ Cardinality(Q) <= Cardinality(P \ {c})
  BY <1>1, FS_Subset
<1>3. IsFiniteSet(M) /\ Cardinality(M) = Cardinality(N) + 1
  BY FS_AddElement DEF Few
<1>4. /\ Cardinality(N) \in Nat /\ Cardinality(P) \in Nat /\ Cardinality(Q) \in Nat
      /\ Cardinality(Callers) \in Nat
  BY <1>2, FS_CardinalityType, MeditationAssumption DEF Few
<1> QED BY <1>1, <1>2, <1>3, <1>4 DEF Few

\* No more of a name, when the call adds none and is not about to add another than before.
LEMMA NamesStay ==
    ASSUME MedTypeOK, CallsAreSound, RunsAreSound, NamesAreFew, NEW c \in Callers, NEW k \in Call,
           Becomes(c, k), entities' = entities, spent'.runs \in Nat, spent.runs <= spent'.runs,
           k.pc = "put" /\ k.found = 0 =>
               caller[c].pc = "put" /\ caller[c].found = 0 /\ k.at = caller[c].at /\ k.ids = caller[c].ids
    PROVE  NamesAreFew'
<1> SUFFICES ASSUME NEW n \in Mentioned PROVE Few(Named(n), Adding(n))'
  BY DEF NamesAreFew
<1>1. Adding(n)' \subseteq Adding(n)
  BY OthersStay DEF Adding, TheName
<1>2. IsFiniteSet(Adding(n))
  BY PendingIsSmall DEF Adding
<1>3. Few(Named(n), Adding(n)) /\ Named(n)' = Named(n)
  BY DEF NamesAreFew, Named
<1>4. PICK N, P, Q : N = Named(n) /\ P = Adding(n) /\ Q = Adding(n)'
  OBVIOUS
<1>5. spent.runs \in Nat
  BY MeditationAssumption DEF MedTypeOK
<1>6. /\ IsFiniteSet(N) /\ Cardinality(N) + Cardinality(Q) <= Cardinality(Callers)
      /\ Cardinality(N) + Cardinality(Q) <= spent'.runs
  BY <1>1, <1>2, <1>3, <1>4, <1>5, FewStay
<1> QED BY <1>3, <1>4, <1>6 DEF Few

\* And no more rows of a relation.
LEMMA RowsStay ==
    ASSUME MedTypeOK, CallsAreSound, RunsAreSound, RowsAreFew, NEW c \in Callers, NEW k \in Call,
           Becomes(c, k), relations' = relations, spent'.runs \in Nat, spent.runs <= spent'.runs,
           k.pc = "insert" => caller[c].pc = "insert" /\ k.ids = caller[c].ids
    PROVE  RowsAreFew'
<1> SUFFICES ASSUME NEW p \in Nat \X Nat PROVE Few(Rows(p), Relating(p))'
  BY DEF RowsAreFew
<1>1. Relating(p)' \subseteq Relating(p)
  BY OthersStay DEF Relating, TheRelation
<1>2. IsFiniteSet(Relating(p))
  BY PendingIsSmall DEF Relating
<1>3. Few(Rows(p), Relating(p)) /\ Rows(p)' = Rows(p)
  BY DEF RowsAreFew, Rows
<1>4. PICK N, P, Q : N = Rows(p) /\ P = Relating(p) /\ Q = Relating(p)'
  OBVIOUS
<1>5. spent.runs \in Nat
  BY MeditationAssumption DEF MedTypeOK
<1>6. /\ IsFiniteSet(N) /\ Cardinality(N) + Cardinality(Q) <= Cardinality(Callers)
      /\ Cardinality(N) + Cardinality(Q) <= spent'.runs
  BY <1>1, <1>2, <1>3, <1>4, <1>5, FewStay
<1> QED BY <1>3, <1>4, <1>6 DEF Few

\* Neither, when the call comes to neither insert.
LEMMA TwinsStay ==
    ASSUME MedTypeOK, CallsAreSound, RunsAreSound, TwinsAreBounded, NEW c \in Callers, NEW k \in Call,
           Becomes(c, k), UNCHANGED <<entities, relations>>,
           spent'.runs \in Nat, spent.runs <= spent'.runs, k.pc \notin {"put", "insert"}
    PROVE  TwinsAreBounded'
<1>1. NamesAreFew'
  BY NamesStay DEF TwinsAreBounded
<1>2. RowsAreFew'
  BY RowsStay DEF TwinsAreBounded
<1> QED BY <1>1, <1>2 DEF TwinsAreBounded

\* A statement, whether it fails or not, starts no run.
LEMMA SpentStays ==
    ASSUME MedTypeOK, Fine \/ Errs
    PROVE  /\ spent' \in [runs : 0..MaxRuns, errors : Nat] /\ spent'.runs = spent.runs
           /\ spent.runs \in Nat
<1>1. MaxRuns \in Nat
  BY MeditationAssumption
<1> QED BY <1>1 DEF Fine, Errs, MedTypeOK

\* The whole invariant, from its parts.
LEMMA StepKeeps ==
    ASSUME MedInv, NEW c \in Callers, NEW k \in Call, Becomes(c, k), Fine \/ Errs,
           UNCHANGED <<record, aged, saw>>, SoundCall(k, spent.runs), k.run \in {caller[c].run, 0},
           meditated' \subseteq Episodes, facts' \subseteq Episodes,
           excused' \subseteq Episodes, again' \subseteq Episodes,
           facts \subseteq facts', excused \subseteq excused',
           meditated' \subseteq Gone \cup facts' \cup excused',
           k.marks \subseteq facts' \cup excused',
           k.pc \in WithEpisode \ {"store"} => k.at \in facts' \cup excused',
           digests' \in [Episodes -> Nat], DigestsAreKept',
           entities' \in Seq(Mentioned), relations' \in Seq(Nat \X Nat), TwinsAreBounded'
    PROVE  MedInv'
<1> USE DEF MedInv
<1>1. MedTypeOK'
  BY SpentStays, OthersStay DEF MedTypeOK
<1>2. CallsAreSound'
  <2>1. spent'.runs = spent.runs /\ spent.runs \in Nat
    BY SpentStays
  <2>2. spent'.runs \in Nat /\ spent.runs <= spent'.runs /\ SoundCall(k, spent'.runs)
    BY <2>1
  <2> QED BY <2>2, ShapeStays
<1>3. RunsAreSound' /\ OneMeditation'
  BY SpentStays, RunsStay
<1>4. MarksAreStored'
  BY MarksStay
<1> QED BY <1>1, <1>2, <1>3, <1>4

\* An error that ends the run loses no episode: those in hand go to a later run again.
LEMMA FailingKeeps ==
    ASSUME MedInv, NEW c \in Callers, caller[c].pc \notin {"idle"}, Fails(c),
           UNCHANGED <<store, excused, digests, saw>>
    PROVE  MedInv'
<1> USE DEF MedInv
<1>1. PICK k \in Call :
          /\ Becomes(c, k) /\ k.pc = "failed" /\ k.run = caller[c].run
          /\ k.todo = {} /\ k.marks = {} /\ k.at = NoEpisode /\ k.ids = <<>> /\ k.found = 0
  <2>1. PICK k : k = CallOf("failed", caller[c].run, {}, {}, NoEpisode, <<>>, 0)
    OBVIOUS
  <2>2. Becomes(c, k)
    BY <2>1, CallBecomes DEF Fails
  <2>3. "failed" \in WithEpisode \cup WithNone \cup {"next"} /\ caller[c].run \in Nat
    BY CallFields DEF WithNone
  <2>4. /\ k \in Call /\ k.pc = "failed" /\ k.run = caller[c].run
        /\ k.todo = {} /\ k.marks = {} /\ k.at = NoEpisode /\ k.ids = <<>> /\ k.found = 0
    BY <2>1, <2>3, NothingFits DEF CallOf, Call
  <2> QED BY <2>2, <2>4
<1>2. Errs /\ again' = again \cup InHand(c)
  BY DEF Fails
<1>3. SoundCall(k, spent.runs)
  BY <1>1 DEF CallsAreSound, SoundCall, WithEpisode, WithNone
<1>4. DigestsAreKept'
  <2>1. /\ digests' = digests /\ meditated \subseteq meditated' /\ again \subseteq again'
        /\ InHand(c) \subseteq again'
    BY <1>2 DEF store
  <2>2. /\ k.todo \subseteq caller[c].todo /\ k.todo \cup k.marks \subseteq InHand(c)
        /\ \A e \in InHand(c) \ (k.todo \cup k.marks) : digests[e] = 0 \/ e \in meditated' \cup again'
        /\ \A e \in k.todo : e = caller[c].at => e = k.at
    BY <1>1, <2>1
  <2> QED BY <1>1, <2>1, <2>2, DigestsStay
<1>5. TwinsAreBounded'
  BY <1>1, <1>2, TwinsStay, SpentStays DEF store
<1>6. again' \in SUBSET Episodes
  BY <1>2, CallFields DEF MedTypeOK
<1>7. k.pc \notin WithEpisode
  BY <1>1 DEF WithEpisode
<1>8. /\ meditated' \subseteq Episodes /\ facts' \subseteq Episodes
      /\ excused' \subseteq Episodes /\ digests' \in [Episodes -> Nat]
      /\ entities' \in Seq(Mentioned) /\ relations' \in Seq(Nat \X Nat)
      /\ meditated' \subseteq Gone \cup facts' \cup excused'
  BY DEF store, MedTypeOK, MarksAreStored
<1> QED BY <1>1, <1>2, <1>3, <1>4, <1>5, <1>6, <1>7, <1>8, StepKeeps DEF store

\* What a step of the graph changes leaves the episodes as they are; the one at hand is stored, and
\* stays at hand or is put down.
LEMMA GraphStepKeeps ==
    ASSUME MedInv, NEW c \in Callers, caller[c].pc \in WithEpisode \ {"store"}, Fine \/ Errs,
           UNCHANGED <<meditated, facts, record, aged, tale>>,
           entities' \in Seq(Mentioned), relations' \in Seq(Nat \X Nat), TwinsAreBounded',
           NEW k \in Call, Becomes(c, k), k.run = caller[c].run,
           \/ /\ k.pc \in WithEpisode \ {"store"} /\ SoundCall(k, spent.runs)
              /\ k.todo = caller[c].todo /\ k.marks = caller[c].marks /\ k.at = caller[c].at
           \/ /\ k.pc = "next" /\ k.todo = caller[c].todo \ {caller[c].at}
              /\ k.marks = caller[c].marks \cup {caller[c].at} /\ k.at = NoEpisode /\ k.ids = <<>>
    PROVE  MedInv'
<1> USE DEF MedInv
<1>1. /\ caller[c].pc # "idle" /\ caller[c].at \in caller[c].todo /\ caller[c].run # 0
      /\ caller[c].run <= spent.runs /\ caller[c].at \in facts \cup excused
  BY DEF CallsAreSound, SoundCall, WithEpisode, MarksAreStored
<1>2. SoundCall(k, spent.runs)
  BY <1>1 DEF SoundCall, WithEpisode, WithNone
<1>3. /\ k.marks \subseteq facts \cup excused /\ k.todo \cup k.marks = InHand(c)
      /\ k.pc \in WithEpisode \ {"store"} => k.at \in facts \cup excused
  <2>1. k.todo \cup k.marks = InHand(c)
    BY <1>1 DEF InHand
  <2>2. caller[c].marks \subseteq facts \cup excused
    BY DEF MarksAreStored
  <2> QED BY <1>1, <2>1, <2>2 DEF WithEpisode
<1>4. DigestsAreKept'
  <2>1. /\ digests' = digests /\ meditated \subseteq meditated' /\ again \subseteq again'
        /\ k.todo \subseteq caller[c].todo /\ k.todo \cup k.marks \subseteq InHand(c)
        /\ \A e \in InHand(c) \ (k.todo \cup k.marks) : digests[e] = 0 \/ e \in meditated' \cup again'
    BY <1>3 DEF tale
  <2>2. \A e \in k.todo : e = caller[c].at => e = k.at
    OBVIOUS
  <2> QED BY <2>1, <2>2, DigestsStay
<1>5. /\ meditated' \subseteq Episodes /\ facts' \subseteq Episodes /\ again' \subseteq Episodes
      /\ excused' \subseteq Episodes /\ digests' \in [Episodes -> Nat]
      /\ meditated' \subseteq Gone \cup facts' \cup excused'
  BY DEF tale, MedTypeOK, MarksAreStored
<1>6. /\ k.marks \subseteq facts' \cup excused' /\ facts \subseteq facts' /\ excused \subseteq excused'
      /\ k.pc \in WithEpisode \ {"store"} => k.at \in facts' \cup excused'
      /\ UNCHANGED <<record, aged, saw>> /\ k.run \in {caller[c].run, 0}
  BY <1>3 DEF tale
<1> QED BY <1>2, <1>4, <1>5, <1>6, StepKeeps

\* Whatever ends the episode leaves it stored and put down.
LEMMA DoneKeeps ==
    ASSUME MedInv, NEW c \in Callers, caller[c].pc \in WithEpisode \ {"store"}, Fine \/ Errs,
           EpisodeDone(c), UNCHANGED <<meditated, facts, entities, relations, record, aged, tale>>
    PROVE  MedInv'
<1> USE DEF MedInv
<1>1. caller[c].at \in Episodes
  BY CallFields DEF CallsAreSound, SoundCall, WithEpisode
<1>2. PICK k \in Call : /\ Becomes(c, k) /\ k.pc = "next" /\ k.run = caller[c].run
                        /\ k.todo = caller[c].todo \ {caller[c].at}
                        /\ k.marks = caller[c].marks \cup {caller[c].at}
                        /\ k.at = NoEpisode /\ k.ids = <<>> /\ k.found = 0
  BY <1>1, CallIsDone
<1>3. TwinsAreBounded'
  BY <1>2, TwinsStay, SpentStays
<1>4. entities' \in Seq(Mentioned) /\ relations' \in Seq(Nat \X Nat)
  BY DEF MedTypeOK
<1> QED BY <1>2, <1>3, <1>4, GraphStepKeeps

\* The check of insert_relationship: when it finds no row, none is there.
LEMMA RelateKeeps ==
    ASSUME MedInv, NEW c \in Callers, MedRelate(c)
    PROVE  MedInv'
<1> USE DEF MedInv
<1>1. caller[c].pc = "relate" /\ UNCHANGED <<store, tale>> /\ (Fine \/ Errs)
  BY DEF MedRelate, At
<1>2. CASE EpisodeDone(c)
  BY <1>1, <1>2, DoneKeeps DEF store, WithEpisode
<1>3. ASSUME NEW p \in {"link", "insert"}, Goes(c, p),
             p = "insert" => \A i \in DOMAIN relations : relations[i] # TheRelation(c)
      PROVE  MedInv'
  <2>1. PICK k \in Call : /\ Becomes(c, k) /\ k.pc = p /\ k.run = caller[c].run
                          /\ k.todo = caller[c].todo /\ k.marks = caller[c].marks
                          /\ k.at = caller[c].at /\ k.ids = caller[c].ids /\ k.found = caller[c].found
    BY <1>3, CallGoes DEF WithEpisode
  <2>2. SoundCall(k, spent.runs)
    BY <1>1, <1>3, <2>1 DEF CallsAreSound, SoundCall, WithEpisode, WithNone
  <2>3. spent.runs \in Nat /\ spent'.runs = spent.runs
    BY <1>1, SpentStays
  <2>4. NamesAreFew'
    BY <1>1, <1>3, <2>1, <2>3, NamesStay DEF TwinsAreBounded, store
  <2>5. RowsAreFew'
    <3>1. CASE p = "link"
      BY <1>1, <2>1, <2>3, <3>1, RowsStay DEF TwinsAreBounded, store
    <3>2. CASE p = "insert"
      <4> SUFFICES ASSUME NEW q \in Nat \X Nat PROVE Few(Rows(q), Relating(q))'
        BY DEF RowsAreFew
      <4>1. PICK N, P, Q : N = Rows(q) /\ P = Relating(q) /\ Q = Relating(q)'
        OBVIOUS
      <4>2. Rows(q)' = N
        BY <1>1, <4>1 DEF Rows, store
      <4>3. Few(N, P) /\ IsFiniteSet(P)
        BY <4>1, PendingIsSmall DEF TwinsAreBounded, RowsAreFew, Relating
      <4>4. CASE q = TheRelation(c)
        <5>1. N = {}
          BY <1>3, <3>2, <4>1, <4>4 DEF Rows
        <5>2. Q \in SUBSET Callers /\ \A d \in Q : caller[d].pc # "idle"
          BY <1>1, <2>1, <4>1, OthersStay DEF Relating
        <5>3. IsFiniteSet(Q) /\ Cardinality(Q) <= Cardinality(Callers) /\ Cardinality(Q) <= spent.runs
          BY <5>2, PendingIsSmall
        <5>4. IsFiniteSet(N) /\ Cardinality(N) = 0 /\ Cardinality(Q) \in Nat
          BY <5>1, <5>3, FS_EmptySet, FS_CardinalityType
        <5> QED BY <2>3, <4>1, <4>2, <5>3, <5>4 DEF Few
      <4>5. CASE q # TheRelation(c)
        <5>1. Q \subseteq P
          BY <2>1, <4>1, <4>5, OthersStay DEF Relating, TheRelation
        <5>2. /\ IsFiniteSet(N) /\ Cardinality(N) + Cardinality(Q) <= Cardinality(Callers)
              /\ Cardinality(N) + Cardinality(Q) <= spent'.runs
          BY <2>3, <4>3, <5>1, FewStay
        <5> QED BY <4>1, <4>2, <5>2 DEF Few
      <4> QED BY <4>4, <4>5
    <3> QED BY <1>3, <3>1, <3>2
  <2>6. entities' \in Seq(Mentioned) /\ relations' \in Seq(Nat \X Nat)
    BY <1>1 DEF MedTypeOK, store
  <2>7. k.pc \in WithEpisode \ {"store"} /\ caller[c].pc \in WithEpisode \ {"store"}
    BY <1>1, <1>3, <2>1 DEF WithEpisode
  <2>8. TwinsAreBounded' /\ UNCHANGED <<meditated, facts, record, aged, tale>>
    BY <1>1, <2>4, <2>5 DEF TwinsAreBounded, store
  <2> QED BY <1>1, <2>1, <2>2, <2>6, <2>7, <2>8, GraphStepKeeps
<1>4. \/ EpisodeDone(c)
      \/ \E p \in {"link", "insert"} :
            /\ Goes(c, p)
            /\ p = "insert" => \A i \in DOMAIN relations : relations[i] # TheRelation(c)
  BY DEF MedRelate
<1> QED BY <1>2, <1>3, <1>4

\* The insert of insert_relationship.
LEMMA InsertKeeps ==
    ASSUME MedInv, NEW c \in Callers, MedInsert(c)
    PROVE  MedInv'
<1> USE DEF MedInv
<1>1. /\ caller[c].pc = "insert" /\ (Fine \/ Errs)
      /\ UNCHANGED <<meditated, facts, entities, links, record, aged, tale>>
  BY DEF MedInsert, At
<1>2. CASE EpisodeDone(c) /\ UNCHANGED relations
  BY <1>1, <1>2, DoneKeeps DEF WithEpisode
<1>3. CASE relations' = Append(relations, TheRelation(c)) /\ Goes(c, "link")
  <2>1. PICK k \in Call : /\ Becomes(c, k) /\ k.pc = "link" /\ k.run = caller[c].run
                          /\ k.todo = caller[c].todo /\ k.marks = caller[c].marks
                          /\ k.at = caller[c].at /\ k.ids = caller[c].ids /\ k.found = caller[c].found
    BY <1>3, CallGoes DEF WithEpisode
  <2>2. SoundCall(k, spent.runs)
    BY <1>1, <2>1 DEF CallsAreSound, SoundCall, WithEpisode, WithNone
  <2>3. spent.runs \in Nat /\ spent'.runs = spent.runs
    BY <1>1, SpentStays
  <2>4. NamesAreFew'
    BY <1>1, <2>1, <2>3, NamesStay DEF TwinsAreBounded
  <2>5. PICK pair \in Nat \X Nat : pair = TheRelation(c)
    <3>1. caller[c].ids \in Seq(Nat) /\ caller[c].ids # <<>>
      BY <1>1, CallFields DEF CallsAreSound, SoundCall
    <3>2. caller[c].ids[1] \in Nat /\ caller[c].ids[Len(caller[c].ids)] \in Nat
      BY <3>1
    <3> QED BY <3>2 DEF TheRelation
  <2>6. /\ relations \in Seq(Nat \X Nat) /\ relations' = Append(relations, pair)
        /\ relations' \in Seq(Nat \X Nat)
    BY <1>3, <2>5 DEF MedTypeOK
  <2>7. RowsAreFew'
    <3> SUFFICES ASSUME NEW q \in Nat \X Nat PROVE Few(Rows(q), Relating(q))'
      BY DEF RowsAreFew
    <3>1. PICK N, P, M, Q : N = Rows(q) /\ P = Relating(q) /\ M = Rows(q)' /\ Q = Relating(q)'
      OBVIOUS
    <3>2. Few(N, P) /\ IsFiniteSet(P)
      BY <3>1, PendingIsSmall DEF TwinsAreBounded, RowsAreFew, Relating
    <3>3. Q \subseteq P \ {c}
      BY <2>1, <3>1, OthersStay DEF Relating, TheRelation
    <3>4. CASE q = pair
      <4>1. c \in P
        BY <1>1, <2>5, <3>1, <3>4 DEF Relating
      <4>2. Len(relations) + 1 \notin N /\ M = N \cup {Len(relations) + 1}
        BY <2>6, <3>1, <3>4 DEF Rows
      <4>3. /\ IsFiniteSet(M) /\ Cardinality(M) + Cardinality(Q) <= Cardinality(Callers)
            /\ Cardinality(M) + Cardinality(Q) <= spent.runs
        BY <2>3, <3>2, <3>3, <4>1, <4>2, OneMore
      <4> QED BY <2>3, <3>1, <4>3 DEF Few
    <3>5. CASE q # pair
      <4>1. M = N
        BY <2>6, <3>1, <3>5 DEF Rows
      <4>2. /\ IsFiniteSet(N) /\ Cardinality(N) + Cardinality(Q) <= Cardinality(Callers)
            /\ Cardinality(N) + Cardinality(Q) <= spent'.runs
        BY <2>3, <3>2, <3>3, FewStay
      <4> QED BY <3>1, <4>1, <4>2 DEF Few
    <3> QED BY <3>4, <3>5
  <2>8. entities' \in Seq(Mentioned)
    BY <1>1 DEF MedTypeOK
  <2>9. k.pc \in WithEpisode \ {"store"} /\ caller[c].pc \in WithEpisode \ {"store"}
    BY <1>1, <2>1 DEF WithEpisode
  <2>10. TwinsAreBounded' /\ UNCHANGED <<meditated, facts, record, aged, tale>>
    BY <1>1, <2>4, <2>7 DEF TwinsAreBounded
  <2> QED BY <1>1, <2>1, <2>2, <2>6, <2>8, <2>9, <2>10, GraphStepKeeps
<1> QED BY <1>2, <1>3 DEF MedInsert

\* find_entity_by_name: when it finds none, none of the name is there.
LEMMA LookKeeps ==
    ASSUME MedInv, NEW c \in Callers, MedLook(c)
    PROVE  MedInv'
<1> USE DEF MedInv
<1>1. caller[c].pc = "look" /\ UNCHANGED <<store, tale>> /\ (Fine \/ Errs)
  BY DEF MedLook, At
<1>2. CASE EpisodeDone(c)
  BY <1>1, <1>2, DoneKeeps DEF store, WithEpisode
<1>3. ASSUME NEW id \in 0..Len(entities), caller' = [caller EXCEPT ![c].pc = "put", ![c].found = id],
             id = 0 => \A i \in DOMAIN entities : entities[i] # TheName(c)
      PROVE  MedInv'
  <2>1. PICK k \in Call : /\ Becomes(c, k) /\ k.pc = "put" /\ k.run = caller[c].run
                          /\ k.todo = caller[c].todo /\ k.marks = caller[c].marks
                          /\ k.at = caller[c].at /\ k.ids = caller[c].ids /\ k.found = id
    <3>1. PICK k : k = CallOf("put", caller[c].run, caller[c].todo, caller[c].marks, caller[c].at,
                              caller[c].ids, id)
      OBVIOUS
    <3>2. Becomes(c, k)
      BY <1>3, <3>1, CallBecomes
    <3>3. id \in Nat
      BY DEF MedTypeOK
    <3>4. /\ k \in Call /\ k.pc = "put" /\ k.run = caller[c].run
          /\ k.todo = caller[c].todo /\ k.marks = caller[c].marks
          /\ k.at = caller[c].at /\ k.ids = caller[c].ids /\ k.found = id
      BY <3>1, <3>3, CallFields DEF CallOf, Call, WithEpisode
    <3> QED BY <3>2, <3>4
  <2>2. SoundCall(k, spent.runs)
    BY <1>1, <2>1 DEF CallsAreSound, SoundCall, WithEpisode, WithNone
  <2>3. spent.runs \in Nat /\ spent'.runs = spent.runs
    BY <1>1, SpentStays
  <2>4. RowsAreFew'
    BY <1>1, <2>1, <2>3, RowsStay DEF TwinsAreBounded, store
  <2>5. NamesAreFew'
    <3>1. CASE id # 0
      BY <1>1, <2>1, <2>3, <3>1, NamesStay DEF TwinsAreBounded, store
    <3>2. CASE id = 0
      <4> SUFFICES ASSUME NEW n \in Mentioned PROVE Few(Named(n), Adding(n))'
        BY DEF NamesAreFew
      <4>1. PICK N, P, Q : N = Named(n) /\ P = Adding(n) /\ Q = Adding(n)'
        OBVIOUS
      <4>2. Named(n)' = N
        BY <1>1, <4>1 DEF Named, store
      <4>3. Few(N, P) /\ IsFiniteSet(P)
        BY <4>1, PendingIsSmall DEF TwinsAreBounded, NamesAreFew, Adding
      <4>4. CASE n = TheName(c)
        <5>1. N = {}
          BY <1>3, <3>2, <4>1, <4>4 DEF Named
        <5>2. Q \in SUBSET Callers /\ \A d \in Q : caller[d].pc # "idle"
          BY <1>1, <2>1, <4>1, OthersStay DEF Adding
        <5>3. IsFiniteSet(Q) /\ Cardinality(Q) <= Cardinality(Callers) /\ Cardinality(Q) <= spent.runs
          BY <5>2, PendingIsSmall
        <5>4. IsFiniteSet(N) /\ Cardinality(N) = 0 /\ Cardinality(Q) \in Nat
          BY <5>1, <5>3, FS_EmptySet, FS_CardinalityType
        <5> QED BY <2>3, <4>1, <4>2, <5>3, <5>4 DEF Few
      <4>5. CASE n # TheName(c)
        <5>1. Q \subseteq P
          BY <2>1, <4>1, <4>5, OthersStay, ZenonT(40) DEF Adding, TheName
        <5>2. /\ IsFiniteSet(N) /\ Cardinality(N) + Cardinality(Q) <= Cardinality(Callers)
              /\ Cardinality(N) + Cardinality(Q) <= spent'.runs
          BY <2>3, <4>3, <5>1, FewStay, SMTT(30)
        <5> QED BY <4>1, <4>2, <5>2 DEF Few
      <4> QED BY <4>4, <4>5
    <3> QED BY <3>1, <3>2
  <2>6. entities' \in Seq(Mentioned) /\ relations' \in Seq(Nat \X Nat)
    BY <1>1 DEF MedTypeOK, store
  <2>7. k.pc \in WithEpisode \ {"store"} /\ caller[c].pc \in WithEpisode \ {"store"}
    BY <1>1, <2>1 DEF WithEpisode
  <2>8. TwinsAreBounded' /\ UNCHANGED <<meditated, facts, record, aged, tale>>
    BY <1>1, <2>4, <2>5 DEF TwinsAreBounded, store
  <2> QED BY <1>1, <2>1, <2>2, <2>6, <2>7, <2>8, GraphStepKeeps
<1>4. \/ EpisodeDone(c)
      \/ \E id \in 0..Len(entities) :
            /\ caller' = [caller EXCEPT ![c].pc = "put", ![c].found = id]
            /\ id = 0 => \A i \in DOMAIN entities : entities[i] # TheName(c)
  BY DEF MedLook
<1> QED BY <1>2, <1>3, <1>4

\* upsert_entity.
LEMMA PutKeeps ==
    ASSUME MedInv, NEW c \in Callers, MedPut(c)
    PROVE  MedInv'
<1> USE DEF MedInv
<1>1. /\ caller[c].pc = "put" /\ (Fine \/ Errs)
      /\ UNCHANGED <<meditated, facts, relations, links, record, aged, tale>>
  BY DEF MedPut, At
<1>2. CASE EpisodeDone(c) /\ UNCHANGED entities
  BY <1>1, <1>2, DoneKeeps DEF WithEpisode
<1>3. ASSUME NEW id \in Nat, NEW p \in {"relate", "look"},
             p = "look" => Len(caller[c].ids) + 1 # Len(Mentions[caller[c].at]),
             caller' = [caller EXCEPT ![c].pc = p, ![c].ids = Append(caller[c].ids, id), ![c].found = 0],
             \/ caller[c].found = 0 /\ entities' = Append(entities, TheName(c))
             \/ caller[c].found # 0 /\ entities' = entities
      PROVE  MedInv'
  <2>1. PICK i : i = Append(caller[c].ids, id)
    OBVIOUS
  <2>2. /\ i \in Seq(Nat) /\ Len(i) = Len(caller[c].ids) + 1 /\ i # <<>>
        /\ Len(caller[c].ids) \in Nat
    <3>1. PICK ids \in Seq(Nat) : ids = caller[c].ids
      BY CallFields
    <3>2. i = Append(ids, id)
      BY <2>1, <3>1
    <3>3. i \in Seq(Nat) /\ Len(i) = Len(ids) + 1 /\ i # <<>> /\ Len(ids) \in Nat
      BY <3>2
    <3> QED BY <3>1, <3>3
  <2>3. PICK k \in Call : /\ Becomes(c, k) /\ k.pc = p /\ k.run = caller[c].run
                          /\ k.todo = caller[c].todo /\ k.marks = caller[c].marks
                          /\ k.at = caller[c].at /\ k.ids = i /\ k.found = 0
    <3>1. PICK k : k = CallOf(p, caller[c].run, caller[c].todo, caller[c].marks, caller[c].at, i, 0)
      OBVIOUS
    <3>2. Becomes(c, k)
      BY <1>3, <2>1, <3>1, CallBecomes
    <3>3. /\ k \in Call /\ k.pc = p /\ k.run = caller[c].run
          /\ k.todo = caller[c].todo /\ k.marks = caller[c].marks
          /\ k.at = caller[c].at /\ k.ids = i /\ k.found = 0
      BY <2>2, <3>1, CallFields DEF CallOf, Call, WithEpisode
    <3> QED BY <3>2, <3>3
  <2>4. /\ caller[c].at \in Episodes /\ Len(caller[c].ids) < Len(Mentions[caller[c].at])
        /\ Len(Mentions[caller[c].at]) \in Nat /\ TheName(c) \in Mentioned
    <3>1. caller[c].at \in Episodes /\ Len(caller[c].ids) < Len(Mentions[caller[c].at])
      BY <1>1, CallFields DEF CallsAreSound, SoundCall, WithEpisode
    <3> QED BY <2>2, <3>1, NamesAreMentioned DEF TheName
  <2>5. SoundCall(k, spent.runs)
    <3>1. caller[c].run # 0 /\ caller[c].run <= spent.runs /\ caller[c].at \in caller[c].todo \ Gone
      BY <1>1 DEF CallsAreSound, SoundCall, WithEpisode
    <3>2. p = "look" => Len(i) < Len(Mentions[k.at])
      BY <1>3, <2>2, <2>3, <2>4
    <3> QED BY <2>2, <2>3, <3>1, <3>2 DEF SoundCall, WithEpisode, WithNone
  <2>6. spent.runs \in Nat /\ spent'.runs = spent.runs
    BY <1>1, SpentStays
  <2>7. RowsAreFew'
    BY <1>1, <2>3, <2>6, RowsStay DEF TwinsAreBounded
  <2>8. NamesAreFew' /\ entities' \in Seq(Mentioned)
    <3>1. CASE caller[c].found # 0
      <4>1. entities' = entities
        BY <1>3, <3>1
      <4>2. k.pc = "put" => FALSE
        BY <2>3
      <4>3. NamesAreFew'
        BY <2>3, <2>6, <4>1, <4>2, NamesStay DEF TwinsAreBounded
      <4> QED BY <4>1, <4>3 DEF MedTypeOK
    <3>2. CASE caller[c].found = 0
      <4>1. PICK name \in Mentioned : name = TheName(c)
        BY <2>4
      <4>2. /\ entities \in Seq(Mentioned) /\ entities' = Append(entities, name)
            /\ entities' \in Seq(Mentioned)
        <5>1. entities' = Append(entities, name)
          BY <1>3, <3>2, <4>1
        <5> QED BY <5>1 DEF MedTypeOK
      <4>3. ASSUME NEW n \in Mentioned PROVE Few(Named(n), Adding(n))'
        <5>1. PICK N, P, M, Q : N = Named(n) /\ P = Adding(n) /\ M = Named(n)' /\ Q = Adding(n)'
          OBVIOUS
        <5>2. Few(N, P) /\ IsFiniteSet(P)
          BY <5>1, PendingIsSmall DEF TwinsAreBounded, NamesAreFew, Adding
        <5>3. Q \subseteq P \ {c}
          BY <1>3, <2>3, <5>1, OthersStay, ZenonT(40) DEF Adding, TheName
        <5>4. CASE n = name
          <6>1. c \in P
            BY <1>1, <3>2, <4>1, <5>1, <5>4 DEF Adding
          <6>2. Len(entities) + 1 \notin N /\ M = N \cup {Len(entities) + 1}
            BY <4>2, <5>1, <5>4 DEF Named
          <6>3. /\ IsFiniteSet(M) /\ Cardinality(M) + Cardinality(Q) <= Cardinality(Callers)
                /\ Cardinality(M) + Cardinality(Q) <= spent.runs
            BY <2>6, <5>2, <5>3, <6>1, <6>2, OneMore
          <6> QED BY <2>6, <5>1, <6>3 DEF Few
        <5>5. CASE n # name
          <6>1. M = N
            BY <4>2, <5>1, <5>5 DEF Named
          <6>2. /\ IsFiniteSet(N) /\ Cardinality(N) + Cardinality(Q) <= Cardinality(Callers)
                /\ Cardinality(N) + Cardinality(Q) <= spent'.runs
            BY <2>6, <5>2, <5>3, FewStay
          <6> QED BY <5>1, <6>1, <6>2 DEF Few
        <5> QED BY <5>4, <5>5
      <4> QED BY <4>2, <4>3 DEF NamesAreFew
    <3> QED BY <3>1, <3>2
  <2>9. relations' \in Seq(Nat \X Nat)
    BY <1>1 DEF MedTypeOK
  <2>10. k.pc \in WithEpisode \ {"store"} /\ caller[c].pc \in WithEpisode \ {"store"}
    BY <1>1, <1>3, <2>3 DEF WithEpisode
  <2>11. TwinsAreBounded' /\ UNCHANGED <<meditated, facts, record, aged, tale>>
    BY <1>1, <2>7, <2>8 DEF TwinsAreBounded
  <2> QED BY <1>1, <2>3, <2>5, <2>8, <2>9, <2>10, <2>11, GraphStepKeeps
<1>4. CASE ~(EpisodeDone(c) /\ UNCHANGED entities)
  <2>1. PICK new \in BOOLEAN : new = (caller[c].found = 0)
    OBVIOUS
  <2>2. PICK id : id = IF new THEN Len(entities) + 1 ELSE caller[c].found
    OBVIOUS
  <2>3. PICK p : p = IF Len(caller[c].ids) + 1 = Len(Mentions[caller[c].at]) THEN "relate" ELSE "look"
    OBVIOUS
  <2>4. /\ entities' = IF new THEN Append(entities, TheName(c)) ELSE entities
        /\ caller' = [caller EXCEPT ![c].pc = p, ![c].ids = Append(caller[c].ids, id), ![c].found = 0]
    BY <1>4, <2>1, <2>2, <2>3 DEF MedPut, MedTypeOK
  <2>5. id \in Nat
    BY <2>2, CallFields DEF MedTypeOK
  <2>6. /\ p \in {"relate", "look"}
        /\ p = "look" => Len(caller[c].ids) + 1 # Len(Mentions[caller[c].at])
    BY <2>3
  <2> QED BY <1>3, <2>1, <2>4, <2>5, <2>6
<1> QED BY <1>2, <1>4

\* link_memory_entity changes the links alone.
LEMMA LinkKeeps ==
    ASSUME MedInv, NEW c \in Callers, MedLink(c)
    PROVE  MedInv'
<1>1. /\ caller[c].pc \in WithEpisode \ {"store"} /\ (Fine \/ Errs) /\ EpisodeDone(c)
      /\ UNCHANGED <<meditated, facts, entities, relations, record, aged, tale>>
  BY DEF MedLink, At, WithEpisode
<1> QED BY <1>1, DoneKeeps

\* add_batch: the fact is stored or given up, and the episode goes on to the graph or is put down.
LEMMA StoreKeeps ==
    ASSUME MedInv, NEW c \in Callers, MedStore(c)
    PROVE  MedInv'
<1> USE DEF MedInv
<1>1. /\ caller[c].pc = "store" /\ (Fine \/ Errs)
      /\ UNCHANGED <<meditated, entities, relations, links, record, aged, again, digests, saw>>
  BY DEF MedStore, At
<1>2. /\ caller[c].at \in Episodes /\ caller[c].at \in caller[c].todo \ Gone /\ caller[c].run # 0
      /\ caller[c].run <= spent.runs /\ caller[c].ids = <<>>
  BY <1>1, CallFields DEF CallsAreSound, SoundCall, WithEpisode
<1>3. /\ facts' \subseteq Episodes /\ excused' \subseteq Episodes
      /\ facts \subseteq facts' /\ excused \subseteq excused' /\ caller[c].at \in facts' \cup excused'
  BY <1>2 DEF MedStore, MedTypeOK
<1>4. /\ meditated' \subseteq Episodes /\ again' \subseteq Episodes /\ digests' \in [Episodes -> Nat]
      /\ entities' \in Seq(Mentioned) /\ relations' \in Seq(Nat \X Nat)
      /\ meditated' \subseteq Gone \cup facts' \cup excused'
      /\ caller[c].marks \subseteq facts' \cup excused'
  BY <1>1, <1>3 DEF MedTypeOK, MarksAreStored
<1>5. ASSUME NEW k \in Call, Becomes(c, k), k.run = caller[c].run, SoundCall(k, spent.runs),
             k.pc \notin {"put", "insert"}, k.at \in {caller[c].at, NoEpisode},
             k.pc \in WithEpisode => k.at = caller[c].at,
             \/ k.todo = caller[c].todo /\ k.marks = caller[c].marks /\ k.at = caller[c].at
             \/ k.todo = caller[c].todo \ {caller[c].at} /\ k.marks = caller[c].marks \cup {caller[c].at}
      PROVE  MedInv'
  <2>1. k.todo \cup k.marks = InHand(c) /\ k.todo \subseteq caller[c].todo
    BY <1>2, <1>5 DEF InHand
  <2>2. \A e \in k.todo : e = caller[c].at => e = k.at
    BY <1>5
  <2>3. DigestsAreKept'
    <3>1. digests' = digests /\ meditated \subseteq meditated' /\ again \subseteq again'
      BY <1>1
    <3> QED BY <1>5, <2>1, <2>2, <3>1, DigestsStay
  <2>4. TwinsAreBounded'
    BY <1>1, <1>5, TwinsStay, SpentStays
  <2>5. k.marks \subseteq facts' \cup excused' /\ (k.pc \in WithEpisode \ {"store"} => k.at \in facts' \cup excused')
    BY <1>3, <1>4, <1>5
  <2> QED BY <1>1, <1>3, <1>4, <1>5, <2>3, <2>4, <2>5, StepKeeps
<1>6. CASE Goes(c, "look")
  <2>1. PICK k \in Call : /\ Becomes(c, k) /\ k.pc = "look" /\ k.run = caller[c].run
                          /\ k.todo = caller[c].todo /\ k.marks = caller[c].marks
                          /\ k.at = caller[c].at /\ k.ids = caller[c].ids /\ k.found = caller[c].found
    BY <1>6, CallGoes DEF WithEpisode
  <2>2. Len(k.ids) < Len(Mentions[k.at])
    BY <1>2, <2>1, NamesAreMentioned
  <2>3. SoundCall(k, spent.runs)
    BY <1>2, <2>1, <2>2 DEF SoundCall, WithEpisode, WithNone
  <2> QED BY <1>5, <2>1, <2>3
<1>7. CASE EpisodeDone(c)
  <2>1. PICK k \in Call : /\ Becomes(c, k) /\ k.pc = "next" /\ k.run = caller[c].run
                          /\ k.todo = caller[c].todo \ {caller[c].at}
                          /\ k.marks = caller[c].marks \cup {caller[c].at}
                          /\ k.at = NoEpisode /\ k.ids = <<>> /\ k.found = 0
    BY <1>2, <1>7, CallIsDone
  <2>2. SoundCall(k, spent.runs) /\ k.pc \notin WithEpisode
    BY <1>2, <2>1 DEF SoundCall, WithEpisode, WithNone
  <2> QED BY <1>5, <2>1, <2>2
<1> QED BY <1>6, <1>7 DEF MedStore

\* What a call between two episodes holds is fewer, and what it lets go is marked, goes again or
\* was never with the model.
LEMMA BetweenKeeps ==
    ASSUME MedInv, NEW c \in Callers, caller[c].pc = "next", Fine \/ Errs,
           UNCHANGED <<facts, entities, relations, record, aged, excused, digests, saw>>,
           NEW t \in SUBSET caller[c].todo, NEW m \in SUBSET caller[c].marks,
           Becomes(c, CallOf("next", caller[c].run, t, m, caller[c].at, caller[c].ids, caller[c].found)),
           meditated \subseteq meditated', again \subseteq again', again' \subseteq Episodes,
           meditated' \subseteq Gone \cup facts \cup excused,
           \A e \in InHand(c) \ (t \cup m) : digests[e] = 0 \/ e \in meditated' \cup again'
    PROVE  MedInv'
<1> USE DEF MedInv
<1>1. PICK k \in Call : /\ Becomes(c, k) /\ k.pc = "next" /\ k.run = caller[c].run
                        /\ k.todo = t /\ k.marks = m
                        /\ k.at = caller[c].at /\ k.ids = caller[c].ids /\ k.found = caller[c].found
  <2>1. PICK k : k = CallOf("next", caller[c].run, t, m, caller[c].at, caller[c].ids, caller[c].found)
    OBVIOUS
  <2>2. Becomes(c, k)
    BY <2>1
  <2>3. /\ k \in Call /\ k.pc = "next" /\ k.run = caller[c].run
        /\ k.todo = t /\ k.marks = m
        /\ k.at = caller[c].at /\ k.ids = caller[c].ids /\ k.found = caller[c].found
    BY <2>1, CallFields DEF CallOf, Call
  <2> QED BY <2>2, <2>3
<1>2. SoundCall(k, spent.runs) /\ k.pc \notin WithEpisode
  BY <1>1 DEF CallsAreSound, SoundCall, WithEpisode, WithNone
<1>3. DigestsAreKept'
  <2>1. /\ k.todo \subseteq caller[c].todo /\ k.todo \cup k.marks \subseteq InHand(c)
        /\ \A e \in InHand(c) \ (k.todo \cup k.marks) : digests[e] = 0 \/ e \in meditated' \cup again'
        /\ \A e \in k.todo : e = caller[c].at => e = k.at
    BY <1>1 DEF InHand
  <2> QED BY <1>1, <2>1, DigestsStay
<1>4. TwinsAreBounded'
  BY <1>1, TwinsStay, SpentStays
<1>5. /\ facts \subseteq Episodes /\ excused \subseteq Episodes /\ meditated' \subseteq Episodes
      /\ digests' \in [Episodes -> Nat]
      /\ entities' \in Seq(Mentioned) /\ relations' \in Seq(Nat \X Nat)
      /\ k.marks \subseteq facts \cup excused
  BY <1>1, MeditationAssumption DEF MedTypeOK, MarksAreStored
<1> QED BY <1>1, <1>2, <1>3, <1>4, <1>5, StepKeeps

\* An episode without events never went to the model.
LEMMA SkipKeeps ==
    ASSUME MedInv, NEW c \in Callers, MedSkip(c)
    PROVE  MedInv'
<1> USE DEF MedInv
<1>1. PICK e \in caller[c].todo \cap Gone :
          \/ /\ caller' = [caller EXCEPT ![c].todo = @ \ {e}]
             /\ \/ Fine /\ meditated' = meditated \cup {e}
                \/ Errs /\ UNCHANGED meditated
             /\ UNCHANGED again
          \/ Fails(c) /\ UNCHANGED meditated
  BY DEF MedSkip
<1>7. /\ caller[c].pc = "next"
      /\ UNCHANGED <<facts, entities, relations, links, record, aged, excused, digests, saw>>
  BY DEF MedSkip, At
<1>8. CASE Fails(c) /\ UNCHANGED meditated
  <2>1. UNCHANGED <<store, excused, digests, saw>>
    BY <1>7, <1>8 DEF store
  <2> QED BY <1>7, <1>8, <2>1, FailingKeeps
<1>9. SUFFICES ASSUME ~(Fails(c) /\ UNCHANGED meditated)
               PROVE  MedInv'
  BY <1>8
<1>2. /\ (Fine \/ Errs) /\ UNCHANGED again
      /\ caller' = [caller EXCEPT ![c].todo = @ \ {e}]
      /\ UNCHANGED meditated \/ meditated' = meditated \cup {e}
  BY <1>1, <1>9
<1>3. PICK t : t = caller[c].todo \ {e}
  OBVIOUS
<1>4. Becomes(c, CallOf("next", caller[c].run, t, caller[c].marks, caller[c].at, caller[c].ids, caller[c].found))
  BY <1>2, <1>3, <1>7, CallBecomes
<1>5. \A f \in InHand(c) \ (t \cup caller[c].marks) : digests[f] = 0
  BY <1>1, <1>3 DEF InHand, DigestsAreKept
<1>6. /\ meditated \subseteq meditated' /\ meditated' \subseteq Gone \cup facts \cup excused
      /\ again' \subseteq Episodes
  BY <1>1, <1>2, <1>7 DEF MarksAreStored, MedTypeOK
<1>10. /\ Fine \/ Errs
       /\ again \subseteq again' /\ t \in SUBSET caller[c].todo /\ caller[c].marks \in SUBSET caller[c].marks
       /\ \A f \in InHand(c) \ (t \cup caller[c].marks) : digests[f] = 0 \/ f \in meditated' \cup again'
  BY <1>2, <1>3, <1>5
<1> QED BY <1>4, <1>6, <1>7, <1>10, BetweenKeeps

\* What is put down is marked, or goes again.
LEMMA MarkKeeps ==
    ASSUME MedInv, NEW c \in Callers, MedMark(c)
    PROVE  MedInv'
<1> USE DEF MedInv
<1>1. PICK e \in caller[c].marks :
          /\ caller' = [caller EXCEPT ![c].marks = @ \ {e}]
          /\ \/ Fine /\ meditated' = meditated \cup {e} /\ UNCHANGED again
             \/ Errs /\ again' = again \cup {e} /\ UNCHANGED meditated
  BY DEF MedMark
<1>2. /\ caller[c].pc = "next" /\ (Fine \/ Errs)
      /\ UNCHANGED <<facts, entities, relations, record, aged, excused, digests, saw>>
  BY DEF MedMark, At
<1>3. PICK m, t : m = caller[c].marks \ {e} /\ t = caller[c].todo
  OBVIOUS
<1>4. Becomes(c, CallOf("next", caller[c].run, t, m, caller[c].at, caller[c].ids, caller[c].found))
  BY <1>1, <1>2, <1>3, CallBecomes
<1>5. \A f \in InHand(c) \ (t \cup m) : digests[f] = 0 \/ f \in meditated' \cup again'
  BY <1>1, <1>3 DEF InHand
<1>6. e \in Episodes /\ e \in facts \cup excused
  BY <1>1, CallFields DEF MarksAreStored
<1>7. /\ meditated \subseteq meditated' /\ meditated' \subseteq Gone \cup facts \cup excused
      /\ again \subseteq again' /\ again' \subseteq Episodes
  BY <1>1, <1>2, <1>6 DEF MarksAreStored, MedTypeOK
<1>8. t \in SUBSET caller[c].todo /\ m \in SUBSET caller[c].marks
  BY <1>3
<1> HIDE DEF MedInv
<1> QED BY <1>2, <1>4, <1>5, <1>7, <1>8, BetweenKeeps

\* The model is asked about an episode in hand that it has not been asked about before, unless it
\* goes again.
LEMMA ExtractKeeps ==
    ASSUME MedInv, NEW c \in Callers, MedExtract(c)
    PROVE  MedInv'
<1> USE DEF MedInv
<1>1. caller[c].pc = "next" /\ UNCHANGED <<store, saw>>
  BY DEF MedExtract, At
<1>2. PICK e \in caller[c].todo \ Gone :
          \/ /\ Fine /\ digests' = [digests EXCEPT ![e] = @ + 1] /\ UNCHANGED again
             /\ \/ caller' = [caller EXCEPT ![c].pc = "store", ![c].at = e] /\ UNCHANGED excused
                \/ /\ caller' = [caller EXCEPT ![c].todo = @ \ {e}, ![c].marks = @ \cup {e}]
                   /\ excused' = excused \cup {e}
          \/ Fails(c) /\ UNCHANGED <<digests, excused>>
  BY DEF MedExtract
<1>3. /\ e \in Episodes /\ caller[c].run # 0 /\ caller[c].run <= spent.runs /\ caller[c].at = NoEpisode
      /\ caller[c].ids = <<>> /\ e # caller[c].at
  <2>1. e \in Episodes
    BY <1>2, CallFields
  <2>2. caller[c].run # 0 /\ caller[c].run <= spent.runs /\ caller[c].at = NoEpisode /\ caller[c].ids = <<>>
    BY <1>1 DEF CallsAreSound, SoundCall, WithEpisode
  <2> QED BY <2>1, <2>2, MeditationAssumption
<1>4. CASE Fails(c) /\ UNCHANGED <<digests, excused>>
  BY <1>1, <1>4, FailingKeeps
<1>5. ASSUME Fine, digests' = [digests EXCEPT ![e] = @ + 1], UNCHANGED again,
             NEW k \in Call, Becomes(c, k), k.run = caller[c].run, k.ids = <<>>,
             \/ /\ k.pc = "store" /\ k.at = e /\ UNCHANGED excused
                /\ k.todo = caller[c].todo /\ k.marks = caller[c].marks
             \/ /\ k.pc = "next" /\ k.at = NoEpisode /\ excused' = excused \cup {e}
                /\ k.todo = caller[c].todo \ {e} /\ k.marks = caller[c].marks \cup {e}
      PROVE  MedInv'
  <2>1. SoundCall(k, spent.runs)
    BY <1>2, <1>3, <1>5 DEF SoundCall, WithEpisode, WithNone
  <2>2. /\ caller'[c] = k /\ \A d \in Callers \ {c} : caller'[d] = caller[d]
        /\ k.todo \cup k.marks = InHand(c) /\ InHand(c)' = InHand(c)
        /\ \A d \in Callers : InHand(d)' = InHand(d)
    BY <1>2, <1>5, OthersStay DEF InHand
  <2>3. e \in InHand(c) /\ (e \notin again => digests[e] = 0) /\ digests[e] \in Nat
    BY <1>2, <1>3 DEF InHand, DigestsAreKept, MedTypeOK
  <2>4. /\ digests' \in [Episodes -> Nat] /\ digests'[e] = digests[e] + 1
        /\ \A f \in Episodes \ {e} : digests'[f] = digests[f]
    BY <1>3, <1>5, <2>3 DEF MedTypeOK
  <2>5. DigestsAreKept'
    <3>1. \A f \in Gone : digests'[f] = 0
      BY <1>2, <2>4, MeditationAssumption DEF DigestsAreKept
    <3>2. ASSUME NEW f \in Episodes, digests'[f] > 0
          PROVE  f \in meditated' \cup again' \cup UNION {InHand(d)' : d \in Callers}
      <4>1. CASE f = e
        BY <2>2, <2>3, <4>1
      <4>2. CASE f # e
        <5>1. f \in meditated \cup again \cup UNION {InHand(d) : d \in Callers}
          BY <2>4, <3>2, <4>2 DEF DigestsAreKept
        <5> QED BY <1>1, <1>5, <2>2, <5>1 DEF store
      <4> QED BY <4>1, <4>2
    <3>3. \A a, b \in Callers : a # b => InHand(a)' \cap InHand(b)' \subseteq again'
      BY <1>5, <2>2 DEF DigestsAreKept
    <3>4. ASSUME NEW d \in Callers, NEW f \in caller'[d].todo, f # caller'[d].at, f \notin again'
          PROVE  digests'[f] = 0
      <4>1. f \in InHand(d) /\ f \in Episodes
        BY <2>2, <3>4, CallFields DEF InHand
      <4>2. f # e
        <5>1. CASE d = c
          BY <1>5, <2>2, <3>4, <5>1
        <5>2. CASE d # c
          BY <1>5, <2>3, <3>4, <4>1, <5>2 DEF DigestsAreKept
        <5> QED BY <5>1, <5>2
      <4>3. f \in caller[d].todo /\ f # caller[d].at
        <5>1. CASE d = c
          BY <1>3, <1>5, <2>2, <3>4, <4>1, <5>1, MeditationAssumption
        <5>2. CASE d # c
          BY <2>2, <3>4, <5>2
        <5> QED BY <5>1, <5>2
      <4>4. digests[f] = 0
        BY <1>5, <3>4, <4>3 DEF DigestsAreKept
      <4> QED BY <2>4, <4>1, <4>2, <4>4
    <3>5. DigestedAgain'
      <4>1. DigestedAgain
        BY DEF DigestsAreKept
      <4> QED BY <1>5, <2>3, <2>4, <4>1 DEF DigestedAgain
    <3> QED BY <3>1, <3>2, <3>3, <3>4, <3>5 DEF DigestsAreKept
  <2>6. TwinsAreBounded'
    BY <1>1, <1>5, TwinsStay, SpentStays DEF store
  <2>7. /\ meditated' \subseteq Episodes /\ facts' \subseteq Episodes /\ excused' \subseteq Episodes
        /\ again' \subseteq Episodes /\ entities' \in Seq(Mentioned) /\ relations' \in Seq(Nat \X Nat)
    BY <1>1, <1>3, <1>5 DEF store, MedTypeOK
  <2>8. /\ facts \subseteq facts' /\ excused \subseteq excused'
        /\ meditated' \subseteq Gone \cup facts' \cup excused'
        /\ k.marks \subseteq facts' \cup excused' /\ k.pc \notin WithEpisode \ {"store"}
    BY <1>1, <1>5 DEF store, MarksAreStored, WithEpisode
  <2>9. UNCHANGED <<record, aged, saw>>
    BY <1>1 DEF store
  <2> QED BY <1>5, <2>1, <2>4, <2>5, <2>6, <2>7, <2>8, <2>9, StepKeeps
<1>6. CASE Fine /\ caller' = [caller EXCEPT ![c].pc = "store", ![c].at = e] /\ UNCHANGED <<excused, again>>
           /\ digests' = [digests EXCEPT ![e] = @ + 1]
  <2>1. PICK k : k = CallOf("store", caller[c].run, caller[c].todo, caller[c].marks, e, caller[c].ids,
                            caller[c].found)
    OBVIOUS
  <2>2. Becomes(c, k)
    BY <1>6, <2>1, CallBecomes
  <2>3. /\ k \in Call /\ k.pc = "store" /\ k.run = caller[c].run /\ k.at = e
        /\ k.todo = caller[c].todo /\ k.marks = caller[c].marks /\ k.ids = <<>>
    BY <1>3, <2>1, CallFields DEF CallOf, Call, WithEpisode
  <2> QED BY <1>5, <1>6, <2>2, <2>3
<1>7. CASE /\ Fine /\ caller' = [caller EXCEPT ![c].todo = @ \ {e}, ![c].marks = @ \cup {e}]
           /\ excused' = excused \cup {e} /\ UNCHANGED again /\ digests' = [digests EXCEPT ![e] = @ + 1]
  <2>1. PICK t, m : t = caller[c].todo \ {e} /\ m = caller[c].marks \cup {e}
    OBVIOUS
  <2>2. PICK k : k = CallOf("next", caller[c].run, t, m, NoEpisode, caller[c].ids, caller[c].found)
    OBVIOUS
  <2>3. Becomes(c, k)
    BY <1>1, <1>3, <1>7, <2>1, <2>2, CallBecomes
  <2>4. t \in SUBSET Episodes /\ m \in SUBSET Episodes
    BY <1>3, <2>1, CallFields
  <2>5. /\ k \in Call /\ k.pc = "next" /\ k.run = caller[c].run /\ k.at = NoEpisode
        /\ k.todo = t /\ k.marks = m /\ k.ids = <<>>
    BY <1>3, <2>2, <2>4, CallFields DEF CallOf, Call, WithEpisode
  <2> QED BY <1>5, <1>7, <2>1, <2>3, <2>5
<1> QED BY <1>2, <1>4, <1>6, <1>7

\* list_episodes_for_meditation: what is fetched was never with the model, unless it goes again.
LEMMA FetchKeeps ==
    ASSUME MedInv, NEW c \in Callers, MedFetch(c)
    PROVE  MedInv'
<1> USE DEF MedInv
<1>1. caller[c].pc = "next" /\ InHand(c) = {} /\ UNCHANGED <<store, excused, digests, saw>>
  BY DEF MedFetch, At
<1>2. /\ caller[c].run # 0 /\ caller[c].run <= spent.runs /\ caller[c].at = NoEpisode /\ caller[c].ids = <<>>
      /\ caller[c].todo = {} /\ caller[c].marks = {}
  BY <1>1 DEF CallsAreSound, SoundCall, WithEpisode, InHand
<1>3. CASE Fails(c)
  BY <1>1, <1>3, FailingKeeps
<1>4. ASSUME NEW k \in Call, Fine, Becomes(c, k), k.pc \in {"next", "completed"}, k.run = caller[c].run,
             k.pc = "completed" => k.todo = {}, k.marks = {}, k.at = NoEpisode, k.ids = <<>>,
             k.todo \subseteq Fetchable,
             again' = again \cup (k.todo \cap UNION {InHand(d) : d \in Callers})
      PROVE  MedInv'
  <2>1. SoundCall(k, spent.runs)
    BY <1>2, <1>4 DEF SoundCall, WithEpisode, WithNone
  <2>2. /\ caller'[c] = k /\ \A d \in Callers \ {c} : caller'[d] = caller[d]
        /\ InHand(c)' = k.todo /\ \A d \in Callers \ {c} : InHand(d)' = InHand(d)
    BY <1>4, OthersStay DEF InHand
  <2>3. k.todo \subseteq Episodes /\ k.todo \cap meditated = {} /\ again \subseteq again' /\ again' \subseteq Episodes
    BY <1>4 DEF Fetchable, MedTypeOK
  <2>4. \A e \in Episodes : digests[e] \in Nat
    BY DEF MedTypeOK
  <2>5. DigestsAreKept'
    <3>1. \A e \in Gone : digests'[e] = 0
      BY <1>1 DEF DigestsAreKept
    <3>2. ASSUME NEW e \in Episodes, digests'[e] > 0
          PROVE  e \in meditated' \cup again' \cup UNION {InHand(d)' : d \in Callers}
      <4>1. e \in meditated \cup again \cup UNION {InHand(d) : d \in Callers \ {c}}
        BY <1>1, <3>2 DEF DigestsAreKept
      <4> QED BY <1>1, <2>2, <2>3, <4>1 DEF store
    <3>3. \A a, b \in Callers : a # b => InHand(a)' \cap InHand(b)' \subseteq again'
      BY <1>4, <2>2, <2>3 DEF DigestsAreKept
    <3>4. ASSUME NEW d \in Callers, NEW e \in caller'[d].todo, e # caller'[d].at, e \notin again'
          PROVE  digests'[e] = 0
      <4>1. CASE d = c
        <5>1. e \in Episodes /\ e \notin meditated /\ e \notin again /\ e \notin UNION {InHand(b) : b \in Callers}
          BY <1>4, <2>2, <2>3, <3>4, <4>1
        <5> QED BY <1>1, <2>4, <5>1 DEF DigestsAreKept
      <4>2. CASE d # c
        BY <1>1, <2>2, <2>3, <3>4, <4>2 DEF DigestsAreKept
      <4> QED BY <4>1, <4>2
    <3>5. DigestedAgain'
      BY <1>1, <2>3 DEF DigestsAreKept, DigestedAgain
    <3> QED BY <3>1, <3>2, <3>3, <3>4, <3>5 DEF DigestsAreKept
  <2>6. TwinsAreBounded'
    BY <1>1, <1>4, TwinsStay, SpentStays DEF store
  <2>7. /\ meditated' \subseteq Episodes /\ facts' \subseteq Episodes /\ excused' \subseteq Episodes
        /\ digests' \in [Episodes -> Nat] /\ entities' \in Seq(Mentioned) /\ relations' \in Seq(Nat \X Nat)
    BY <1>1 DEF store, MedTypeOK
  <2>8. /\ facts \subseteq facts' /\ excused \subseteq excused'
        /\ meditated' \subseteq Gone \cup facts' \cup excused'
        /\ k.marks \subseteq facts' \cup excused' /\ k.pc \notin WithEpisode \ {"store"}
    BY <1>1, <1>4 DEF store, MarksAreStored, WithEpisode
  <2>9. UNCHANGED <<record, aged, saw>>
    BY <1>1 DEF store
  <2> QED BY <1>4, <2>1, <2>3, <2>5, <2>6, <2>7, <2>8, <2>9, StepKeeps
<1>5. CASE Fine /\ Goes(c, "completed") /\ UNCHANGED again
  <2>1. PICK k \in Call : /\ Becomes(c, k) /\ k.pc = "completed" /\ k.run = caller[c].run
                          /\ k.todo = caller[c].todo /\ k.marks = caller[c].marks
                          /\ k.at = caller[c].at /\ k.ids = caller[c].ids /\ k.found = caller[c].found
    BY <1>5, CallGoes DEF WithNone
  <2> QED BY <1>2, <1>4, <1>5, <2>1
<1>6. ASSUME NEW batch \in SUBSET Fetchable, Fine, caller' = [caller EXCEPT ![c].todo = batch],
             again' = again \cup (batch \cap UNION {InHand(d) : d \in Callers})
      PROVE  MedInv'
  <2>1. PICK k : k = CallOf("next", caller[c].run, batch, caller[c].marks, caller[c].at, caller[c].ids,
                            caller[c].found)
    OBVIOUS
  <2>2. Becomes(c, k)
    BY <1>1, <1>6, <2>1, CallBecomes
  <2>3. batch \in SUBSET Episodes
    BY DEF Fetchable
  <2>4. /\ k \in Call /\ k.pc = "next" /\ k.run = caller[c].run
        /\ k.todo = batch /\ k.marks = {} /\ k.at = NoEpisode /\ k.ids = <<>>
    BY <1>2, <2>1, <2>3, CallFields DEF CallOf, Call
  <2> QED BY <1>4, <1>6, <2>2, <2>4
<1> QED BY <1>3, <1>5, <1>6 DEF MedFetch

\* The record of the run at hand is written, or is not; the call goes on, or rests.
LEMMA RecordKeeps ==
    ASSUME MedInv, NEW c \in Callers, caller[c].pc \in {"begin", "completed", "failed"}, Fine \/ Errs,
           UNCHANGED <<meditated, facts, entities, relations, aged, tale>>,
           NEW k \in Call, Becomes(c, k), k.todo = {}, k.marks = {}, k.at = NoEpisode, k.ids = <<>>,
           \/ k.pc = "next" /\ k.run = caller[c].run
           \/ k.pc = "idle" /\ k.run = 0,
           \/ record' = record
           \/ \E s \in {"running", "completed", "failed"} :
                 /\ record' = [record EXCEPT ![caller[c].run] = s]
                 /\ s = "running" \/ k.run = 0
    PROVE  MedInv'
<1> USE DEF MedInv
<1>1. /\ caller[c].run # 0 /\ caller[c].run <= spent.runs /\ caller[c].run \in Nat
      /\ caller[c].todo = {} /\ caller[c].marks = {} /\ InHand(c) = {}
  <2>1. SoundCall(caller[c], spent.runs) /\ caller[c].run \in Nat
    BY CallFields DEF CallsAreSound
  <2> QED BY <2>1 DEF SoundCall, WithNone, InHand
<1>2. /\ spent' \in [runs : 0..MaxRuns, errors : Nat] /\ spent'.runs = spent.runs
      /\ spent.runs \in Nat /\ spent.runs <= MaxRuns /\ MaxRuns \in Nat
  BY SpentStays, MeditationAssumption DEF MedTypeOK
<1>3. PICK mine \in 1..MaxRuns : mine = caller[c].run
  BY <1>1, <1>2
<1>4. /\ record' \in [1..MaxRuns -> {"none", "running", "completed", "failed"}]
      /\ \A r \in 1..MaxRuns \ {mine} : record'[r] = record[r]
      /\ k.run # 0 => record'[mine] \in {"none", "running"}
      /\ record[mine] \in {"none", "running"}
  <2>1. record \in [1..MaxRuns -> {"none", "running", "completed", "failed"}]
    BY DEF MedTypeOK
  <2>2. record[mine] \in {"none", "running"}
    BY <1>1, <1>3 DEF RunsAreSound
  <2>3. CASE record' = record
    BY <2>1, <2>2, <2>3
  <2>4. ASSUME NEW s \in {"running", "completed", "failed"}, record' = [record EXCEPT ![caller[c].run] = s],
               s = "running" \/ k.run = 0
        PROVE  /\ record' \in [1..MaxRuns -> {"none", "running", "completed", "failed"}]
               /\ \A r \in 1..MaxRuns \ {mine} : record'[r] = record[r]
               /\ k.run # 0 => record'[mine] \in {"none", "running"}
    BY <1>3, <2>1, <2>4
  <2> QED BY <2>2, <2>3, <2>4
<1>5. MedTypeOK'
  BY <1>2, <1>4, OthersStay DEF MedTypeOK, tale
<1>6. CallsAreSound'
  <2>1. SoundCall(k, spent'.runs)
    BY <1>1, <1>2 DEF SoundCall, WithEpisode, WithNone
  <2> QED BY <1>2, <2>1, ShapeStays
<1>7. RunsAreSound'
  <2>1. \A d \in Callers \ {c} : caller'[d] = caller[d]
    BY OthersStay
  <2>2. caller'[c] = k /\ k.run \in {mine, 0}
    BY <1>3, OthersStay
  <2>3. ASSUME NEW d \in Callers, caller'[d].run > 0 PROVE record'[caller'[d].run] \in {"none", "running"}
    <3>1. CASE d = c
      BY <1>4, <2>2, <2>3, <3>1
    <3>2. CASE d # c
      <4>1. caller[d].run \in 1..MaxRuns \ {mine}
        <5>1. caller[d].run \in Nat /\ caller[d].run > 0 /\ caller[d].run <= spent.runs
          BY <2>1, <2>3, <3>2, CallFields DEF CallsAreSound, SoundCall
        <5>2. caller[d].run # mine
          BY <1>3, <3>2, <5>1 DEF RunsAreSound
        <5> QED BY <1>2, <5>1, <5>2
      <4>2. record[caller[d].run] \in {"none", "running"}
        BY <2>1, <2>3, <3>2 DEF RunsAreSound
      <4> QED BY <1>4, <2>1, <3>2, <4>1, <4>2
    <3> QED BY <3>1, <3>2
  <2>4. ASSUME NEW a \in Callers, NEW b \in Callers, caller'[a].run = caller'[b].run, caller'[a].run > 0
        PROVE  a = b
    BY <1>3, <2>1, <2>2, <2>4 DEF RunsAreSound
  <2>5. \A r \in Recorded' : r <= spent'.runs
    <3> SUFFICES ASSUME NEW r \in 1..MaxRuns, record'[r] # "none" PROVE r <= spent'.runs
      BY <1>4 DEF Recorded
    <3>1. CASE r = mine
      BY <1>1, <1>2, <1>3, <3>1
    <3>2. CASE r # mine
      <4>1. r \in Recorded
        BY <1>4, <3>2 DEF Recorded, MedTypeOK
      <4> QED BY <1>2, <4>1 DEF RunsAreSound
    <3> QED BY <3>1, <3>2
  <2> QED BY <2>3, <2>4, <2>5 DEF RunsAreSound
<1>8. OneMeditation'
  <2> SUFFICES ASSUME NEW a \in Callers, NEW b \in Callers,
                      0 < caller'[a].run, caller'[a].run < caller'[b].run, caller'[a].run > aged'
               PROVE  \/ caller'[a].run \notin saw'[b]
                      \/ \E f \in (caller'[a].run + 1)..(caller'[b].run - 1) : record'[f] = "failed"
    BY DEF OneMeditation
  <2>1. \A d \in Callers : caller'[d].run \in {caller[d].run, 0}
    BY OthersStay
  <2>2. caller[a].run \in Nat /\ caller[b].run \in Nat /\ caller[b].run <= spent.runs
    BY CallFields DEF CallsAreSound, SoundCall
  <2>3. caller'[a].run = caller[a].run /\ caller'[b].run = caller[b].run
    BY <2>1, <2>2
  <2>4. \/ caller[a].run \notin saw[b]
        \/ \E f \in (caller[a].run + 1)..(caller[b].run - 1) : record[f] = "failed"
    BY <2>3 DEF OneMeditation
  <2>5. ASSUME NEW f \in (caller[a].run + 1)..(caller[b].run - 1), record[f] = "failed"
        PROVE  record'[f] = "failed"
    <3>1. f \in 1..MaxRuns /\ f # mine
      BY <1>2, <1>4, <2>2, <2>5, SMTT(30)
    <3> QED BY <1>4, <2>5, <3>1
  <2> QED BY <2>3, <2>4, <2>5 DEF tale
<1>9. k.pc \notin WithEpisode /\ k.pc \notin {"put", "insert"}
  BY DEF WithEpisode
<1>10. MarksAreStored'
  <2>1. /\ facts \subseteq facts' /\ excused \subseteq excused'
        /\ meditated' \subseteq Gone \cup facts' \cup excused'
    BY DEF MarksAreStored, tale
  <2> QED BY <1>9, <2>1, MarksStay
<1>11. DigestsAreKept'
  <2>1. digests' = digests /\ meditated \subseteq meditated' /\ again \subseteq again'
    BY DEF tale
  <2>2. /\ k.todo \subseteq caller[c].todo /\ k.todo \cup k.marks \subseteq InHand(c)
        /\ \A e \in InHand(c) \ (k.todo \cup k.marks) : digests[e] = 0 \/ e \in meditated' \cup again'
        /\ \A e \in k.todo : e = caller[c].at => e = k.at
    BY <1>1
  <2> QED BY <2>1, <2>2, DigestsStay
<1>12. TwinsAreBounded'
  BY <1>2, <1>9, TwinsStay
<1> QED BY <1>5, <1>6, <1>7, <1>8, <1>10, <1>11, <1>12

\* insert_meditation, and the completion of the record.
LEMMA BeginKeeps ==
    ASSUME MedInv, NEW c \in Callers, MedBegin(c) \/ MedFinish(c)
    PROVE  MedInv'
<1> USE DEF MedInv
<1>1. /\ caller[c].pc \in {"begin", "completed", "failed"} /\ (Fine \/ Errs)
      /\ UNCHANGED <<meditated, facts, entities, relations, aged, tale>>
  BY DEF MedBegin, MedFinish, At
<1>2. caller[c].todo = {} /\ caller[c].marks = {} /\ caller[c].at = NoEpisode /\ caller[c].ids = <<>>
  <2>1. SoundCall(caller[c], spent.runs)
    BY DEF CallsAreSound
  <2> QED BY <1>1, <2>1 DEF SoundCall, WithNone, WithEpisode
<1>3. CASE /\ caller' = [caller EXCEPT ![c] = Resting]
           /\ \/ record' = record
              \/ \E s \in {"running", "completed", "failed"} : record' = [record EXCEPT ![caller[c].run] = s]
  <2>1. PICK k \in Call : /\ Becomes(c, k) /\ k.pc = "idle" /\ k.run = 0 /\ k.todo = {} /\ k.marks = {}
                          /\ k.at = NoEpisode /\ k.ids = <<>> /\ k.found = 0
    BY <1>3, CallRests
  <2> HIDE DEF MedInv
  <2> QED BY <1>1, <1>3, <2>1, RecordKeeps
<1>4. CASE Goes(c, "next") /\ record' = [record EXCEPT ![caller[c].run] = "running"]
  <2>1. PICK k \in Call : /\ Becomes(c, k) /\ k.pc = "next" /\ k.run = caller[c].run
                          /\ k.todo = caller[c].todo /\ k.marks = caller[c].marks
                          /\ k.at = caller[c].at /\ k.ids = caller[c].ids /\ k.found = caller[c].found
    BY <1>4, CallGoes
  <2>2. k.todo = {} /\ k.marks = {} /\ k.at = NoEpisode /\ k.ids = <<>>
    BY <1>2, <2>1
  <2> HIDE DEF MedInv
  <2> QED BY <1>1, <1>4, <2>1, <2>2, RecordKeeps
<1>5. CASE MedBegin(c)
  BY <1>3, <1>4, <1>5 DEF MedBegin
<1>6. CASE MedFinish(c)
  <2>1. caller[c].pc \in {"completed", "failed"}
    BY <1>6 DEF MedFinish
  <2> QED BY <1>3, <1>6, <2>1 DEF MedFinish
<1> QED BY <1>5, <1>6

\* A set of numbers that is bounded has a greatest.
LEMMA Greatest ==
    ASSUME NEW B \in Nat, NEW S \in SUBSET (0..B), S # {}
    PROVE  \E m \in S : \A x \in S : x <= m
<1>1. PICK T : T = {B - x : x \in S}
  OBVIOUS
<1>2. T \subseteq Nat /\ T # {}
  <2>1. \A x \in S : B - x \in Nat
    OBVIOUS
  <2>2. PICK x : x \in S
    OBVIOUS
  <2> QED BY <1>1, <2>1, <2>2
<1>3. PICK t \in T : \A y \in T : ~(<<y, t>> \in OpToRel(<, Nat))
  BY <1>2, WFMin, NatLessThanWellFounded
<1>4. \A y \in T : ~(y < t)
  BY <1>2, <1>3 DEF OpToRel
<1>5. PICK m \in S : t = B - m
  BY <1>1
<1>6. \A x \in S : x <= m
  BY <1>1, <1>4, <1>5
<1> QED BY <1>6

\* A run is let in: the cooldown does not hold, so the latest record, when its start is recent, failed.
LEMMA EnterKeeps ==
    ASSUME MedInv, NEW c \in Callers, MedEnter(c)
    PROVE  MedInv'
<1> USE DEF MedInv
<1>1. PICK n : n = spent.runs + 1
  OBVIOUS
<1>2. /\ spent.runs \in Nat /\ MaxRuns \in Nat /\ n \in 1..MaxRuns
      /\ spent' \in [runs : 0..MaxRuns, errors : Nat] /\ spent'.runs = n
      /\ spent'.runs \in Nat /\ spent.runs <= spent'.runs
  <2>1. spent \in [runs : 0..MaxRuns, errors : Nat] /\ MaxRuns \in Nat /\ spent.runs < MaxRuns
    BY MeditationAssumption DEF MedTypeOK, MedEnter
  <2>2. \/ spent' = [spent EXCEPT !.runs = @ + 1]
        \/ spent' = [spent EXCEPT !.runs = @ + 1, !.errors = @ + 1]
    BY DEF MedEnter
  <2>3. spent.runs \in Nat /\ spent.errors \in Nat /\ n \in 1..MaxRuns /\ n \in 0..MaxRuns /\ spent.errors + 1 \in Nat
    BY <1>1, <2>1
  <2>4. spent' \in [runs : 0..MaxRuns, errors : Nat] /\ spent'.runs = n
    BY <1>1, <2>1, <2>2, <2>3
  <2> QED BY <1>1, <2>1, <2>3, <2>4
<1>3. caller[c].pc = "idle" /\ UNCHANGED <<store, excused, again, digests>>
  BY DEF MedEnter, At
<1>4. /\ caller[c].run = 0 /\ caller[c].todo = {} /\ caller[c].marks = {} /\ InHand(c) = {}
      /\ caller[c].at = NoEpisode /\ caller[c].ids = <<>>
  <2>1. SoundCall(caller[c], spent.runs)
    BY DEF CallsAreSound
  <2> QED BY <1>3, <2>1 DEF SoundCall, WithNone, WithEpisode, InHand
<1>5. PICK k \in Call : /\ Becomes(c, k) /\ k.pc = "begin" /\ k.run = n /\ k.todo = {} /\ k.marks = {}
                        /\ k.at = NoEpisode /\ k.ids = <<>>
  <2>1. PICK k : k = CallOf("begin", n, caller[c].todo, caller[c].marks, caller[c].at, caller[c].ids,
                            caller[c].found)
    OBVIOUS
  <2>2. Becomes(c, k)
    BY <1>1, <2>1, CallBecomes DEF MedEnter
  <2>3. /\ k \in Call /\ k.pc = "begin" /\ k.run = n /\ k.todo = {} /\ k.marks = {}
        /\ k.at = NoEpisode /\ k.ids = <<>>
    BY <1>2, <1>4, <2>1, CallFields DEF CallOf, Call, WithNone
  <2> QED BY <2>2, <2>3
<1>6. saw' \in [Callers -> SUBSET (1..MaxRuns)] /\ \A d \in Callers \ {c} : saw'[d] = saw[d]
  <2>1. PICK R \in SUBSET (1..MaxRuns) : saw' = [saw EXCEPT ![c] = R]
    <3>1. Recorded \in SUBSET (1..MaxRuns)
      BY DEF Recorded, MedTypeOK
    <3>2. saw' = [saw EXCEPT ![c] = Recorded] \/ saw' = [saw EXCEPT ![c] = {}]
      BY DEF MedEnter
    <3> QED BY <3>1, <3>2
  <2> QED BY <2>1 DEF MedTypeOK
<1>7. Recorded' = Recorded /\ Recorded \subseteq 1..MaxRuns /\ record' = record /\ aged' = aged
  BY <1>3 DEF Recorded, MedTypeOK, store
<1>8. caller'[c] = k /\ \A d \in Callers \ {c} : caller'[d] = caller[d]
  BY <1>5, OthersStay
<1>9. \A d \in Callers : caller[d].run \in Nat /\ caller[d].run <= spent.runs
  BY CallFields DEF CallsAreSound, SoundCall
<1>10. MedTypeOK'
  BY <1>2, <1>3, <1>5, <1>6, OthersStay DEF MedTypeOK, store
<1>11. CallsAreSound'
  <2>1. SoundCall(k, spent'.runs)
    BY <1>1, <1>2, <1>5 DEF SoundCall, WithEpisode, WithNone
  <2> QED BY <1>2, <1>5, <2>1, ShapeStays
<1>12. RunsAreSound'
  <2>1. record[n] = "none"
    BY <1>1, <1>2 DEF RunsAreSound, Recorded, MedTypeOK
  <2>2. \A d \in Callers : caller'[d].run > 0 => record'[caller'[d].run] \in {"none", "running"}
    BY <1>5, <1>7, <1>8, <2>1 DEF RunsAreSound
  <2>3. \A a, b \in Callers : caller'[a].run = caller'[b].run /\ caller'[a].run > 0 => a = b
    BY <1>1, <1>2, <1>5, <1>8, <1>9, SMTT(30) DEF RunsAreSound
  <2>4. \A r \in Recorded' : r <= spent'.runs
    BY <1>1, <1>2, <1>7 DEF RunsAreSound
  <2> QED BY <2>2, <2>3, <2>4 DEF RunsAreSound
<1>13. OneMeditation'
  <2> SUFFICES ASSUME NEW a \in Callers, NEW b \in Callers,
                      0 < caller'[a].run, caller'[a].run < caller'[b].run, caller'[a].run > aged'
               PROVE  \/ caller'[a].run \notin saw'[b]
                      \/ \E f \in (caller'[a].run + 1)..(caller'[b].run - 1) : record'[f] = "failed"
    BY DEF OneMeditation
  <2>1. a # c
    BY <1>1, <1>2, <1>5, <1>8, <1>9
  <2>2. CASE b # c
    <3>1. caller'[a] = caller[a] /\ caller'[b] = caller[b] /\ saw'[b] = saw[b]
      BY <1>6, <1>8, <2>1, <2>2
    <3> QED BY <1>7, <3>1 DEF OneMeditation
  <2>3. CASE b = c /\ caller'[a].run \in saw'[b]
    <3>1. PICK r \in Nat : r = caller[a].run /\ caller'[a].run = r /\ r > 0 /\ r > aged /\ r <= spent.runs
      BY <1>7, <1>8, <1>9, <2>1
    <3>2. saw'[c] = Recorded /\ ~WithinCooldown
      BY <2>3 DEF MedEnter, MedTypeOK
    <3>3. r \in Recorded
      BY <2>3, <3>1, <3>2
    <3>4. PICK last \in Recorded : \A x \in Recorded : x <= last
      <4>1. Recorded \in SUBSET (0..MaxRuns) /\ Recorded # {}
        BY <1>2, <1>7, <3>3
      <4> QED BY <1>2, <4>1, Greatest
    <3>5. last \in Nat /\ r <= last /\ last <= spent.runs /\ aged \in Nat
      BY <1>7, <3>3, <3>4 DEF RunsAreSound, MedTypeOK
    <3>6. record[last] \notin {"completed", "running"} /\ record[last] # "none"
      BY <3>1, <3>2, <3>4, <3>5 DEF WithinCooldown, Recorded
    <3>7. record[last] = "failed"
      BY <1>7, <3>6 DEF MedTypeOK
    <3>8. last # r
      BY <3>1, <3>7 DEF RunsAreSound
    <3>9. last \in (r + 1)..(n - 1) /\ caller'[b].run = n
      BY <1>1, <1>2, <1>5, <1>8, <2>3, <3>5, <3>8
    <3> QED BY <1>7, <3>1, <3>7, <3>9
  <2> QED BY <2>2, <2>3
<1>14. k.pc \notin WithEpisode /\ k.pc \notin {"put", "insert"}
  BY <1>5 DEF WithEpisode
<1>15. MarksAreStored'
  <2>1. /\ facts \subseteq facts' /\ excused \subseteq excused' /\ k.marks \subseteq facts' \cup excused'
        /\ meditated' \subseteq Gone \cup facts' \cup excused'
    BY <1>3, <1>5 DEF MarksAreStored, store
  <2> QED BY <1>5, <1>14, <2>1, MarksStay
<1>16. DigestsAreKept'
  <2>1. digests' = digests /\ meditated \subseteq meditated' /\ again \subseteq again'
    BY <1>3 DEF store
  <2>2. /\ k.todo \subseteq caller[c].todo /\ k.todo \cup k.marks \subseteq InHand(c)
        /\ \A e \in InHand(c) \ (k.todo \cup k.marks) : digests[e] = 0 \/ e \in meditated' \cup again'
        /\ \A e \in k.todo : e = caller[c].at => e = k.at
    BY <1>4, <1>5
  <2> QED BY <1>5, <2>1, <2>2, DigestsStay
<1>17. TwinsAreBounded'
  <2>1. UNCHANGED <<entities, relations>>
    BY <1>3 DEF store
  <2> QED BY <1>2, <1>5, <1>14, <2>1, TwinsStay
<1> QED BY <1>10, <1>11, <1>12, <1>13, <1>15, <1>16, <1>17

\* The cooldown passes: fewer runs are recent.
LEMMA CooldownKeeps ==
    ASSUME MedInv, NEW r \in 1..MaxRuns, CooldownPasses(r)
    PROVE  MedInv'
<1> USE DEF MedInv
<1>1. /\ UNCHANGED <<meditated, facts, entities, relations, links, record, caller, tale, spent>>
      /\ aged' = r /\ aged < r /\ aged \in Nat /\ r \in Nat
  BY MeditationAssumption DEF CooldownPasses, MedTypeOK
<1>2. MedTypeOK'
  BY <1>1 DEF MedTypeOK, tale
<1>3. CallsAreSound' /\ RunsAreSound'
  BY <1>1 DEF CallsAreSound, RunsAreSound, Recorded
<1>4. OneMeditation'
  <2>1. \A c \in Callers : caller[c].run \in Nat
    BY CallFields
  <2>2. \A c \in Callers : caller[c].run > aged' => caller[c].run > aged
    BY <1>1, <2>1
  <2> QED BY <1>1, <2>2 DEF OneMeditation, tale
<1>5. MarksAreStored'
  BY <1>1 DEF MarksAreStored, tale
<1>6. DigestsAreKept'
  BY <1>1 DEF DigestsAreKept, DigestedAgain, InHand, tale
<1>7. TwinsAreBounded'
  BY <1>1 DEF TwinsAreBounded, NamesAreFew, RowsAreFew, Named, Adding, Rows, Relating, TheName, TheRelation, Few
<1> QED BY <1>2, <1>3, <1>4, <1>5, <1>6, <1>7

\* The process dies: whatever was in hand goes again.
LEMMA CrashKeeps ==
    ASSUME MedInv, MedCrash
    PROVE  MedInv'
<1> USE DEF MedInv
<1>1. /\ UNCHANGED <<store, excused, digests, saw>> /\ Errs
      /\ again' = again \cup UNION {InHand(c) : c \in Callers}
      /\ caller' = [c \in Callers |-> Resting]
  BY DEF MedCrash
<1>2. /\ spent' \in [runs : 0..MaxRuns, errors : Nat] /\ spent'.runs = spent.runs /\ spent.runs \in Nat
  BY <1>1, SpentStays
<1>3. /\ Resting \in Call /\ Resting.pc = "idle" /\ Resting.run = 0 /\ Resting.todo = {}
      /\ Resting.marks = {} /\ Resting.at = NoEpisode /\ Resting.ids = <<>>
  BY DEF Resting, Call, WithNone
<1>4. \A c \in Callers : caller'[c] = Resting
  BY <1>1
<1>5. again' \subseteq Episodes /\ again \subseteq again'
  BY <1>1, CallFields DEF MedTypeOK
<1>6. MedTypeOK'
  BY <1>1, <1>2, <1>3, <1>5 DEF MedTypeOK, store
<1>7. CallsAreSound'
  <2>1. SoundCall(Resting, spent'.runs)
    BY <1>2, <1>3 DEF SoundCall, WithEpisode, WithNone
  <2> QED BY <1>4, <2>1 DEF CallsAreSound
<1>8. RunsAreSound'
  BY <1>1, <1>2, <1>3, <1>4 DEF RunsAreSound, Recorded, store
<1>9. OneMeditation'
  BY <1>3, <1>4 DEF OneMeditation
<1>10. MarksAreStored'
  BY <1>1, <1>3, <1>4 DEF MarksAreStored, WithEpisode, store
<1>11. DigestsAreKept'
  <2>1. \A c \in Callers : InHand(c)' = {} /\ caller'[c].todo = {}
    BY <1>3, <1>4 DEF InHand
  <2>2. digests' = digests /\ meditated' = meditated
    BY <1>1 DEF store
  <2>3. \A e \in Episodes : digests'[e] > 0 => e \in meditated' \cup again'
    BY <1>1, <2>2 DEF DigestsAreKept
  <2>4. DigestedAgain'
    BY <1>5, <2>2 DEF DigestsAreKept, DigestedAgain
  <2>5. \A e \in Gone : digests'[e] = 0
    BY <2>2 DEF DigestsAreKept
  <2> QED BY <2>1, <2>3, <2>4, <2>5 DEF DigestsAreKept
<1>12. TwinsAreBounded'
  <2>1. ASSUME NEW N, NEW P, Few(N, P), IsFiniteSet(P)
        PROVE  /\ IsFiniteSet(N) /\ Cardinality(N) + Cardinality({}) <= Cardinality(Callers)
               /\ Cardinality(N) + Cardinality({}) <= spent'.runs
    BY <1>2, <2>1, FewStay
  <2>2. ASSUME NEW n \in Mentioned PROVE Few(Named(n), Adding(n))'
    <3>1. PICK N, P : N = Named(n) /\ P = Adding(n)
      OBVIOUS
    <3>2. Few(N, P) /\ IsFiniteSet(P)
      BY <3>1, PendingIsSmall DEF TwinsAreBounded, NamesAreFew, Adding
    <3>3. Named(n)' = N /\ Adding(n)' = {}
      BY <1>1, <1>3, <1>4, <3>1 DEF Named, Adding, store
    <3> QED BY <2>1, <3>2, <3>3 DEF Few
  <2>3. ASSUME NEW p \in Nat \X Nat PROVE Few(Rows(p), Relating(p))'
    <3>1. PICK N, P : N = Rows(p) /\ P = Relating(p)
      OBVIOUS
    <3>2. Few(N, P) /\ IsFiniteSet(P)
      BY <3>1, PendingIsSmall DEF TwinsAreBounded, RowsAreFew, Relating
    <3>3. Rows(p)' = N /\ Relating(p)' = {}
      BY <1>1, <1>3, <1>4, <3>1 DEF Rows, Relating, store
    <3> QED BY <2>1, <3>2, <3>3 DEF Few
  <2> QED BY <2>2, <2>3 DEF TwinsAreBounded, NamesAreFew, RowsAreFew
<1> QED BY <1>6, <1>7, <1>8, <1>9, <1>10, <1>11, <1>12

\* It holds at the start.
LEMMA MedInitially ==
    ASSUME MedInit
    PROVE  MedInv
<1>1. /\ Resting \in Call /\ Resting.pc = "idle" /\ Resting.run = 0 /\ Resting.todo = {}
      /\ Resting.marks = {} /\ Resting.at = NoEpisode /\ Resting.ids = <<>>
  BY DEF Resting, Call, WithNone
<1>2. /\ meditated = {} /\ facts = {} /\ entities = <<>> /\ relations = <<>>
      /\ excused = {} /\ again = {} /\ digests = [e \in Episodes |-> 0]
      /\ record = [r \in 1..MaxRuns |-> "none"] /\ aged = 0 /\ saw = [c \in Callers |-> {}]
      /\ spent = [runs |-> 0, errors |-> 0] /\ spent.runs = 0 /\ Gone \subseteq Episodes
      /\ \A c \in Callers : caller[c] = Resting
  BY MeditationAssumption DEF MedInit
<1>3. MedTypeOK
  BY <1>1, <1>2, MeditationAssumption DEF MedTypeOK, MedInit
<1>4. CallsAreSound
  <2>1. SoundCall(Resting, spent.runs)
    BY <1>1, <1>2 DEF SoundCall, WithEpisode, WithNone
  <2> QED BY <1>2, <2>1 DEF CallsAreSound
<1>5. RunsAreSound
  BY <1>1, <1>2 DEF RunsAreSound, Recorded
<1>6. OneMeditation
  BY <1>1, <1>2 DEF OneMeditation
<1>7. MarksAreStored
  BY <1>1, <1>2 DEF MarksAreStored, WithEpisode
<1>8. DigestsAreKept
  BY <1>1, <1>2 DEF DigestsAreKept, DigestedAgain, InHand
<1>9. TwinsAreBounded
  <2>1. IsFiniteSet({}) /\ Cardinality({}) = 0 /\ Cardinality(Callers) \in Nat
    BY FS_EmptySet, FS_CardinalityType, MeditationAssumption
  <2>2. \A n : Named(n) = {} /\ Rows(n) = {}
    BY <1>2 DEF Named, Rows
  <2>3. \A n : Adding(n) = {} /\ Relating(n) = {}
    BY <1>1, <1>2 DEF Adding, Relating
  <2>4. Few({}, {})
    BY <1>2, <2>1 DEF Few
  <2> QED BY <2>2, <2>3, <2>4 DEF TwinsAreBounded, NamesAreFew, RowsAreFew
<1> QED BY <1>3, <1>4, <1>5, <1>6, <1>7, <1>8, <1>9 DEF MedInv

\* Every step keeps it.
LEMMA MedStepKeeps ==
    ASSUME MedInv, [MedNext]_medVars
    PROVE  MedInv'
<1>1. ASSUME NEW c \in Callers, MedEnter(c) \/ MedStep(c) PROVE MedInv'
  <2>1. CASE MedEnter(c)
    BY <2>1, EnterKeeps
  <2>2. CASE MedBegin(c) \/ MedFinish(c)
    BY <2>2, BeginKeeps
  <2>3. CASE MedFetch(c)
    BY <2>3, FetchKeeps
  <2>4. CASE MedSkip(c)
    BY <2>4, SkipKeeps
  <2>5. CASE MedExtract(c)
    BY <2>5, ExtractKeeps
  <2>6. CASE MedStore(c)
    BY <2>6, StoreKeeps
  <2>7. CASE MedLook(c)
    BY <2>7, LookKeeps
  <2>8. CASE MedPut(c)
    BY <2>8, PutKeeps
  <2>9. CASE MedRelate(c)
    BY <2>9, RelateKeeps
  <2>10. CASE MedInsert(c)
    BY <2>10, InsertKeeps
  <2>11. CASE MedLink(c)
    BY <2>11, LinkKeeps
  <2>12. CASE MedMark(c)
    BY <2>12, MarkKeeps
  <2> QED BY <1>1, <2>1, <2>2, <2>3, <2>4, <2>5, <2>6, <2>7, <2>8, <2>9, <2>10, <2>11, <2>12 DEF MedStep
<1>2. ASSUME NEW r \in 1..MaxRuns, CooldownPasses(r) PROVE MedInv'
  BY <1>2, CooldownKeeps
<1>3. CASE MedCrash
  BY <1>3, CrashKeeps
<1>4. CASE UNCHANGED medVars
  <2>1. UNCHANGED <<meditated, facts, entities, relations, record, aged, caller, excused, again, digests, saw, spent>>
    BY <1>4 DEF medVars, store, tale
  <2>2. MedTypeOK' /\ CallsAreSound' /\ RunsAreSound' /\ OneMeditation'
    BY <2>1 DEF MedInv, MedTypeOK, CallsAreSound, RunsAreSound, Recorded, OneMeditation
  <2>3. MarksAreStored' /\ DigestsAreKept'
    BY <2>1 DEF MedInv, MarksAreStored, DigestsAreKept, DigestedAgain, InHand
  <2>4. TwinsAreBounded'
    BY <2>1 DEF MedInv, TwinsAreBounded, NamesAreFew, RowsAreFew, Named, Adding, Rows, Relating, TheName,
                TheRelation, Few
  <2> QED BY <2>2, <2>3, <2>4 DEF MedInv
<1> QED BY <1>1, <1>2, <1>3, <1>4 DEF MedNext

\* Two recent runs are in progress together only if the later did not see the earlier's record, or
\* a failed run came between: for any number of callers, whatever fails or dies (is_within_cooldown,
\* meditation_ops.rs).
THEOREM MeditationsAreOneAtATime == MedSpec => []OneMeditation
<1>1. MedInv => OneMeditation
  BY DEF MedInv
<1> QED BY <1>1, MedInitially, MedStepKeeps, PTL DEF MedSpec

\* A marked episode has its fact stored or given up in the log, goes to the model again only with a
\* reason, and leaves no more than one entity per name, or row per relation, for each caller and run.
THEOREM MarkedIsStored == MedSpec => []MeditatedIsStored
<1>1. MedInv => MeditatedIsStored
  <2> SUFFICES ASSUME MedInv PROVE MeditatedIsStored
    OBVIOUS
  <2>1. ASSUME NEW N, NEW P, Few(N, P), IsFiniteSet(P)
        PROVE  Cardinality(N) <= Cardinality(Callers) /\ Cardinality(N) <= spent.runs
    <3>1. Cardinality(N) \in Nat /\ Cardinality(P) \in Nat /\ Cardinality(Callers) \in Nat /\ spent.runs \in Nat
      BY <2>1, FS_CardinalityType, MeditationAssumption DEF Few, MedInv, MedTypeOK
    <3> QED BY <2>1, <3>1 DEF Few
  <2>2. ASSUME NEW n \in Mentioned
        PROVE  LET N == {i \in DOMAIN entities : entities[i] = n}
               IN  Cardinality(N) <= Cardinality(Callers) /\ Cardinality(N) <= spent.runs
    <3>1. Few(Named(n), Adding(n)) /\ IsFiniteSet(Adding(n))
      BY PendingIsSmall DEF MedInv, TwinsAreBounded, NamesAreFew, Adding
    <3> QED BY <2>1, <3>1 DEF Named
  <2>3. ASSUME NEW i \in DOMAIN relations
        PROVE  LET N == {j \in DOMAIN relations : relations[j] = relations[i]}
               IN  Cardinality(N) <= Cardinality(Callers) /\ Cardinality(N) <= spent.runs
    <3>1. PICK p \in Nat \X Nat : p = relations[i]
      BY DEF MedInv, MedTypeOK
    <3>2. Few(Rows(p), Relating(p)) /\ IsFiniteSet(Relating(p))
      BY PendingIsSmall DEF MedInv, TwinsAreBounded, RowsAreFew, Relating
    <3> QED BY <2>1, <3>1, <3>2 DEF Rows
  <2> QED BY <2>2, <2>3 DEF MedInv, MeditatedIsStored, TwinsAreFew, MarksAreStored, DigestsAreKept
<1> QED BY <1>1, MedInitially, MedStepKeeps, PTL DEF MedSpec

================================================================================
