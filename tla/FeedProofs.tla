------------------------------- MODULE FeedProofs -------------------------------
(* For any threads, contents and bounds of the model: the feed loses nothing by itself, what   *)
(* is local only stays local, what supersedes a memory is later, twins come of overlapping     *)
(* adds alone, and each deferred add is accounted for once.                                    *)
EXTENDS MemoryFeed, SumProofs

Row == [text : Contents, locked : BOOLEAN, private : BOOLEAN, ver : Nat, at : Nat, sup : Nat]
Working == {"dedup", "write", "draw", "bump", "finish"}
Op == [pc : {"idle", "bury"} \cup Working, kind : {"none", "known", "add", "batch", "deferred", "delete"},
       todo : Seq(Contents), hit : Nat \cup {None}, id : Nat, draw : Nat, met : BOOLEAN]
Counts == [ops : Nat, polls : Nat, faults : Nat, highest : Nat, queued : Nat, done : Nat, dropped : Int]
SoundOp(o) == o \in Op /\ (o.pc \in Working => o.todo # <<>>)

\* What is in the threads' hands: who is to record a deletion has deleted the row.
HandsOK ==
    /\ op \in [Threads -> Op]
    /\ \A t \in Threads : /\ SoundOp(op[t]) /\ op[t].id \in 0..last
                          /\ op[t].pc = "bury" => op[t].id \in (1..last) \ Live

\* What the variables hold.  An id is given out once.
FeedTypeOK ==
    /\ last \in Nat /\ clock \in Nat /\ deferred \in Seq(Contents)
    /\ mem \in [Live -> Row] /\ Live \subseteq 1..last
    /\ tombs \in [DOMAIN tombs -> Nat] /\ DOMAIN tombs \subseteq (1..last) \ Live
    /\ HandsOK
    /\ follower = [pc |-> follower.pc, cursor |-> follower.cursor, changes |-> follower.changes,
                   dead |-> follower.dead, copy |-> follower.copy]
    /\ follower.pc \in {"idle", "tombs", "max"} /\ follower.cursor \in Nat
    /\ follower.changes \in SUBSET ((1..last) \X Contents)
    /\ follower.dead \subseteq (1..last) \ Live
    /\ follower.copy \in [DOMAIN follower.copy -> Contents] /\ DOMAIN follower.copy \subseteq 1..last
    /\ count \in Counts

\* No stamp is ahead of the clock, no version ahead of the highest that was written.
StampsAreSound ==
    /\ \A i \in Live : mem[i].at <= clock /\ mem[i].ver <= count.highest
    /\ follower.cursor <= count.highest

\* A row that is not private holds a text that is local only after it was rewritten, and so do the
\* changes the follower was given.
LocalInv ==
    /\ \A i \in Live : mem[i].text \in LocalOnly => mem[i].private \/ i \in merged
    /\ \A change \in follower.changes : change[2] \in LocalOnly => change[1] \in merged
    /\ LocalOnlyStays

\* Who is to look for contradictions of a new memory meets later ones only if they crossed.
LaterInv ==
    /\ \A t \in Threads : op[t].pc \in {"draw", "bump", "finish"} /\ op[t].hit = 0 =>
          \A j \in Live : j > op[t].id => j \in crossed
    /\ SupersededByLater

\* What the lookup of a thread did not see was written by another that met it, or is late.
TwinInv ==
    /\ 0 \notin late
    /\ \A t \in Threads : op[t].pc = "write" =>
          \A i \in Live : i # op[t].hit /\ mem[i].text = Item(t) =>
              op[t].met \/ {i, op[t].hit} \cap late # {}
    /\ NoTwins

Told == {change[1] : change \in follower.changes}
Buried == {op[t].id : t \in {u \in Threads : op[u].pc = "bury"}}

\* What of a live memory the follower has or will get, and of one that is gone.
Ahead ==
    \A i \in Live \ (slipped \cup InFlight) : ~mem[i].private =>
        \/ mem[i].ver > follower.cursor
        \/ i \in DOMAIN follower.copy /\ follower.copy[i] = mem[i].text
Gravestones ==
    \A i \in Unheard \ (slipped \cup Buried) :
        i \in DOMAIN tombs /\ \A j \in Live : mem[j].ver = follower.cursor => mem[j].at < tombs[i]

\* What the follower holds between its queries.
MidPoll ==
    /\ \A x, y \in follower.changes : x[1] = y[1] => x[2] = y[2]
    /\ follower.pc # "idle" =>
          /\ \A i \in Live \ (slipped \cup InFlight) : ~mem[i].private =>
                \/ <<i, mem[i].text>> \in follower.changes
                \/ i \in DOMAIN follower.copy \ Told /\ follower.copy[i] = mem[i].text
          /\ Told \ Live \subseteq slipped \cup Buried
    /\ follower.pc = "max" => Unheard \subseteq slipped \cup Buried \cup follower.dead

HeardInv == Ahead /\ Gravestones /\ MidPoll

--------------------------------------------------------------------------------
(* What the helpers make of what a thread is doing *)

\* The same work, met by another or not.
Alike(p, o) ==
    /\ p.pc = o.pc /\ p.kind = o.kind /\ p.todo = o.todo /\ p.hit = o.hit /\ p.id = o.id /\ p.draw = o.draw
    /\ o.met => p.met

\* The others go on with the same work, and t has sound work.
Turns(t) ==
    /\ op' \in [Threads -> Op] /\ SoundOp(op'[t])
    /\ \A u \in Threads \ {t} : Alike(op'[u], op[u])

\* No thread has got to a row.
Released(t) == Turns(t) /\ op'[t].pc \in {"idle", "dedup"} /\ op'[t].id = 0

LEMMA OpFields ==
    ASSUME FeedTypeOK, NEW t \in Threads
    PROVE  /\ op[t] \in Op /\ SoundOp(op[t]) /\ op[t].id \in 0..last
           /\ op[t].pc \in {"idle", "bury"} \cup Working
           /\ op[t].kind \in {"none", "known", "add", "batch", "deferred", "delete"}
           /\ op[t].todo \in Seq(Contents) /\ op[t].hit \in Nat \cup {None} /\ op[t].id \in Nat
           /\ op[t].draw \in Nat /\ op[t].met \in BOOLEAN
           /\ op[t] = [pc |-> op[t].pc, kind |-> op[t].kind, todo |-> op[t].todo, hit |-> op[t].hit,
                       id |-> op[t].id, draw |-> op[t].draw, met |-> op[t].met]
  BY DEF FeedTypeOK, HandsOK, Op

LEMMA QuietIsOp ==
    /\ Quiet \in Op /\ SoundOp(Quiet) /\ Quiet.pc = "idle" /\ Quiet.id = 0 /\ Quiet.hit = None
  BY DEF Quiet, Op, SoundOp, Working

\* What comes of an item: nothing, or the next one.
NextWork(kind, todo) == IF Len(todo) > 1 THEN [Quiet EXCEPT !.pc = "dedup", !.kind = kind, !.todo = Tail(todo)]
                                         ELSE Quiet

LEMMA NextWorkIsSound ==
    ASSUME NEW kind \in {"none", "known", "add", "batch", "deferred", "delete"}, NEW todo \in Seq(Contents)
    PROVE  /\ NextWork(kind, todo) \in Op /\ SoundOp(NextWork(kind, todo))
           /\ NextWork(kind, todo).pc \in {"idle", "dedup"} /\ NextWork(kind, todo).id = 0
<1>1. CASE Len(todo) > 1
  <2>1. Tail(todo) \in Seq(Contents) /\ Tail(todo) # <<>>
    <3>1. Len(todo) \in Nat /\ todo # <<>>
      BY <1>1
    <3>2. Tail(todo) \in Seq(Contents) /\ Len(Tail(todo)) = Len(todo) - 1
      BY <3>1
    <3>3. Len(Tail(todo)) # 0
      BY <1>1, <3>1, <3>2
    <3>4. Len(<<>>) = 0
      OBVIOUS
    <3>5. Tail(todo) # <<>>
      BY <3>3, <3>4
    <3> QED BY <3>2, <3>5
  <2>2. NextWork(kind, todo) = [pc |-> "dedup", kind |-> kind, todo |-> Tail(todo), hit |-> None, id |-> 0,
                                draw |-> 0, met |-> FALSE]
    BY <1>1 DEF NextWork, Quiet
  <2> QED BY <2>1, <2>2 DEF Op, SoundOp, Working
<1>2. CASE ~(Len(todo) > 1)
  BY <1>2, QuietIsOp DEF NextWork
<1> QED BY <1>1, <1>2

LEMMA ItemsGoOn ==
    ASSUME FeedTypeOK, NEW t \in Threads, NEW o \in [Threads -> Op],
           \A u \in Threads \ {t} : Alike(o[u], op[u]), NEW c \in Counts, NextItem(t, o, c)
    PROVE  Released(t) /\ (\A u \in Threads \ {t} : op'[u] = o[u]) /\ count' \in Counts /\ count'.highest = c.highest
<1>1. op' = [o EXCEPT ![t] = NextWork(op[t].kind, op[t].todo)]
  BY DEF NextItem, NextWork
<1>2. PICK w : w = NextWork(op[t].kind, op[t].todo)
  OBVIOUS
<1>3. w \in Op /\ SoundOp(w) /\ w.pc \in {"idle", "dedup"} /\ w.id = 0
  BY <1>2, OpFields, NextWorkIsSound
<1>4. op' \in [Threads -> Op] /\ op'[t] = w /\ \A u \in Threads \ {t} : op'[u] = o[u]
  BY <1>1, <1>2, <1>3
<1>5. count' \in Counts /\ count'.highest = c.highest
  <2>1. PICK n \in {0, 1} : count' = [c EXCEPT !.done = @ + n]
    BY DEF NextItem
  <2>2. c.done \in Nat /\ c.done + n \in Nat
    BY DEF Counts
  <2> QED BY <2>1, <2>2 DEF Counts
<1> QED BY <1>3, <1>4, <1>5 DEF Released, Turns

LEMMA ItemsAreAbandoned ==
    ASSUME FeedTypeOK, NEW t \in Threads, NEW c \in Counts, Abandon(t, c)
    PROVE  Released(t) /\ (\A u \in Threads \ {t} : op'[u] = op[u]) /\ count' \in Counts /\ count'.highest = c.highest
<1>1. PICK w : /\ op' = [op EXCEPT ![t] = w]
               /\ w \in Op /\ SoundOp(w) /\ w.pc \in {"idle", "dedup"} /\ w.id = 0
  <2>1. op' = [op EXCEPT ![t] = NextWork("deferred", op[t].todo)] \/ op' = [op EXCEPT ![t] = Quiet]
    BY DEF Abandon, NextWork
  <2>2. PICK w : w = NextWork("deferred", op[t].todo)
    OBVIOUS
  <2>3. w \in Op /\ SoundOp(w) /\ w.pc \in {"idle", "dedup"} /\ w.id = 0
    BY <2>2, OpFields, NextWorkIsSound
  <2> QED BY <2>1, <2>2, <2>3, QuietIsOp
<1>2. op \in [Threads -> Op]
  BY DEF FeedTypeOK, HandsOK
<1>3. op' \in [Threads -> Op] /\ op'[t] = w /\ \A u \in Threads \ {t} : op'[u] = op[u]
  BY <1>1, <1>2
<1>4. count' \in Counts /\ count'.highest = c.highest
  <2>1. count' = [c EXCEPT !.dropped = @ + 1] \/ count' = c
    BY DEF Abandon
  <2>2. c.dropped \in Int /\ c.dropped + 1 \in Int
    BY DEF Counts
  <2> QED BY <2>1, <2>2 DEF Counts
<1> QED BY <1>1, <1>3, <1>4 DEF Released, Turns, Alike

LEMMA MeetMarksOthers ==
    ASSUME NEW o \in [Threads -> Op], NEW t \in Threads, NEW c, NEW m, m = Meet(o, t, c)
    PROVE  /\ m \in [Threads -> Op] /\ m[t] = o[t]
           /\ \A u \in Threads : Alike(m[u], o[u])
           /\ \A u \in Threads \ {t} : o[u].pc \in {"dedup", "write"} /\ c \in Range(o[u].todo) => m[u].met
<1>1. ASSUME NEW u \in Threads
      PROVE  /\ m[u] \in Op /\ Alike(m[u], o[u]) /\ (u = t => m[u] = o[u])
             /\ u # t /\ o[u].pc \in {"dedup", "write"} /\ c \in Range(o[u].todo) => m[u].met
  <2>1. PICK p \in Op : p = o[u]
    OBVIOUS
  <2>2. PICK q : q = [p EXCEPT !.met = TRUE]
    OBVIOUS
  <2>3. q \in Op /\ Alike(q, p) /\ q.met
    BY <2>2 DEF Op, Alike
  <2>4. m[u] = IF u # t /\ p.pc \in {"dedup", "write"} /\ c \in Range(p.todo) THEN q ELSE p
    BY <2>1, <2>2 DEF Meet
  <2>5. Alike(p, p)
    BY DEF Alike
  <2> QED BY <2>1, <2>3, <2>4, <2>5
<1>2. m = [u \in Threads |-> m[u]]
  BY DEF Meet
<1> QED BY <1>1, <1>2

OpOf(p, k, todo, h, i, d, m) == [pc |-> p, kind |-> k, todo |-> todo, hit |-> h, id |-> i, draw |-> d, met |-> m]

\* What the steps make of a thread's work, field by field.
LEMMA OpBegins ==
    ASSUME NEW kind, NEW todo, NEW w, w = [Quiet EXCEPT !.pc = "dedup", !.kind = kind, !.todo = todo]
    PROVE  w = OpOf("dedup", kind, todo, None, 0, 0, FALSE)
  BY DEF OpOf, Quiet

LEMMA OpBuries ==
    ASSUME NEW id, NEW w, w = [Quiet EXCEPT !.pc = "bury", !.kind = "delete", !.id = id]
    PROVE  w = OpOf("bury", "delete", <<>>, None, id, 0, FALSE)
  BY DEF OpOf, Quiet

LEMMA OpKnows ==
    ASSUME NEW todo, NEW id, NEW w, w = [Quiet EXCEPT !.pc = "draw", !.kind = "known", !.todo = todo, !.id = id]
    PROVE  w = OpOf("draw", "known", todo, None, id, 0, FALSE)
  BY DEF OpOf, Quiet

LEMMA OpFinishes ==
    ASSUME NEW p \in Op, NEW w, w = [p EXCEPT !.pc = "finish"]
    PROVE  w = OpOf("finish", p.kind, p.todo, p.hit, p.id, p.draw, p.met)
  BY DEF OpOf, Op

LEMMA OpLooks ==
    ASSUME NEW p \in Op, NEW hit, NEW w, w = [p EXCEPT !.pc = "write", !.hit = hit]
    PROVE  w = OpOf("write", p.kind, p.todo, hit, p.id, p.draw, p.met)
  BY DEF OpOf, Op

LEMMA OpBumps ==
    ASSUME NEW p \in Op, NEW draw, NEW w, w = [p EXCEPT !.pc = "bump", !.draw = draw]
    PROVE  w = OpOf("bump", p.kind, p.todo, p.hit, p.id, draw, p.met)
  BY DEF OpOf, Op

LEMMA OpInserts ==
    ASSUME NEW p \in Op, NEW id, NEW w, w = [p EXCEPT !.pc = "draw", !.id = id, !.met = FALSE]
    PROVE  w = OpOf("draw", p.kind, p.todo, p.hit, id, p.draw, FALSE)
  BY DEF OpOf, Op

LEMMA OpUpdates ==
    ASSUME NEW p \in Op, NEW id, NEW w, w = [p EXCEPT !.pc = "draw", !.id = id, !.hit = None, !.met = FALSE]
    PROVE  w = OpOf("draw", p.kind, p.todo, None, id, p.draw, FALSE)
  BY DEF OpOf, Op

LEMMA ThreadTurns ==
    ASSUME FeedTypeOK, NEW t \in Threads, NEW w \in Op, SoundOp(w), op' = [op EXCEPT ![t] = w]
    PROVE  Turns(t) /\ op'[t] = w /\ \A u \in Threads \ {t} : op'[u] = op[u]
<1>1. op' \in [Threads -> Op] /\ op'[t] = w /\ \A u \in Threads \ {t} : op'[u] = op[u]
  BY DEF FeedTypeOK, HandsOK
<1> QED BY <1>1 DEF Turns, Alike

\* Ids are given out in order, and rows that are gone stay gone.
Grows == last' \in Nat /\ last <= last' /\ Live' \subseteq Live \cup ((last + 1)..last')

LEMMA TurnsAreSound ==
    ASSUME FeedTypeOK, NEW t \in Threads, Turns(t), Grows, op'[t].id \in 0..last',
           op'[t].pc = "bury" => op'[t].id \in (1..last') \ Live'
    PROVE  HandsOK'
<1>1. ASSUME NEW u \in Threads \ {t}
      PROVE  /\ SoundOp(op'[u]) /\ op'[u].id \in 0..last'
             /\ op'[u].pc = "bury" => op'[u].id \in (1..last') \ Live'
  <2>1. /\ SoundOp(op[u]) /\ op[u].id \in 0..last /\ last \in Nat /\ Live \subseteq 1..last
        /\ op[u].pc = "bury" => op[u].id \in (1..last) \ Live
    BY DEF FeedTypeOK, HandsOK
  <2>2. op'[u] \in Op /\ op'[u].pc = op[u].pc /\ op'[u].todo = op[u].todo /\ op'[u].id = op[u].id
    BY DEF Turns, Alike
  <2>3. SoundOp(op'[u])
    BY <2>1, <2>2 DEF SoundOp
  <2>4. op[u].id \in 0..last'
    BY <2>1 DEF Grows
  <2>5. op[u].id \in (1..last) \ Live => op[u].id \in (1..last') \ Live'
    BY <2>1 DEF Grows
  <2> QED BY <2>1, <2>2, <2>3, <2>4, <2>5
<1> QED BY <1>1 DEF Turns, HandsOK

\* What a step of a thread may do to the tables and leave them sound.
LEMMA FeedTypeStays ==
    ASSUME FeedTypeOK, StampsAreSound, HandsOK', Grows,
           clock' \in Nat, clock <= clock', deferred' \in Seq(Contents),
           mem' \in [Live' -> Row], \A i \in Live' : mem'[i].at <= clock' /\ mem'[i].ver <= count'.highest,
           tombs' \in [DOMAIN tombs' -> Nat], DOMAIN tombs' \subseteq (1..last) \ Live',
           follower' = follower, count' \in Counts, count.highest <= count'.highest
    PROVE  FeedTypeOK' /\ StampsAreSound'
<1>1. Live \subseteq 1..last /\ last \in Nat
  BY DEF FeedTypeOK
<1>2. /\ Live' \subseteq 1..last' /\ (1..last) \ Live \subseteq (1..last') \ Live' /\ 1..last \subseteq 1..last'
      /\ (1..last) \ Live' \subseteq (1..last') \ Live'
  BY <1>1 DEF Grows
<1>3. count.highest \in Nat /\ count'.highest \in Nat /\ follower.cursor \in Nat
  BY DEF FeedTypeOK, Counts
<1>4. /\ last' \in Nat /\ clock' \in Nat /\ deferred' \in Seq(Contents)
      /\ mem' \in [Live' -> Row] /\ Live' \subseteq 1..last'
      /\ tombs' \in [DOMAIN tombs' -> Nat] /\ DOMAIN tombs' \subseteq (1..last') \ Live'
  BY <1>2 DEF Grows
<1>5. \A s : s \in SUBSET ((1..last) \X Contents) => s \in SUBSET ((1..last') \X Contents)
  BY <1>2
<1>6. FeedTypeOK'
  BY <1>2, <1>4, <1>5 DEF FeedTypeOK
<1>7. StampsAreSound'
  BY <1>3 DEF StampsAreSound
<1> QED BY <1>6, <1>7

\* When the tables stay.
LEMMA TablesStay ==
    ASSUME FeedTypeOK, StampsAreSound, HandsOK', UNCHANGED <<mem, last, tombs, follower>>,
           clock' \in Nat, clock <= clock', deferred' \in Seq(Contents),
           count' \in Counts, count.highest = count'.highest
    PROVE  FeedTypeOK' /\ StampsAreSound'
<1>1. last \in Nat /\ clock \in Nat /\ count.highest \in Nat /\ Live' = Live
  BY DEF FeedTypeOK, Counts, Live
<1>2. mem' \in [Live' -> Row] /\ tombs' \in [DOMAIN tombs' -> Nat] /\ DOMAIN tombs' \subseteq (1..last) \ Live'
  BY <1>1 DEF FeedTypeOK
<1>3. \A i \in Live' : mem'[i].at <= clock' /\ mem'[i].ver <= count'.highest
  <2>1. \A i \in Live : mem[i].at \in Nat
    BY DEF FeedTypeOK, Row
  <2> QED BY <1>1, <2>1 DEF StampsAreSound
<1>4. Grows
  BY <1>1 DEF Grows
<1> QED BY <1>1, <1>2, <1>3, <1>4, FeedTypeStays

LEMMA LiveStays ==
    ASSUME FeedTypeOK, mem' = mem, last' = last
    PROVE  Live' = Live /\ Grows
  BY DEF Live, Grows, FeedTypeOK

LEMMA StartsCount ==
    ASSUME FeedTypeOK
    PROVE  /\ Started \in Counts /\ Started.highest = count.highest
           /\ Spend(count) \in Counts /\ Spend(count).highest = count.highest
           /\ count \in Counts /\ count.highest \in Nat
<1>1. count.ops + 1 \in Nat /\ count.faults + 1 \in Nat
  BY DEF FeedTypeOK, Counts
<1> QED BY <1>1 DEF FeedTypeOK, Counts, Started, Spend

--------------------------------------------------------------------------------
(* Adding: what each step does to its thread and to the tables *)

LEMMA AddDeferTypes ==
    ASSUME FeedTypeOK, StampsAreSound, NEW t \in Threads, AddDefer(t)
    PROVE  FeedTypeOK' /\ StampsAreSound'
<1>1. PICK c \in Contents :
          /\ deferred' = Append(deferred, c) /\ count' = [Started EXCEPT !.queued = @ + 1]
          /\ UNCHANGED <<mem, last, tombs, clock, op, follower>>
  BY DEF AddDefer
<1>2. deferred' \in Seq(Contents) /\ clock \in Nat
  BY <1>1 DEF FeedTypeOK
<1>3. count' \in Counts /\ count'.highest = count.highest
  <2>1. Started.queued + 1 \in Nat
    BY StartsCount DEF Counts
  <2> QED BY <1>1, <2>1, StartsCount DEF Counts
<1>4. HandsOK'
  BY <1>1 DEF FeedTypeOK, HandsOK, Live
<1> QED BY <1>1, <1>2, <1>3, <1>4, TablesStay

\* A call begins: the thread looks for duplicates, and holds no row.
LEMMA BeginningTypes ==
    ASSUME FeedTypeOK, StampsAreSound, NEW t \in Threads, AddUnknown(t) \/ AddBatch(t) \/ ProcessDeferred(t)
    PROVE  /\ FeedTypeOK' /\ StampsAreSound' /\ Turns(t) /\ op[t].pc = "idle" /\ op'[t].pc = "dedup"
           /\ UNCHANGED <<mem, tombs, follower, slipped, late, crossed, merged>>
<1>1. /\ UNCHANGED <<mem, last, tombs, clock, follower, slipped, late, crossed, merged>>
      /\ deferred' \in Seq(Contents) /\ op[t].pc = "idle"
  <2>1. CASE AddUnknown(t)
    BY <2>1 DEF AddUnknown, FeedTypeOK, Begin
  <2>2. CASE AddBatch(t)
    BY <2>2 DEF AddBatch, FeedTypeOK, Begin
  <2>3. CASE ProcessDeferred(t)
    BY <2>3 DEF ProcessDeferred, Begin
  <2> QED BY <2>1, <2>2, <2>3
<1>2. PICK kind \in {"add", "batch", "deferred"}, todo \in Seq(Contents) \ {<<>>} :
          op' = [op EXCEPT ![t] = [Quiet EXCEPT !.pc = "dedup", !.kind = kind, !.todo = todo]]
  <2>1. CASE AddUnknown(t)
    <3>1. PICK c \in Contents : op' = [op EXCEPT ![t] = [Quiet EXCEPT !.pc = "dedup", !.kind = "add", !.todo = <<c>>]]
      BY <2>1 DEF AddUnknown
    <3>2. <<c>> \in Seq(Contents) \ {<<>>}
      OBVIOUS
    <3> QED BY <3>1, <3>2
  <2>2. CASE AddBatch(t)
    BY <2>2, FeedAssumption DEF AddBatch
  <2>3. CASE ProcessDeferred(t)
    BY <2>3 DEF ProcessDeferred, FeedTypeOK
  <2> QED BY <2>1, <2>2, <2>3
<1>3. PICK w : w = [Quiet EXCEPT !.pc = "dedup", !.kind = kind, !.todo = todo]
  OBVIOUS
<1>4. op' = [op EXCEPT ![t] = w]
  BY <1>2, <1>3
<1>5. w \in Op /\ SoundOp(w) /\ w.pc = "dedup" /\ w.id = 0
  <2>1. w = OpOf("dedup", kind, todo, None, 0, 0, FALSE)
    BY <1>3, OpBegins
  <2> QED BY <2>1 DEF OpOf, Op, SoundOp, Working
<1>6. Turns(t) /\ op'[t] = w /\ \A u \in Threads \ {t} : op'[u] = op[u]
  BY <1>4, <1>5, ThreadTurns
<1>7. Grows /\ op'[t].id \in 0..last'
  BY <1>1, <1>5, <1>6, LiveStays DEF FeedTypeOK
<1>8. HandsOK'
  BY <1>5, <1>6, <1>7, TurnsAreSound
<1>9. count' \in Counts /\ count'.highest = count.highest
  <2>1. CASE count' = Started
    BY <2>1, StartsCount
  <2>2. ASSUME NEW n \in Nat, count' = [count EXCEPT !.ops = @ + n] PROVE count' \in Counts /\ count'.highest = count.highest
    <3>1. count.ops + n \in Nat
      BY DEF FeedTypeOK, Counts
    <3> QED BY <2>2, <3>1 DEF FeedTypeOK, Counts
  <2>3. \A batch \in Batches : Len(batch) \in Nat
    BY FeedAssumption
  <2> QED BY <2>1, <2>2, <2>3 DEF AddUnknown, AddBatch, ProcessDeferred
<1>10. clock' \in Nat /\ clock <= clock'
  BY <1>1 DEF FeedTypeOK
<1>11. FeedTypeOK' /\ StampsAreSound'
  BY <1>1, <1>8, <1>9, <1>10, TablesStay
<1> QED BY <1>1, <1>5, <1>6, <1>11

\* check_dedup finds a row that is there, an event, or nothing.
LEMMA VerdictsAreRows ==
    ASSUME NEW c
    PROVE  DedupVerdicts(c) \subseteq Live \cup {None, 0}
<1>1. HashHits(c) \subseteq Live
  BY DEF HashHits
<1>2. ClosestHits(c) \subseteq Live \cup {None}
  BY DEF ClosestHits
<1> QED BY <1>1, <1>2 DEF DedupVerdicts

LEMMA CheckTypes ==
    ASSUME FeedTypeOK, StampsAreSound, NEW t \in Threads, CheckDedup(t)
    PROVE  /\ FeedTypeOK' /\ StampsAreSound' /\ Turns(t) /\ op[t].pc = "dedup"
           /\ UNCHANGED <<mem, tombs, follower, slipped, late, crossed, merged>>
           /\ op'[t].pc = "write" /\ op'[t].todo = op[t].todo /\ op'[t].hit \in DedupVerdicts(Item(t))
<1>1. PICK hit \in DedupVerdicts(Item(t)) : op' = [op EXCEPT ![t] = [@ EXCEPT !.pc = "write", !.hit = hit]]
  BY DEF CheckDedup
<1>2. /\ UNCHANGED <<mem, last, tombs, clock, deferred, follower, count, slipped, late, crossed, merged>>
      /\ op[t].pc = "dedup"
  BY DEF CheckDedup
<1>3. hit \in Nat \cup {None}
  <2>1. Live \subseteq Nat
    BY DEF FeedTypeOK
  <2>2. PICK c : c = Item(t)
    OBVIOUS
  <2> QED BY <1>1, <2>1, <2>2, VerdictsAreRows
<1>4. PICK p, w : p \in Op /\ p = op[t] /\ w = [p EXCEPT !.pc = "write", !.hit = hit]
  BY OpFields
<1>5. op' = [op EXCEPT ![t] = w]
  BY <1>1, <1>4
<1>6. /\ w \in Op /\ SoundOp(w) /\ w.pc = "write" /\ w.todo = op[t].todo /\ w.hit = hit
      /\ w.id = op[t].id /\ w.met = op[t].met
  <2>1. op[t].todo # <<>>
    BY <1>2, OpFields DEF SoundOp, Working
  <2>2. w = OpOf("write", p.kind, p.todo, hit, p.id, p.draw, p.met)
    BY <1>4, OpLooks
  <2> QED BY <1>3, <1>4, <2>1, <2>2, OpFields, ZenonT(40) DEF OpOf, Op, SoundOp, Working
<1>7. Turns(t) /\ op'[t] = w /\ \A u \in Threads \ {t} : op'[u] = op[u]
  BY <1>5, <1>6, ThreadTurns
<1>8. Grows /\ op'[t].id \in 0..last'
  BY <1>2, <1>6, <1>7, OpFields, LiveStays DEF FeedTypeOK
<1>9. HandsOK'
  BY <1>6, <1>7, <1>8, TurnsAreSound
<1>10. clock' \in Nat /\ clock <= clock' /\ deferred' \in Seq(Contents) /\ count' \in Counts
  BY <1>2 DEF FeedTypeOK
<1>11. FeedTypeOK' /\ StampsAreSound'
  BY <1>2, <1>9, <1>10, TablesStay
<1> QED BY <1>1, <1>2, <1>6, <1>7, <1>11

LEMMA ItemIsContent ==
    ASSUME FeedTypeOK, NEW t \in Threads, op[t].pc \in Working
    PROVE  Item(t) \in Contents /\ Item(t) \in Range(op[t].todo)
<1>1. PICK todo : todo = op[t].todo
  OBVIOUS
<1>2. todo \in Seq(Contents) /\ todo # <<>>
  BY <1>1, OpFields DEF SoundOp
<1>3. Len(todo) \in Nat /\ Len(todo) >= 1 /\ DOMAIN todo = 1..Len(todo) /\ Head(todo) = todo[1] /\ todo[1] \in Contents
  BY <1>2
<1>4. 1 \in DOMAIN todo
  BY <1>3
<1> QED BY <1>1, <1>3, <1>4 DEF Item, Range

\* A row is stamped, its text rewritten perhaps; the others stay.
Stamped(i) ==
    /\ Live' = Live /\ mem' \in [Live -> Row] /\ \A j \in Live \ {i} : mem'[j] = mem[j]
    /\ mem'[i].private = mem[i].private /\ mem'[i].ver = mem[i].ver /\ mem'[i].sup = mem[i].sup
    /\ mem'[i].at = clock

LEMMA RowIsStamped ==
    ASSUME FeedTypeOK, NEW i \in Live, NEW c \in Contents
    PROVE  /\ mem' = [mem EXCEPT ![i].at = clock] => Stamped(i) /\ mem'[i].text = mem[i].text
           /\ mem' = [mem EXCEPT ![i].text = c, ![i].at = clock] => Stamped(i) /\ mem'[i].text = c
<1>1. PICK row \in Row : row = mem[i]
  BY DEF FeedTypeOK
<1>2. mem \in [Live -> Row] /\ clock \in Nat
  BY DEF FeedTypeOK
<1>3. ASSUME mem' = [mem EXCEPT ![i].at = clock] PROVE Stamped(i) /\ mem'[i].text = mem[i].text
  <2>1. PICK w : w = [row EXCEPT !.at = clock]
    OBVIOUS
  <2>2. mem' = [mem EXCEPT ![i] = w]
    BY <1>1, <1>3, <2>1
  <2>3. /\ w \in Row /\ w.private = row.private /\ w.ver = row.ver /\ w.sup = row.sup /\ w.at = clock
        /\ w.text = row.text
    BY <1>2, <2>1 DEF Row
  <2>4. mem' \in [Live -> Row] /\ mem'[i] = w /\ \A j \in Live \ {i} : mem'[j] = mem[j]
    BY <1>2, <2>2, <2>3
  <2>5. Live' = Live
    BY <1>2, <2>4 DEF Live
  <2> QED BY <1>1, <2>3, <2>4, <2>5 DEF Stamped
<1>4. ASSUME mem' = [mem EXCEPT ![i].text = c, ![i].at = clock] PROVE Stamped(i) /\ mem'[i].text = c
  <2>1. PICK w : w = [row EXCEPT !.text = c, !.at = clock]
    OBVIOUS
  <2>2. mem' = [mem EXCEPT ![i] = w]
    BY <1>1, <1>2, <1>4, <2>1
  <2>3. /\ w \in Row /\ w.private = row.private /\ w.ver = row.ver /\ w.sup = row.sup /\ w.at = clock
        /\ w.text = c
    BY <1>2, <2>1 DEF Row
  <2>4. mem' \in [Live -> Row] /\ mem'[i] = w /\ \A j \in Live \ {i} : mem'[j] = mem[j]
    BY <1>2, <2>2, <2>3
  <2>5. Live' = Live
    BY <1>2, <2>4 DEF Live
  <2> QED BY <1>1, <2>3, <2>4, <2>5 DEF Stamped
<1> QED BY <1>3, <1>4

LEMMA StampTypes ==
    ASSUME FeedTypeOK, StampsAreSound, HandsOK', NEW i \in Live, Stamped(i),
           UNCHANGED <<last, tombs, clock, deferred, follower>>,
           count' \in Counts, count.highest = count'.highest
    PROVE  FeedTypeOK' /\ StampsAreSound'
<1>1. Live' = Live /\ Grows /\ mem' \in [Live' -> Row] /\ count.highest \in Nat /\ clock \in Nat
  BY SMTT(30) DEF Stamped, Grows, FeedTypeOK, Counts
<1>2. tombs' \in [DOMAIN tombs' -> Nat] /\ DOMAIN tombs' \subseteq (1..last) \ Live' /\ deferred' \in Seq(Contents)
  BY <1>1 DEF FeedTypeOK
<1>3. \A j \in Live' : mem'[j].at <= clock' /\ mem'[j].ver <= count'.highest
  BY <1>1 DEF Stamped, StampsAreSound
<1> QED BY <1>1, <1>2, <1>3, FeedTypeStays

LEMMA KnownTypes ==
    ASSUME FeedTypeOK, StampsAreSound, NEW t \in Threads, AddKnown(t)
    PROVE  /\ FeedTypeOK' /\ StampsAreSound' /\ Turns(t) /\ op[t].pc = "idle"
           /\ op'[t].pc = "draw" /\ op'[t].hit = None
           /\ \E i \in Live : /\ Stamped(i) /\ mem'[i].text = mem[i].text
                              /\ op'[t].id = i /\ slipped' = slipped \cup SlipsAtStamp(i)
           /\ UNCHANGED <<tombs, follower, late, crossed, merged>>
<1>1. PICK c \in Contents, i \in Live :
          /\ i \in HashHits(c)
          /\ mem' = [mem EXCEPT ![i].at = clock]
          /\ op' = [op EXCEPT ![t] = [Quiet EXCEPT !.pc = "draw", !.kind = "known", !.todo = <<c>>, !.id = i]]
          /\ slipped' = slipped \cup SlipsAtStamp(i)
          /\ count' = Started
          /\ UNCHANGED <<last, tombs, clock, deferred, follower, late, crossed, merged>>
  BY DEF AddKnown, HashHits
<1>2. i \in Live /\ i \in 1..last /\ i \in Nat /\ op[t].pc = "idle"
  BY <1>1 DEF HashHits, FeedTypeOK, AddKnown, Begin
<1>3. Stamped(i) /\ mem'[i].text = mem[i].text
  BY <1>1, <1>2, RowIsStamped
<1>4. PICK todo, w : todo = <<c>> /\ w = [Quiet EXCEPT !.pc = "draw", !.kind = "known", !.todo = todo, !.id = i]
  OBVIOUS
<1>5. op' = [op EXCEPT ![t] = w]
  BY <1>1, <1>4
<1>6. w \in Op /\ SoundOp(w) /\ w.pc = "draw" /\ w.id = i /\ w.hit = None
  <2>1. w = OpOf("draw", "known", todo, None, i, 0, FALSE)
    BY <1>4, OpKnows
  <2>2. todo \in Seq(Contents) /\ todo # <<>>
    BY <1>4
  <2> QED BY <1>2, <2>1, <2>2 DEF OpOf, Op, SoundOp, Working
<1>7. Turns(t) /\ op'[t] = w
  BY <1>5, <1>6, ThreadTurns
<1>8. Grows /\ op'[t].id \in 0..last'
  BY <1>1, <1>2, <1>3, <1>6, <1>7 DEF Grows, Stamped, FeedTypeOK
<1>9. HandsOK'
  BY <1>6, <1>7, <1>8, TurnsAreSound
<1>10. FeedTypeOK' /\ StampsAreSound'
  BY <1>1, <1>2, <1>3, <1>9, StampTypes, StartsCount
<1> QED BY <1>1, <1>2, <1>3, <1>6, <1>7, <1>10

\* A thread that rewrites a row with c meets the others that are adding it.
MetBy(t, c) == \A u \in Threads \ {t} :
    op[u].pc \in {"dedup", "write"} /\ c \in Range(op[u].todo) => op'[u].met

\* A duplicate that is gone or immutable ends the item.
Abandoned(t) == Released(t) /\ UNCHANGED <<mem, tombs, slipped, late, merged>>

\* The duplicate is rewritten.
Rewritten(t, i) ==
    /\ i \in Live /\ i = op[t].hit /\ Stamped(i) /\ mem'[i].text = Item(t) /\ MetBy(t, Item(t))
    /\ Turns(t) /\ \/ op'[t].pc \in {"idle", "dedup"} /\ i \in slipped'
                   \/ op'[t].pc = "draw" /\ op'[t].id = i /\ op'[t].hit = None
    /\ slipped \cup SlipsAtStamp(i) \subseteq slipped' /\ slipped' \subseteq slipped \cup SlipsAtStamp(i) \cup {i}
    /\ merged' = merged \cup {i} /\ UNCHANGED tombs
    /\ late' = IF op[t].met THEN late \cup {i} ELSE late

LEMMA DuplicateTypes ==
    ASSUME FeedTypeOK, StampsAreSound, NEW t \in Threads, WriteDuplicate(t)
    PROVE  /\ FeedTypeOK' /\ StampsAreSound' /\ op[t].pc = "write" /\ UNCHANGED <<follower, crossed>>
           /\ Abandoned(t) \/ \E i \in Live : Rewritten(t, i)
<1>1. /\ op[t].pc = "write" /\ op[t].hit # 0
      /\ UNCHANGED <<last, tombs, clock, deferred, follower, crossed>>
  BY DEF WriteDuplicate
<1>2. Item(t) \in Contents /\ op[t].pc \in Working
  BY <1>1, ItemIsContent DEF Working
<1>3. CASE op[t].hit \notin Live \/ (op[t].hit \in Live /\ mem[op[t].hit].locked)
  <2>1. Abandon(t, count) /\ UNCHANGED <<mem, slipped, late, merged>>
    BY <1>3 DEF WriteDuplicate
  <2>2. Released(t) /\ count' \in Counts /\ count'.highest = count.highest
    BY <2>1, StartsCount, ItemsAreAbandoned
  <2>3. Abandoned(t)
    BY <1>1, <2>1, <2>2 DEF Abandoned
  <2>4. Grows /\ Live' = Live
    BY <1>1, <2>1, LiveStays
  <2>5. op'[t].id \in 0..last' /\ op'[t].pc # "bury" /\ Turns(t)
    BY <1>1, <2>2 DEF Released, FeedTypeOK
  <2>6. HandsOK'
    BY <2>4, <2>5, TurnsAreSound
  <2>7. clock' \in Nat /\ clock <= clock' /\ deferred' \in Seq(Contents)
    BY <1>1 DEF FeedTypeOK
  <2>8. FeedTypeOK' /\ StampsAreSound'
    BY <1>1, <2>1, <2>2, <2>6, <2>7, TablesStay
  <2> QED BY <1>1, <2>3, <2>8
<1>4. CASE ~(op[t].hit \notin Live \/ (op[t].hit \in Live /\ mem[op[t].hit].locked))
  <2>1. PICK i \in Live : i = op[t].hit
    BY <1>4
  <2>2. PICK c \in Contents : c = Item(t)
    BY <1>2
  <2>3. /\ late' = IF op[t].met THEN late \cup {i} ELSE late
        /\ merged' = merged \cup {i}
        /\ mem' = [mem EXCEPT ![i].text = c, ![i].at = clock]
        /\ slipped' = slipped \cup SlipsAtStamp(i) \cup (IF op[t].kind = "deferred" THEN {i} ELSE {})
    BY <1>4, <2>1, <2>2 DEF WriteDuplicate
  <2>4. IF op[t].kind = "deferred"
        THEN NextItem(t, Meet(op, t, c), count)
        ELSE /\ op' = Meet([op EXCEPT ![t] = [@ EXCEPT !.pc = "draw", !.id = i, !.hit = None, !.met = FALSE]], t, c)
             /\ UNCHANGED count
    BY <1>4, <2>1, <2>2 DEF WriteDuplicate
  <2>5. Stamped(i) /\ mem'[i].text = c
    BY <2>3, RowIsStamped
  <2>6. /\ Turns(t) /\ MetBy(t, c) /\ count' \in Counts /\ count'.highest = count.highest
        /\ \/ op'[t].pc \in {"idle", "dedup"} /\ op'[t].id = 0 /\ op[t].kind = "deferred"
           \/ op'[t].pc = "draw" /\ op'[t].id = i /\ op'[t].hit = None
    <3>1. CASE op[t].kind = "deferred"
      <4>1. PICK o : o = Meet(op, t, c)
        OBVIOUS
      <4>2. op \in [Threads -> Op]
        BY DEF FeedTypeOK, HandsOK
      <4>3. /\ o \in [Threads -> Op] /\ \A u \in Threads \ {t} : Alike(o[u], op[u])
            /\ \A u \in Threads \ {t} : op[u].pc \in {"dedup", "write"} /\ c \in Range(op[u].todo) => o[u].met
        BY <4>1, <4>2, MeetMarksOthers
      <4>4. NextItem(t, o, count)
        BY <2>4, <3>1, <4>1
      <4>5. /\ Released(t) /\ \A u \in Threads \ {t} : op'[u] = o[u]
            /\ count' \in Counts /\ count'.highest = count.highest
        BY <4>3, <4>4, StartsCount, ItemsGoOn
      <4>6. MetBy(t, c)
        BY <4>3, <4>5 DEF MetBy
      <4> QED BY <3>1, <4>5, <4>6 DEF Released
    <3>2. CASE op[t].kind # "deferred"
      <4>1. PICK p, w : p \in Op /\ p = op[t] /\ w = [p EXCEPT !.pc = "draw", !.id = i, !.hit = None, !.met = FALSE]
        BY OpFields
      <4>2. w \in Op /\ SoundOp(w) /\ w.pc = "draw" /\ w.id = i /\ w.hit = None
        <5>1. w = OpOf("draw", p.kind, p.todo, None, i, p.draw, FALSE)
          BY <4>1, OpUpdates
        <5>2. p.todo # <<>>
          BY <1>2, <4>1, OpFields DEF SoundOp
        <5>3. i \in Nat
          BY DEF FeedTypeOK
        <5> QED BY <4>1, <5>1, <5>2, <5>3, OpFields, ZenonT(40) DEF OpOf, Op, SoundOp, Working
      <4>3. PICK o : o = [op EXCEPT ![t] = w]
        OBVIOUS
      <4>4. op' = Meet(o, t, c) /\ count' = count
        BY <2>4, <3>2, <4>1, <4>3
      <4>5. op \in [Threads -> Op]
        BY DEF FeedTypeOK, HandsOK
      <4>6. o \in [Threads -> Op] /\ o[t] = w /\ \A u \in Threads \ {t} : o[u] = op[u]
        BY <4>2, <4>3, <4>5
      <4>7. /\ op' \in [Threads -> Op] /\ op'[t] = o[t] /\ \A u \in Threads : Alike(op'[u], o[u])
            /\ \A u \in Threads \ {t} : o[u].pc \in {"dedup", "write"} /\ c \in Range(o[u].todo) => op'[u].met
        BY <4>4, <4>6, MeetMarksOthers
      <4>8. MetBy(t, c)
        BY <4>6, <4>7 DEF MetBy
      <4>9. Turns(t)
        BY <4>2, <4>6, <4>7 DEF Turns
      <4> QED BY <4>2, <4>4, <4>6, <4>7, <4>8, <4>9, StartsCount
    <3> QED BY <3>1, <3>2
  <2>7. i \in 1..last /\ last' = last /\ last \in Nat
    BY <1>1 DEF FeedTypeOK
  <2>8. Grows /\ op'[t].id \in 0..last' /\ op'[t].pc # "bury"
    BY <2>5, <2>6, <2>7 DEF Grows, Stamped
  <2>9. HandsOK'
    BY <2>6, <2>8, TurnsAreSound
  <2>10. FeedTypeOK' /\ StampsAreSound'
    BY <1>1, <2>5, <2>6, <2>9, StampTypes
  <2>11. Rewritten(t, i)
    BY <1>1, <2>1, <2>2, <2>3, <2>5, <2>6 DEF Rewritten
  <2> QED BY <1>1, <2>10, <2>11
<1> QED BY <1>3, <1>4

--------------------------------------------------------------------------------
(* The greatest of numbers that have a bound *)

LEMMA GreatestIsThere ==
    ASSUME NEW S \in SUBSET Nat, S # {}, NEW b \in Nat, \A x \in S : x <= b
    PROVE  Max(S) \in S /\ \A x \in S : x <= Max(S)
<1> DEFINE Bounds == {n \in Nat : \A x \in S : x <= n}
<1>1. PICK m \in Bounds : \A n \in Bounds : ~(n < m)
  <2>1. Bounds \subseteq Nat /\ Bounds # {}
    OBVIOUS
  <2>2. \E m \in Bounds : \A n \in Bounds : ~(<<n, m>> \in OpToRel(<, Nat))
    BY <2>1, NatLessThanWellFounded, WFMin
  <2> QED BY <2>1, <2>2 DEF OpToRel
<1>2. m \in Nat /\ \A x \in S : x <= m
  OBVIOUS
<1>3. m \in S
  <2>1. SUFFICES ASSUME m \notin S PROVE FALSE
    OBVIOUS
  <2>2. PICK x \in S : TRUE
    OBVIOUS
  <2>3. \A y \in S : y \in Nat /\ y < m
    BY <1>2, <2>1
  <2>4. m - 1 \in Nat /\ \A y \in S : y <= m - 1
    BY <1>2, <2>2, <2>3
  <2>5. m - 1 \in Bounds /\ m - 1 < m
    BY <1>2, <2>4
  <2> QED BY <1>1, <2>5
<1>4. \E x \in S : \A y \in S : x >= y
  BY <1>2, <1>3
<1>5. Max(S) \in S /\ \A y \in S : Max(S) >= y
  BY <1>4 DEF Max
<1> QED BY <1>5

LEMMA VersionsAreBounded ==
    ASSUME FeedTypeOK, StampsAreSound
    PROVE  MaxVersion \in Nat /\ MaxVersion <= count.highest
<1>1. count.highest \in Nat
  BY DEF FeedTypeOK, Counts
<1>2. CASE Live = {}
  BY <1>1, <1>2 DEF MaxVersion
<1>3. CASE Live # {}
  <2>1. PICK S : S = {mem[i].ver : i \in Live}
    OBVIOUS
  <2>2. S \in SUBSET Nat /\ S # {} /\ \A x \in S : x <= count.highest
    BY <1>3, <2>1 DEF FeedTypeOK, Row, StampsAreSound
  <2>3. Max(S) \in S
    BY <1>1, <2>2, GreatestIsThere
  <2> QED BY <1>3, <2>1, <2>2, <2>3 DEF MaxVersion
<1> QED BY <1>2, <1>3

\* A stamp is beyond the horizon of a version when it comes after those of all rows at the version.
LEMMA BeyondIsAfterAll ==
    ASSUME FeedTypeOK, StampsAreSound, NEW v, NEW stamp \in Nat
    PROVE  Beyond(stamp, v) <=> \A j \in Live : mem[j].ver = v => mem[j].at < stamp
<1>1. PICK S : S = {mem[i].at : i \in {j \in Live : mem[j].ver = v}}
  OBVIOUS
<1>2. S \in SUBSET Nat /\ clock \in Nat /\ \A x \in S : x <= clock
  BY <1>1 DEF FeedTypeOK, Row, StampsAreSound
<1>3. Horizon(v) = IF S = {} THEN None ELSE Max(S)
  BY <1>1 DEF Horizon
<1>4. CASE S = {}
  BY <1>1, <1>3, <1>4 DEF Beyond
<1>5. CASE S # {}
  <2>1. Max(S) \in S /\ \A x \in S : x <= Max(S)
    BY <1>2, <1>5, GreatestIsThere
  <2>2. Horizon(v) = Max(S) /\ Max(S) \in Nat /\ Max(S) # None
    BY <1>2, <1>3, <1>5, <2>1, FeedAssumption
  <2>3. Beyond(stamp, v) <=> stamp > Max(S)
    BY <2>2 DEF Beyond
  <2>4. stamp > Max(S) <=> \A x \in S : x < stamp
    BY <1>2, <2>1, <2>2
  <2> QED BY <1>1, <2>3, <2>4
<1> QED BY <1>4, <1>5

--------------------------------------------------------------------------------
(* A new row, its version, what it supersedes, and the prunings *)

\* A new row.
Inserted(t, i) ==
    /\ i = last + 1 /\ i \notin Live /\ Live' = Live \cup {i}
    /\ mem' \in [Live' -> Row] /\ \A j \in Live : mem'[j] = mem[j]
    /\ mem'[i].text = Item(t) /\ mem'[i].private = (Item(t) \in LocalOnly)
    /\ mem'[i].ver = 0 /\ mem'[i].at = clock /\ mem'[i].sup = 0
    /\ MetBy(t, Item(t)) /\ Turns(t)
    /\ \/ op'[t].pc \in {"idle", "dedup"} /\ i \in slipped'
       \/ op'[t].pc = "draw" /\ op'[t].id = i
    /\ slipped \subseteq slipped' /\ (follower.cursor = 0 => Unheard \subseteq slipped')
    /\ late' = IF op[t].met THEN late \cup {i} ELSE late
    /\ crossed' = IF \E u \in Threads : op[u].pc \in {"draw", "bump", "finish"} /\ op[u].hit = 0
                  THEN crossed \cup {i} ELSE crossed

LEMMA NewTypes ==
    ASSUME FeedTypeOK, StampsAreSound, NEW t \in Threads, WriteNew(t)
    PROVE  /\ FeedTypeOK' /\ StampsAreSound' /\ op[t].pc = "write" /\ op[t].hit = 0
           /\ UNCHANGED <<tombs, follower, merged>> /\ Inserted(t, last + 1)
<1>1. op[t].pc = "write" /\ op[t].hit = 0 /\ UNCHANGED <<tombs, clock, deferred, follower, merged>>
  BY DEF WriteNew
<1>2. Item(t) \in Contents /\ op[t].pc \in Working
  BY <1>1, ItemIsContent DEF Working
<1>3. PICK c \in Contents : c = Item(t)
  BY <1>2
<1>4. PICK i \in Nat : i = last + 1
  BY DEF FeedTypeOK
<1>5. PICK row : row = [text |-> c, locked |-> c \in Locked, private |-> c \in LocalOnly, ver |-> 0,
                        at |-> clock, sup |-> 0]
  OBVIOUS
<1>6. /\ mem' = [j \in Live \cup {i} |-> IF j = i THEN row ELSE mem[j]] /\ last' = i
      /\ late' = IF op[t].met THEN late \cup {i} ELSE late
      /\ crossed' = IF \E u \in Threads : op[u].pc \in {"draw", "bump", "finish"} /\ op[u].hit = 0
                    THEN crossed \cup {i} ELSE crossed
      /\ IF op[t].kind = "deferred"
         THEN /\ slipped' = slipped \cup {i} \cup (IF follower.cursor = 0 THEN Unheard ELSE {})
              /\ NextItem(t, Meet(op, t, c), count)
         ELSE /\ op' = Meet([op EXCEPT ![t] = [@ EXCEPT !.pc = "draw", !.id = i, !.met = FALSE]], t, c)
              /\ slipped' = slipped \cup (IF follower.cursor = 0 THEN Unheard ELSE {})
              /\ UNCHANGED count
  BY <1>3, <1>4, <1>5 DEF WriteNew
<1>7. row \in Row
  BY <1>5 DEF Row, FeedTypeOK
<1>8. /\ i \notin Live /\ Live' = Live \cup {i} /\ mem' \in [Live' -> Row] /\ mem'[i] = row
      /\ \A j \in Live : mem'[j] = mem[j]
  <2>1. i \notin Live /\ mem \in [Live -> Row]
    BY <1>4 DEF FeedTypeOK
  <2>2. Live' = Live \cup {i}
    BY <1>6 DEF Live
  <2> QED BY <1>6, <1>7, <2>1, <2>2
<1>9. /\ Turns(t) /\ MetBy(t, c) /\ count' \in Counts /\ count'.highest = count.highest
      /\ \/ op'[t].pc \in {"idle", "dedup"} /\ op'[t].id = 0 /\ op[t].kind = "deferred"
         \/ op'[t].pc = "draw" /\ op'[t].id = i
  <2>1. CASE op[t].kind = "deferred"
    <3>1. PICK o : o = Meet(op, t, c)
      OBVIOUS
    <3>2. op \in [Threads -> Op]
      BY DEF FeedTypeOK, HandsOK
    <3>3. /\ o \in [Threads -> Op] /\ \A u \in Threads \ {t} : Alike(o[u], op[u])
          /\ \A u \in Threads \ {t} : op[u].pc \in {"dedup", "write"} /\ c \in Range(op[u].todo) => o[u].met
      BY <3>1, <3>2, MeetMarksOthers
    <3>4. NextItem(t, o, count)
      BY <1>6, <2>1, <3>1
    <3>5. /\ Released(t) /\ \A u \in Threads \ {t} : op'[u] = o[u]
          /\ count' \in Counts /\ count'.highest = count.highest
      BY <3>3, <3>4, StartsCount, ItemsGoOn
    <3>6. MetBy(t, c)
      BY <3>3, <3>5 DEF MetBy
    <3> QED BY <2>1, <3>5, <3>6 DEF Released
  <2>2. CASE op[t].kind # "deferred"
    <3>1. PICK p, w : p \in Op /\ p = op[t] /\ w = [p EXCEPT !.pc = "draw", !.id = i, !.met = FALSE]
      BY OpFields
    <3>2. w \in Op /\ SoundOp(w) /\ w.pc = "draw" /\ w.id = i
      <4>1. w = OpOf("draw", p.kind, p.todo, p.hit, i, p.draw, FALSE)
        BY <3>1, OpInserts
      <4>2. p.todo # <<>>
        BY <1>2, <3>1, OpFields DEF SoundOp
      <4> QED BY <3>1, <4>1, <4>2, OpFields, ZenonT(40) DEF OpOf, Op, SoundOp, Working
    <3>3. PICK o : o = [op EXCEPT ![t] = w]
      OBVIOUS
    <3>4. op' = Meet(o, t, c) /\ count' = count
      BY <1>6, <2>2, <3>1, <3>3
    <3>5. op \in [Threads -> Op]
      BY DEF FeedTypeOK, HandsOK
    <3>6. o \in [Threads -> Op] /\ o[t] = w /\ \A u \in Threads \ {t} : o[u] = op[u]
      BY <3>2, <3>3, <3>5
    <3>7. /\ op' \in [Threads -> Op] /\ op'[t] = o[t] /\ \A u \in Threads : Alike(op'[u], o[u])
          /\ \A u \in Threads \ {t} : o[u].pc \in {"dedup", "write"} /\ c \in Range(o[u].todo) => op'[u].met
      BY <3>4, <3>6, MeetMarksOthers
    <3>8. MetBy(t, c)
      BY <3>6, <3>7 DEF MetBy
    <3>9. Turns(t)
      BY <3>2, <3>6, <3>7 DEF Turns
    <3> QED BY <3>2, <3>4, <3>6, <3>7, <3>8, <3>9, StartsCount
  <2> QED BY <2>1, <2>2
<1>10. Grows /\ op'[t].id \in 0..last' /\ op'[t].pc # "bury"
  BY <1>4, <1>6, <1>8, <1>9 DEF Grows, FeedTypeOK
<1>11. HandsOK'
  BY <1>9, <1>10, TurnsAreSound
<1>12. \A j \in Live' : mem'[j].at <= clock' /\ mem'[j].ver <= count'.highest
  <2>1. clock \in Nat /\ count.highest \in Nat
    BY StartsCount DEF FeedTypeOK
  <2>2. row.at = clock /\ row.ver = 0
    BY <1>5
  <2> QED BY <1>1, <1>8, <1>9, <2>1, <2>2 DEF StampsAreSound
<1>13. /\ tombs' \in [DOMAIN tombs' -> Nat] /\ DOMAIN tombs' \subseteq (1..last) \ Live'
       /\ clock' \in Nat /\ clock <= clock' /\ deferred' \in Seq(Contents) /\ count.highest \in Nat
  BY <1>1, <1>4, <1>8, StartsCount DEF FeedTypeOK
<1>14. FeedTypeOK' /\ StampsAreSound'
  BY <1>1, <1>8, <1>9, <1>10, <1>11, <1>12, <1>13, FeedTypeStays
<1>15. Inserted(t, i)
  <2>1. /\ row.text = c /\ row.private = (c \in LocalOnly) /\ row.ver = 0 /\ row.at = clock /\ row.sup = 0
    BY <1>5
  <2>2. /\ slipped \subseteq slipped' /\ (follower.cursor = 0 => Unheard \subseteq slipped')
        /\ op[t].kind = "deferred" => i \in slipped'
    BY <1>6
  <2> QED BY <1>3, <1>4, <1>6, <1>8, <1>9, <2>1, <2>2 DEF Inserted
<1> QED BY <1>1, <1>4, <1>14, <1>15

\* Rows that differ in what supersedes them: the memory of t, which is to look for contradictions.
Corrected(t, rows) ==
    /\ rows \in [Live -> Row]
    /\ \A j \in Live :
          /\ rows[j].text = mem[j].text /\ rows[j].private = mem[j].private /\ rows[j].ver = mem[j].ver
          /\ rows[j].at = mem[j].at
          /\ rows[j].sup = mem[j].sup \/ (op[t].hit = 0 /\ rows[j].sup = op[t].id /\ j # op[t].id)

LEMMA RowsAreCorrected ==
    ASSUME FeedTypeOK, NEW t \in Threads
    PROVE  Corrected(t, mem) /\ Corrected(t, MarkSuperseded(t, op[t].id))
<1>1. mem \in [Live -> Row] /\ Corrected(t, mem)
  BY DEF FeedTypeOK, Corrected
<1>2. PICK i \in Nat : i = op[t].id
  BY OpFields
<1>3. PICK old : old = IF op[t].hit = 0 /\ i \in Live THEN Contradicted(i, Item(t)) ELSE {}
  OBVIOUS
<1>4. \A j \in old : j # i /\ op[t].hit = 0
  BY <1>3 DEF Contradicted
<1>5. PICK rows : rows = [j \in Live |-> IF j \in old THEN [mem[j] EXCEPT !.sup = i] ELSE mem[j]]
  OBVIOUS
<1>6. rows = MarkSuperseded(t, i)
  BY <1>3, <1>5 DEF MarkSuperseded
<1>7. ASSUME NEW j \in Live
      PROVE  /\ rows[j] \in Row
             /\ rows[j].text = mem[j].text /\ rows[j].private = mem[j].private /\ rows[j].ver = mem[j].ver
             /\ rows[j].at = mem[j].at
             /\ rows[j].sup = mem[j].sup \/ (op[t].hit = 0 /\ rows[j].sup = i /\ j # i)
  <2>1. PICK row \in Row : row = mem[j]
    BY <1>1
  <2>2. PICK w : w = [row EXCEPT !.sup = i]
    OBVIOUS
  <2>3. /\ w \in Row /\ w.text = row.text /\ w.private = row.private /\ w.ver = row.ver /\ w.at = row.at
        /\ w.sup = i
    BY <2>2 DEF Row
  <2>4. rows[j] = IF j \in old THEN w ELSE row
    BY <1>5, <2>1, <2>2
  <2> QED BY <1>4, <2>1, <2>3, <2>4
<1>8. rows \in [Live -> Row]
  BY <1>5, <1>7
<1> QED BY <1>1, <1>2, <1>6, <1>7, <1>8 DEF Corrected

\* The rows that are left of corrected ones.
Left(t, gone) ==
    /\ Live' = Live \ gone /\ mem' \in [Live' -> Row]
    /\ \A j \in Live' :
          /\ mem'[j].text = mem[j].text /\ mem'[j].private = mem[j].private /\ mem'[j].ver = mem[j].ver
          /\ mem'[j].at = mem[j].at
          /\ mem'[j].sup = mem[j].sup \/ (op[t].hit = 0 /\ mem'[j].sup = op[t].id /\ j # op[t].id)

LEMMA RowsAreLeft ==
    ASSUME FeedTypeOK, NEW t \in Threads, NEW rows, Corrected(t, rows), NEW gone, mem' = Forget(rows, gone)
    PROVE  Left(t, gone)
<1>1. DOMAIN rows = Live /\ rows \in [Live -> Row]
  BY DEF Corrected
<1>2. mem' = [x \in Live \ gone |-> rows[x]]
  BY <1>1 DEF Forget
<1>3. Live' = Live \ gone
  BY <1>2 DEF Live
<1> QED BY <1>1, <1>2, <1>3 DEF Corrected, Left

LEMMA RowsStay ==
    ASSUME FeedTypeOK, NEW t \in Threads, NEW rows, Corrected(t, rows), mem' = rows
    PROVE  Left(t, {})
<1>1. DOMAIN rows = Live /\ rows \in [Live -> Row]
  BY DEF Corrected
<1>2. Live' = Live \ {}
  BY <1>1 DEF Live
<1> QED BY <1>1, <1>2 DEF Corrected, Left

LEMMA LeftTypes ==
    ASSUME FeedTypeOK, StampsAreSound, NEW t \in Threads, NEW gone, Left(t, gone), HandsOK',
           UNCHANGED <<last, clock, deferred, follower>>,
           tombs' \in [DOMAIN tombs' -> Nat], DOMAIN tombs' \subseteq (1..last) \ Live',
           count' \in Counts, count'.highest = count.highest
    PROVE  FeedTypeOK' /\ StampsAreSound'
<1>1. Grows /\ mem' \in [Live' -> Row] /\ count.highest \in Nat /\ clock \in Nat
  BY StartsCount DEF Left, Grows, FeedTypeOK
<1>2. deferred' \in Seq(Contents)
  BY DEF FeedTypeOK
<1>3. \A j \in Live' : mem'[j].at <= clock' /\ mem'[j].ver <= count'.highest
  BY DEF Left, StampsAreSound
<1> QED BY <1>1, <1>2, <1>3, FeedTypeStays

\* When no deletion is recorded.
LEMMA TombsStay ==
    ASSUME FeedTypeOK, UNCHANGED <<tombs, last>>, Live' \subseteq Live
    PROVE  tombs' \in [DOMAIN tombs' -> Nat] /\ DOMAIN tombs' \subseteq (1..last) \ Live' /\ Grows
  BY DEF FeedTypeOK, Grows

\* A thread goes on with its row, or is done with it.
Bumped(t) == Turns(t) /\ \/ op'[t].pc \in {"idle", "dedup"} /\ op'[t].id = 0
                         \/ /\ op'[t].pc \in {"bump", "finish"}
                            /\ op'[t].id = op[t].id /\ op'[t].hit = op[t].hit

LEMMA BumpsGoOn ==
    ASSUME FeedTypeOK, NEW t \in Threads, op[t].pc \in Working, NEW c \in Counts, AfterBump(t, c)
    PROVE  Bumped(t) /\ op'[t].pc # "bump" /\ count' \in Counts /\ count'.highest = c.highest
<1>1. CASE op[t].kind = "add" /\ op[t].hit = 0
  <2>1. PICK p, w : p \in Op /\ p = op[t] /\ w = [p EXCEPT !.pc = "finish"]
    BY OpFields
  <2>2. op' = [op EXCEPT ![t] = w] /\ count' = c
    BY <1>1, <2>1 DEF AfterBump
  <2>3. w \in Op /\ SoundOp(w) /\ w.pc = "finish" /\ w.id = p.id /\ w.hit = p.hit
    <3>1. w = OpOf("finish", p.kind, p.todo, p.hit, p.id, p.draw, p.met)
      BY <2>1, OpFinishes
    <3>2. p.todo # <<>>
      BY <2>1, OpFields DEF SoundOp
    <3> QED BY <2>1, <3>1, <3>2, OpFields DEF OpOf, Op, SoundOp, Working
  <2>4. Turns(t) /\ op'[t] = w
    BY <2>2, <2>3, ThreadTurns
  <2> QED BY <2>1, <2>2, <2>3, <2>4 DEF Bumped
<1>2. CASE ~(op[t].kind = "add" /\ op[t].hit = 0)
  <2>1. PICK o : o = op
    OBVIOUS
  <2>2. NextItem(t, o, c)
    BY <1>2, <2>1 DEF AfterBump
  <2>3. o \in [Threads -> Op] /\ \A u \in Threads \ {t} : Alike(o[u], op[u])
    BY <2>1 DEF FeedTypeOK, HandsOK, Alike
  <2>4. Released(t) /\ count' \in Counts /\ count'.highest = c.highest
    BY <2>2, <2>3, ItemsGoOn
  <2> QED BY <2>4 DEF Released, Bumped
<1> QED BY <1>1, <1>2

LEMMA DrawTypes ==
    ASSUME FeedTypeOK, StampsAreSound, NEW t \in Threads, BumpDraw(t)
    PROVE  /\ FeedTypeOK' /\ StampsAreSound' /\ op[t].pc = "draw" /\ Bumped(t) /\ Left(t, {})
           /\ slipped \subseteq slipped' /\ (op'[t].pc = "bump" \/ op[t].id \in slipped')
           /\ UNCHANGED <<tombs, follower, late, crossed, merged>>
<1>1. op[t].pc = "draw" /\ UNCHANGED <<last, tombs, clock, deferred, follower, late, crossed, merged>>
  BY DEF BumpDraw
<1>2. op[t].pc \in Working
  BY <1>1 DEF Working
<1>3. Left(t, {})
  <2>1. mem' = mem \/ mem' = MarkSuperseded(t, op[t].id)
    BY DEF BumpDraw
  <2>2. PICK rows : Corrected(t, rows) /\ mem' = rows
    BY <2>1, RowsAreCorrected
  <2> QED BY <2>2, RowsStay
<1>4. /\ Bumped(t) /\ slipped \subseteq slipped' /\ (op'[t].pc = "bump" \/ op[t].id \in slipped')
      /\ count' \in Counts /\ count'.highest = count.highest
  <2>1. CASE op' = [op EXCEPT ![t] = [@ EXCEPT !.pc = "bump", !.draw = MaxVersion + 1]] /\ UNCHANGED <<slipped, count>>
    <3>1. PICK draw \in Nat : draw = MaxVersion + 1
      BY VersionsAreBounded
    <3>2. PICK p, w : p \in Op /\ p = op[t] /\ w = [p EXCEPT !.pc = "bump", !.draw = draw]
      BY OpFields
    <3>3. op' = [op EXCEPT ![t] = w]
      BY <2>1, <3>1, <3>2
    <3>4. w \in Op /\ SoundOp(w) /\ w.pc = "bump" /\ w.id = p.id /\ w.hit = p.hit
      <4>1. w = OpOf("bump", p.kind, p.todo, p.hit, p.id, draw, p.met)
        BY <3>2, OpBumps
      <4>2. p.todo # <<>>
        BY <1>2, <3>2, OpFields DEF SoundOp
      <4> QED BY <3>2, <4>1, <4>2, OpFields, ZenonT(40) DEF OpOf, Op, SoundOp, Working
    <3>5. Turns(t) /\ op'[t] = w
      BY <3>3, <3>4, ThreadTurns
    <3> QED BY <2>1, <3>2, <3>4, <3>5, StartsCount DEF Bumped
  <2>2. CASE slipped' = slipped \cup {op[t].id} /\ op' = [op EXCEPT ![t] = Quiet] /\ count' = Spend(count)
    <3>1. PICK w : w = Quiet
      OBVIOUS
    <3>2. Turns(t) /\ op'[t] = w
      BY <2>2, <3>1, QuietIsOp, ThreadTurns
    <3> QED BY <2>2, <3>1, <3>2, QuietIsOp, StartsCount DEF Bumped
  <2>3. CASE slipped' = slipped \cup {op[t].id} /\ AfterBump(t, Spend(count))
    <3>1. Bumped(t) /\ count' \in Counts /\ count'.highest = Spend(count).highest
      BY <1>2, <2>3, StartsCount, BumpsGoOn
    <3> QED BY <2>3, <3>1, StartsCount
  <2> QED BY <2>1, <2>2, <2>3 DEF BumpDraw
<1>5. Live' = Live /\ Grows /\ tombs' \in [DOMAIN tombs' -> Nat] /\ DOMAIN tombs' \subseteq (1..last) \ Live'
  BY <1>1, <1>3, TombsStay DEF Left
<1>6. op'[t].id \in 0..last' /\ op'[t].pc # "bury" /\ Turns(t)
  <2>1. last' = last /\ last \in Nat /\ op[t].id \in 0..last
    BY <1>1, OpFields DEF FeedTypeOK
  <2> QED BY <1>4, <2>1 DEF Bumped
<1>7. HandsOK'
  BY <1>5, <1>6, TurnsAreSound
<1>8. FeedTypeOK' /\ StampsAreSound'
  BY <1>1, <1>3, <1>4, <1>5, <1>7, LeftTypes
<1> QED BY <1>1, <1>3, <1>4, <1>8

\* A version is written, at a moment that hides it or not.
Versioned(t, i) ==
    /\ i \in Live /\ i = op[t].id /\ Live' = Live
    /\ \A j \in Live \ {i} : mem'[j] = mem[j]
    /\ mem'[i].text = mem[i].text /\ mem'[i].private = mem[i].private /\ mem'[i].sup = mem[i].sup
    /\ \/ i \in slipped' /\ slipped \subseteq slipped' /\ (mem'[i].ver = follower.cursor => Unheard \subseteq slipped')
       \/ mem'[i].ver > count.highest /\ follower.pc = "idle" /\ slipped' = slipped \ {i}

LEMMA LaterOfTwo ==
    ASSUME NEW a \in Nat, NEW b \in Nat
    PROVE  Max({a, b}) \in Nat /\ a <= Max({a, b}) /\ b <= Max({a, b})
<1>1. PICK S : S = {a, b}
  OBVIOUS
<1>2. S \in SUBSET Nat /\ S # {} /\ a + b \in Nat /\ \A x \in S : x <= a + b
  BY <1>1
<1>3. Max(S) \in S /\ \A x \in S : x <= Max(S)
  BY <1>2, GreatestIsThere
<1> QED BY <1>1, <1>3

LEMMA VersionTypes ==
    ASSUME FeedTypeOK, StampsAreSound, NEW t \in Threads, BumpWrite(t)
    PROVE  /\ FeedTypeOK' /\ StampsAreSound' /\ op[t].pc = "bump" /\ Bumped(t) /\ op'[t].pc # "bump"
           /\ \/ op[t].id \notin Live /\ UNCHANGED <<mem, slipped>>
              \/ \E i \in Live : Versioned(t, i)
           /\ UNCHANGED <<tombs, follower, late, crossed, merged>>
<1>1. op[t].pc = "bump" /\ UNCHANGED <<last, tombs, clock, deferred, follower, late, crossed, merged>>
  BY DEF BumpWrite
<1>2. op[t].pc \in Working
  BY <1>1 DEF Working
<1>3. PICK i \in Nat, v \in Nat : i = op[t].id /\ v = op[t].draw
  BY OpFields
<1>4. PICK c : /\ c = IF i \in Live THEN [count EXCEPT !.highest = Max({@, v})] ELSE count
               /\ AfterBump(t, c)
  BY <1>3 DEF BumpWrite
<1>5. c \in Counts /\ count.highest <= c.highest /\ (i \in Live => v <= c.highest)
  <2>1. CASE i \in Live
    <3>1. PICK m : m = Max({count.highest, v})
      OBVIOUS
    <3>2. m \in Nat /\ count.highest <= m /\ v <= m
      BY <3>1, StartsCount, LaterOfTwo
    <3>3. c = [count EXCEPT !.highest = m]
      BY <1>4, <2>1, <3>1
    <3> QED BY <3>2, <3>3, StartsCount DEF Counts
  <2>2. CASE i \notin Live
    BY <1>4, <2>2, StartsCount
  <2> QED BY <2>1, <2>2
<1>6. Bumped(t) /\ op'[t].pc # "bump" /\ count' \in Counts /\ count'.highest = c.highest
  BY <1>2, <1>4, <1>5, BumpsGoOn
<1>7. /\ mem' \in [Live' -> Row] /\ Live' = Live
      /\ \A j \in Live' : mem'[j].at <= clock' /\ mem'[j].ver <= count'.highest
      /\ \/ i \notin Live /\ UNCHANGED <<mem, slipped>>
         \/ \E k \in Live : Versioned(t, k)
  <2>0. mem \in [Live -> Row] /\ clock \in Nat /\ count.highest \in Nat /\ \A j \in Live : mem[j].ver \in Nat
    BY StartsCount DEF FeedTypeOK, Row
  <2>1. CASE i \notin Live
    <3>1. UNCHANGED <<mem, slipped>>
      BY <1>3, <2>1 DEF BumpWrite, Draws
    <3>2. c.highest = count.highest
      BY <1>4, <2>1
    <3> QED BY <1>1, <1>6, <2>0, <2>1, <3>1, <3>2 DEF Live, StampsAreSound
  <2>2. CASE i \in Live
    <3>1. PICK row \in Row : row = mem[i]
      BY <2>0, <2>2
    <3>2. PICK w : w = [row EXCEPT !.ver = v]
      OBVIOUS
    <3>3. /\ w \in Row /\ w.text = row.text /\ w.private = row.private /\ w.sup = row.sup /\ w.at = row.at
          /\ w.ver = v
      BY <3>2 DEF Row
    <3>4. mem' = [mem EXCEPT ![i] = w]
      BY <1>3, <2>2, <3>1, <3>2 DEF BumpWrite, Draws
    <3>5. mem' \in [Live -> Row] /\ mem'[i] = w /\ \A j \in Live \ {i} : mem'[j] = mem[j]
      BY <2>0, <2>2, <3>3, <3>4
    <3>6. Live' = Live
      BY <3>5 DEF Live
    <3>7. \A j \in Live : mem'[j].at <= clock /\ mem'[j].ver <= c.highest
      <4>1. \A j \in Live : mem[j].at <= clock /\ mem[j].ver <= count.highest
        BY DEF StampsAreSound
      <4>2. c.highest \in Nat
        BY <1>5 DEF Counts
      <4>3. row.at <= clock /\ v <= c.highest
        BY <1>5, <2>2, <3>1, <4>1
      <4> QED BY <1>5, <2>0, <3>3, <3>5, <4>1, <4>2, <4>3
    <3>8. slipped' = IF v <= count.highest \/ follower.pc # "idle"
                     THEN slipped \cup {i} \cup (IF v = follower.cursor THEN Unheard ELSE {})
                     ELSE slipped \ {i}
      BY <1>3, <2>2 DEF BumpWrite, Draws
    <3>9. \/ i \in slipped' /\ slipped \subseteq slipped' /\ (v = follower.cursor => Unheard \subseteq slipped')
          \/ v > count.highest /\ follower.pc = "idle" /\ slipped' = slipped \ {i}
      BY <2>0, <3>8
    <3>10. Versioned(t, i)
      BY <1>3, <2>2, <3>1, <3>3, <3>5, <3>6, <3>9 DEF Versioned
    <3> QED BY <1>1, <1>6, <2>2, <3>5, <3>6, <3>7, <3>10
  <2> QED BY <2>1, <2>2
<1>8. Grows /\ tombs' \in [DOMAIN tombs' -> Nat] /\ DOMAIN tombs' \subseteq (1..last) \ Live'
  <2>1. Live' \subseteq Live /\ UNCHANGED <<tombs, last>>
    BY <1>1, <1>7
  <2> QED BY <2>1, TombsStay
<1>9. op'[t].id \in 0..last' /\ op'[t].pc # "bury" /\ Turns(t)
  <2>1. last' = last /\ last \in Nat /\ op[t].id \in 0..last
    BY <1>1, OpFields DEF FeedTypeOK
  <2> QED BY <1>6, <2>1 DEF Bumped
<1>10. HandsOK'
  BY <1>8, <1>9, TurnsAreSound
<1>11. clock' \in Nat /\ clock <= clock' /\ deferred' \in Seq(Contents) /\ count.highest <= count'.highest
  BY <1>1, <1>5, <1>6 DEF FeedTypeOK
<1>12. FeedTypeOK' /\ StampsAreSound'
  BY <1>1, <1>6, <1>7, <1>8, <1>10, <1>11, FeedTypeStays
<1> QED BY <1>1, <1>3, <1>6, <1>7, <1>12

LEMMA FinishTypes ==
    ASSUME FeedTypeOK, StampsAreSound, NEW t \in Threads, AddFinish(t)
    PROVE  /\ FeedTypeOK' /\ StampsAreSound' /\ op[t].pc = "finish" /\ Released(t)
           /\ \E gone : Left(t, gone) /\ slipped' = slipped \cup gone
           /\ UNCHANGED <<tombs, follower, late, crossed, merged>>
<1>1. op[t].pc = "finish" /\ UNCHANGED <<last, tombs, clock, deferred, follower, late, crossed, merged>>
  BY DEF AddFinish
<1>2. PICK rows : rows = MarkSuperseded(t, op[t].id)
  OBVIOUS
<1>3. PICK gone : mem' = Forget(rows, gone) /\ slipped' = slipped \cup gone
  BY <1>2 DEF AddFinish
<1>4. Left(t, gone)
  BY <1>2, <1>3, RowsAreCorrected, RowsAreLeft
<1>5. Released(t) /\ count' \in Counts /\ count'.highest = count.highest
  <2>1. PICK o : o = op
    OBVIOUS
  <2>2. NextItem(t, o, count)
    BY <2>1 DEF AddFinish
  <2>3. o \in [Threads -> Op] /\ \A u \in Threads \ {t} : Alike(o[u], op[u])
    BY <2>1 DEF FeedTypeOK, HandsOK, Alike
  <2> QED BY <2>2, <2>3, StartsCount, ItemsGoOn
<1>6. Grows /\ tombs' \in [DOMAIN tombs' -> Nat] /\ DOMAIN tombs' \subseteq (1..last) \ Live'
  BY <1>1, <1>4, TombsStay DEF Left
<1>7. op'[t].id \in 0..last' /\ op'[t].pc # "bury" /\ Turns(t)
  BY <1>1, <1>5 DEF Released, FeedTypeOK
<1>8. HandsOK'
  BY <1>6, <1>7, TurnsAreSound
<1>9. FeedTypeOK' /\ StampsAreSound'
  BY <1>1, <1>4, <1>5, <1>6, <1>8, LeftTypes
<1> QED BY <1>1, <1>3, <1>4, <1>5, <1>9

--------------------------------------------------------------------------------
(* Rewriting, stamping and deleting *)

LEMMA RewriteTypes ==
    ASSUME FeedTypeOK, StampsAreSound, NEW t \in Threads, UpdateTrace(t)
    PROVE  /\ FeedTypeOK' /\ StampsAreSound' /\ op[t].pc = "idle" /\ op'[t] = op[t] /\ Turns(t)
           /\ \E i \in Live : /\ Stamped(i) /\ MetBy(t, mem'[i].text) /\ i \in slipped'
                              /\ slipped \cup SlipsAtStamp(i) \subseteq slipped'
                              /\ late' = late \cup {i} /\ merged' = merged \cup {i}
           /\ UNCHANGED <<tombs, follower, crossed>>
<1>1. op[t].pc = "idle" /\ UNCHANGED <<last, tombs, clock, deferred, follower, crossed>> /\ count' = Started
  BY DEF UpdateTrace, Begin
<1>2. PICK i \in Live, c \in Contents :
          /\ mem' = [mem EXCEPT ![i].text = c, ![i].at = clock]
          /\ slipped' = slipped \cup {i} \cup SlipsAtStamp(i)
          /\ late' = late \cup {i} /\ merged' = merged \cup {i} /\ op' = Meet(op, t, c)
  BY DEF UpdateTrace
<1>3. Stamped(i) /\ mem'[i].text = c
  BY <1>2, RowIsStamped
<1>4. op \in [Threads -> Op] /\ SoundOp(op[t])
  BY DEF FeedTypeOK, HandsOK
<1>5. /\ op' \in [Threads -> Op] /\ op'[t] = op[t] /\ \A u \in Threads : Alike(op'[u], op[u])
      /\ \A u \in Threads \ {t} : op[u].pc \in {"dedup", "write"} /\ c \in Range(op[u].todo) => op'[u].met
  BY <1>2, <1>4, MeetMarksOthers
<1>6. Turns(t) /\ MetBy(t, c)
  BY <1>4, <1>5 DEF Turns, MetBy
<1>7. Grows /\ op'[t].id \in 0..last'
  <2>1. last' = last /\ last \in Nat /\ Live' = Live
    BY <1>1, <1>3 DEF Stamped, FeedTypeOK
  <2>2. op'[t].id \in 0..last
    BY <1>5, OpFields
  <2> QED BY <2>1, <2>2 DEF Grows
<1>8. HandsOK'
  BY <1>1, <1>5, <1>6, <1>7, TurnsAreSound
<1>9. FeedTypeOK' /\ StampsAreSound'
  BY <1>1, <1>3, <1>8, StampTypes, StartsCount
<1> QED BY <1>1, <1>2, <1>3, <1>5, <1>6, <1>9

\* The threads' hands stay, the rows perhaps fewer.
LEMMA HandsStay ==
    ASSUME FeedTypeOK, op' = op, last' = last, Live' \subseteq Live
    PROVE  HandsOK'
  BY DEF FeedTypeOK, HandsOK

LEMMA StampingTypes ==
    ASSUME FeedTypeOK, StampsAreSound, NEW t \in Threads, UpdateImportance(t)
    PROVE  /\ FeedTypeOK' /\ StampsAreSound'
           /\ \E i \in Live : Stamped(i) /\ mem'[i].text = mem[i].text /\ slipped' = slipped \cup SlipsAtStamp(i)
           /\ UNCHANGED <<op, tombs, follower, late, crossed, merged>>
<1>1. UNCHANGED <<last, tombs, clock, deferred, op, follower, late, crossed, merged>> /\ count' = Started
  BY DEF UpdateImportance
<1>2. PICK i \in Live : mem' = [mem EXCEPT ![i].at = clock] /\ slipped' = slipped \cup SlipsAtStamp(i)
  BY DEF UpdateImportance
<1>3. PICK c \in Contents : c = mem[i].text
  BY DEF FeedTypeOK, Row
<1>4. Stamped(i) /\ mem'[i].text = mem[i].text
  BY <1>2, <1>3, RowIsStamped
<1>5. HandsOK'
  BY <1>1, <1>4, HandsStay DEF Stamped
<1>6. FeedTypeOK' /\ StampsAreSound'
  BY <1>1, <1>4, <1>5, StampTypes, StartsCount
<1> QED BY <1>1, <1>2, <1>4, <1>6

LEMMA DeleteTypes ==
    ASSUME FeedTypeOK, StampsAreSound, NEW t \in Threads, DeleteTrace(t)
    PROVE  /\ FeedTypeOK' /\ StampsAreSound' /\ op[t].pc = "idle" /\ op'[t].pc = "bury" /\ Turns(t)
           /\ Left(t, {op'[t].id}) /\ UNCHANGED <<tombs, follower, slipped, late, crossed, merged>>
<1>1. /\ op[t].pc = "idle" /\ count' = Started
      /\ UNCHANGED <<last, tombs, clock, deferred, follower, slipped, late, crossed, merged>>
  BY DEF DeleteTrace, Begin
<1>2. PICK i \in Live : /\ mem' = Forget(mem, {i})
                        /\ op' = [op EXCEPT ![t] = [Quiet EXCEPT !.pc = "bury", !.kind = "delete", !.id = i]]
  BY DEF DeleteTrace, RemoveRow
<1>3. Left(t, {i})
  <2>1. PICK rows : rows = mem
    OBVIOUS
  <2> QED BY <1>2, <2>1, RowsAreCorrected, RowsAreLeft
<1>4. i \in (1..last) \ Live' /\ i \in Nat /\ last' = last
  BY <1>1, <1>3 DEF Left, FeedTypeOK
<1>5. PICK w : w = [Quiet EXCEPT !.pc = "bury", !.kind = "delete", !.id = i]
  OBVIOUS
<1>6. w \in Op /\ SoundOp(w) /\ w.pc = "bury" /\ w.id = i
  <2>1. w = OpOf("bury", "delete", <<>>, None, i, 0, FALSE)
    BY <1>5, OpBuries
  <2> QED BY <1>4, <2>1 DEF OpOf, Op, SoundOp, Working
<1>7. op' = [op EXCEPT ![t] = w]
  BY <1>2, <1>5
<1>8. Turns(t) /\ op'[t] = w
  BY <1>6, <1>7, ThreadTurns
<1>9. Grows /\ tombs' \in [DOMAIN tombs' -> Nat] /\ DOMAIN tombs' \subseteq (1..last) \ Live'
  BY <1>1, <1>3, TombsStay DEF Left
<1>10. HandsOK'
  BY <1>4, <1>6, <1>8, <1>9, TurnsAreSound
<1>11. FeedTypeOK' /\ StampsAreSound'
  BY <1>1, <1>3, <1>9, <1>10, LeftTypes, StartsCount
<1> QED BY <1>1, <1>3, <1>6, <1>8, <1>11

\* The deletion is recorded, or the event is not written.
Recorded(t) ==
    \/ /\ DOMAIN tombs' = DOMAIN tombs \cup {op[t].id} /\ tombs'[op[t].id] = clock
       /\ \A j \in DOMAIN tombs \ {op[t].id} : tombs'[j] = tombs[j]
       /\ slipped' = slipped \cup Missed({op[t].id})
    \/ tombs' = tombs /\ slipped' = slipped \cup {op[t].id}

LEMMA RecordTypes ==
    ASSUME FeedTypeOK, StampsAreSound, NEW t \in Threads, RecordDelete(t)
    PROVE  /\ FeedTypeOK' /\ StampsAreSound' /\ op[t].pc = "bury" /\ Released(t)
           /\ Recorded(t) /\ UNCHANGED <<mem, follower, late, crossed, merged>>
<1>1. /\ op[t].pc = "bury" /\ op' = [op EXCEPT ![t] = Quiet]
      /\ UNCHANGED <<mem, last, clock, deferred, follower, late, crossed, merged>>
  BY DEF RecordDelete
<1>2. PICK i : i = op[t].id
  OBVIOUS
<1>3. i \in (1..last) \ Live
  BY <1>1, <1>2 DEF FeedTypeOK, HandsOK
<1>4. PICK w : w = Quiet
  OBVIOUS
<1>5. Turns(t) /\ op'[t] = w /\ Released(t)
  BY <1>1, <1>4, QuietIsOp, ThreadTurns DEF Released
<1>6. Grows /\ Live' = Live
  BY <1>1, LiveStays
<1>7. HandsOK'
  <2>1. op'[t].id \in 0..last' /\ op'[t].pc # "bury"
    BY <1>1, <1>4, <1>5, QuietIsOp DEF FeedTypeOK
  <2> QED BY <1>5, <1>6, <2>1, TurnsAreSound
<1>8. /\ Recorded(t) /\ tombs' \in [DOMAIN tombs' -> Nat] /\ DOMAIN tombs' \subseteq (1..last) \ Live'
      /\ count' \in Counts /\ count'.highest = count.highest
  <2>0. tombs \in [DOMAIN tombs -> Nat] /\ DOMAIN tombs \subseteq (1..last) \ Live /\ clock \in Nat
    BY DEF FeedTypeOK
  <2>1. CASE /\ tombs' = [j \in DOMAIN tombs \cup {i} |-> IF j = i THEN clock ELSE tombs[j]]
             /\ slipped' = slipped \cup Missed({i}) /\ UNCHANGED count
    <3>1. DOMAIN tombs' = DOMAIN tombs \cup {i} /\ tombs'[i] = clock /\ \A j \in DOMAIN tombs \ {i} : tombs'[j] = tombs[j]
      BY <2>1
    <3>2. tombs' \in [DOMAIN tombs' -> Nat]
      BY <2>0, <2>1
    <3> QED BY <1>2, <1>3, <1>6, <2>0, <2>1, <3>1, <3>2, StartsCount DEF Recorded
  <2>2. CASE count' = Spend(count) /\ slipped' = slipped \cup {i} /\ UNCHANGED tombs
    BY <1>2, <1>6, <2>0, <2>2, StartsCount DEF Recorded
  <2> QED BY <1>2, <2>1, <2>2 DEF RecordDelete
<1>9. Left(t, {})
  BY <1>1, RowsAreCorrected, RowsStay
<1>10. FeedTypeOK' /\ StampsAreSound'
  BY <1>1, <1>7, <1>8, <1>9, LeftTypes
<1> QED BY <1>1, <1>5, <1>8, <1>10

LEMMA DeleteAllTypes ==
    ASSUME FeedTypeOK, StampsAreSound, NEW t \in Threads, DeleteAllTraces(t)
    PROVE  /\ FeedTypeOK' /\ StampsAreSound' /\ Left(t, Live) /\ DOMAIN tombs' = DOMAIN tombs \cup Live
           /\ slipped' = slipped \cup Missed(Live) /\ UNCHANGED <<op, follower, late, crossed, merged>>
<1>1. /\ UNCHANGED <<last, clock, deferred, op, follower, late, crossed, merged>> /\ count' = Started
      /\ mem' = Forget(mem, Live) /\ slipped' = slipped \cup Missed(Live)
      /\ tombs' = [j \in DOMAIN tombs \cup Live |-> IF j \in Live THEN clock ELSE tombs[j]]
  BY DEF DeleteAllTraces, RemoveRow
<1>2. Left(t, Live)
  <2>1. PICK rows, gone : rows = mem /\ gone = Live
    OBVIOUS
  <2>2. mem' = Forget(rows, gone) /\ Corrected(t, rows)
    BY <1>1, <2>1, RowsAreCorrected
  <2> QED BY <2>1, <2>2, RowsAreLeft
<1>3. Live' = {}
  BY <1>2 DEF Left
<1>4. tombs' \in [DOMAIN tombs' -> Nat] /\ DOMAIN tombs' = DOMAIN tombs \cup Live
  <2>1. tombs \in [DOMAIN tombs -> Nat] /\ clock \in Nat
    BY DEF FeedTypeOK
  <2> QED BY <1>1, <2>1
<1>5. DOMAIN tombs' \subseteq (1..last) \ Live'
  BY <1>3, <1>4 DEF FeedTypeOK
<1>6. HandsOK'
  BY <1>1, <1>3, HandsStay
<1>7. FeedTypeOK' /\ StampsAreSound'
  BY <1>1, <1>2, <1>4, <1>5, <1>6, LeftTypes, StartsCount
<1> QED BY <1>1, <1>2, <1>4, <1>7

LEMMA ConsolidateTypes ==
    ASSUME FeedTypeOK, StampsAreSound, NEW t \in Threads, Consolidate(t)
    PROVE  /\ FeedTypeOK' /\ StampsAreSound'
           /\ \E gone : Left(t, gone) /\ slipped' = slipped \cup gone
           /\ UNCHANGED <<op, tombs, follower, late, crossed, merged>>
<1>1. UNCHANGED <<last, tombs, clock, deferred, op, follower, late, crossed, merged>> /\ count' = Started
  BY DEF Consolidate
<1>2. PICK gone \in SUBSET Live : mem' = Forget(mem, gone) /\ slipped' = slipped \cup gone
  BY DEF Consolidate, RemoveRow
<1>3. Left(t, gone)
  <2>1. PICK rows : rows = mem
    OBVIOUS
  <2> QED BY <1>2, <2>1, RowsAreCorrected, RowsAreLeft
<1>4. Grows /\ tombs' \in [DOMAIN tombs' -> Nat] /\ DOMAIN tombs' \subseteq (1..last) \ Live' /\ Live' \subseteq Live
  BY <1>1, <1>3, TombsStay DEF Left
<1>5. HandsOK'
  BY <1>1, <1>4, HandsStay
<1>6. FeedTypeOK' /\ StampsAreSound'
  BY <1>1, <1>3, <1>4, <1>5, LeftTypes, StartsCount
<1> QED BY <1>1, <1>2, <1>3, <1>6

LEMMA CrashTypes ==
    ASSUME FeedTypeOK, StampsAreSound, Crash
    PROVE  /\ FeedTypeOK' /\ StampsAreSound' /\ \A t \in Threads : op'[t] = Quiet
           /\ slipped \cup InFlight \subseteq slipped'
           /\ UNCHANGED <<mem, tombs, follower, late, crossed, merged>>
<1>1. /\ op' = [t \in Threads |-> Quiet] /\ deferred' = <<>> /\ slipped' = slipped \cup InFlight
      /\ count' = [Spend(count) EXCEPT !.dropped = count.queued - count.done]
      /\ UNCHANGED <<mem, last, tombs, clock, follower, late, crossed, merged>>
  BY DEF Crash, InFlight
<1>2. count' \in Counts /\ count'.highest = count.highest
  <2>1. count.queued - count.done \in Int
    BY DEF FeedTypeOK, Counts
  <2> QED BY <1>1, <2>1, StartsCount DEF Counts
<1>3. HandsOK'
  <2>1. PICK w : w = Quiet
    OBVIOUS
  <2>2. op' = [t \in Threads |-> w] /\ w \in Op /\ SoundOp(w) /\ w.id = 0 /\ w.pc = "idle"
    BY <1>1, <2>1, QuietIsOp
  <2>3. last' \in Nat
    BY <1>1 DEF FeedTypeOK
  <2> QED BY <2>2, <2>3 DEF HandsOK
<1>4. clock' \in Nat /\ clock <= clock' /\ deferred' \in Seq(Contents)
  BY <1>1 DEF FeedTypeOK
<1>5. FeedTypeOK' /\ StampsAreSound'
  BY <1>1, <1>2, <1>3, <1>4, TablesStay
<1> QED BY <1>1, <1>5

LEMMA TickTypes ==
    ASSUME FeedTypeOK, StampsAreSound, Tick
    PROVE  /\ FeedTypeOK' /\ StampsAreSound'
           /\ UNCHANGED <<mem, op, tombs, follower, slipped, late, crossed, merged>>
<1>1. /\ clock' = clock + 1
      /\ UNCHANGED <<mem, last, tombs, deferred, op, follower, slipped, late, crossed, merged, count>>
  BY DEF Tick
<1>2. clock' \in Nat /\ clock <= clock' /\ deferred' \in Seq(Contents) /\ Live' = Live
  BY <1>1, LiveStays DEF FeedTypeOK
<1>3. HandsOK'
  BY <1>1, <1>2, HandsStay
<1>4. FeedTypeOK' /\ StampsAreSound'
  BY <1>1, <1>2, <1>3, TablesStay, StartsCount
<1> QED BY <1>1, <1>4

--------------------------------------------------------------------------------
(* The follower's queries *)

LEMMA ReaderFields ==
    ASSUME NEW f, f = [pc |-> f.pc, cursor |-> f.cursor, changes |-> f.changes, dead |-> f.dead, copy |-> f.copy],
           NEW S, NEW g
    PROVE  /\ g = [f EXCEPT !.pc = "tombs", !.changes = S]
                => g = [pc |-> "tombs", cursor |-> f.cursor, changes |-> S, dead |-> f.dead, copy |-> f.copy]
           /\ g = [f EXCEPT !.pc = "max", !.dead = S]
                => g = [pc |-> "max", cursor |-> f.cursor, changes |-> f.changes, dead |-> S, copy |-> f.copy]
<1>1. ASSUME g = [f EXCEPT !.pc = "tombs", !.changes = S]
      PROVE  g = [pc |-> "tombs", cursor |-> f.cursor, changes |-> S, dead |-> f.dead, copy |-> f.copy]
  BY <1>1
<1>2. ASSUME g = [f EXCEPT !.pc = "max", !.dead = S]
      PROVE  g = [pc |-> "max", cursor |-> f.cursor, changes |-> f.changes, dead |-> S, copy |-> f.copy]
  BY <1>2
<1> QED BY <1>1, <1>2

\* A query changes what the follower holds, and nothing else.
LEMMA QueryTypes ==
    ASSUME FeedTypeOK, StampsAreSound,
           NEW pc \in {"idle", "tombs", "max"}, NEW cursor \in Nat, NEW changes \in SUBSET ((1..last) \X Contents),
           NEW dead \in SUBSET ((1..last) \ Live), NEW D \in SUBSET (1..last), NEW copy \in [D -> Contents],
           follower' = [pc |-> pc, cursor |-> cursor, changes |-> changes, dead |-> dead, copy |-> copy],
           UNCHANGED <<mem, last, tombs, clock, deferred, op>>, count' \in Counts, count'.highest = count.highest,
           cursor <= count.highest
    PROVE  FeedTypeOK' /\ StampsAreSound'
<1>1. Live' = Live /\ HandsOK'
  BY LiveStays, HandsStay
<1>2. /\ follower'.pc = pc /\ follower'.cursor = cursor /\ follower'.changes = changes
      /\ follower'.dead = dead /\ follower'.copy = copy /\ DOMAIN copy = D
  OBVIOUS
<1>3. FeedTypeOK'
  BY <1>1, <1>2 DEF FeedTypeOK
<1>4. StampsAreSound'
  BY <1>1, <1>2 DEF StampsAreSound
<1> QED BY <1>3, <1>4

LEMMA FollowerFields ==
    ASSUME FeedTypeOK
    PROVE  /\ follower = [pc |-> follower.pc, cursor |-> follower.cursor, changes |-> follower.changes,
                          dead |-> follower.dead, copy |-> follower.copy]
           /\ follower.pc \in {"idle", "tombs", "max"} /\ follower.cursor \in Nat
           /\ follower.changes \in SUBSET ((1..last) \X Contents)
           /\ follower.dead \in SUBSET ((1..last) \ Live)
           /\ follower.copy \in [DOMAIN follower.copy -> Contents] /\ DOMAIN follower.copy \subseteq 1..last
  BY DEF FeedTypeOK

LEMMA ChangesTypes ==
    ASSUME FeedTypeOK, StampsAreSound, ReadChanges
    PROVE  /\ FeedTypeOK' /\ StampsAreSound' /\ follower.pc = "idle"
           /\ follower'.pc = "tombs" /\ follower'.cursor = follower.cursor /\ follower'.copy = follower.copy
           /\ follower'.changes = {<<i, mem[i].text>> :
                                      i \in {j \in Live : mem[j].ver > follower.cursor /\ ~mem[j].private}}
           /\ UNCHANGED <<mem, op, tombs, slipped, late, crossed, merged>>
<1>1. /\ follower.pc = "idle" /\ count' = [count EXCEPT !.polls = @ + 1]
      /\ UNCHANGED <<mem, last, tombs, clock, deferred, op, slipped, late, crossed, merged>>
  BY DEF ReadChanges
<1>2. PICK S : S = {<<i, mem[i].text>> : i \in {j \in Live : mem[j].ver > follower.cursor /\ ~mem[j].private}}
  OBVIOUS
<1>3. follower' = [follower EXCEPT !.pc = "tombs", !.changes = S]
  BY <1>2 DEF ReadChanges
<1>4. follower' = [pc |-> "tombs", cursor |-> follower.cursor, changes |-> S, dead |-> follower.dead,
                   copy |-> follower.copy]
  BY <1>3, FollowerFields, ReaderFields
<1>5. S \in SUBSET ((1..last) \X Contents)
  BY <1>2 DEF FeedTypeOK, Row
<1>6. count' \in Counts /\ count'.highest = count.highest
  <2>1. count.polls + 1 \in Nat
    BY StartsCount DEF Counts
  <2> QED BY <1>1, <2>1, StartsCount DEF Counts
<1>7. PICK D : D = DOMAIN follower.copy
  OBVIOUS
<1>8. follower.cursor <= count.highest
  BY DEF StampsAreSound
<1>9. FeedTypeOK' /\ StampsAreSound'
  BY <1>1, <1>4, <1>5, <1>6, <1>7, <1>8, FollowerFields, QueryTypes
<1> QED BY <1>1, <1>2, <1>4, <1>9

LEMMA TombstonesTypes ==
    ASSUME FeedTypeOK, StampsAreSound, ReadTombstones
    PROVE  /\ FeedTypeOK' /\ StampsAreSound' /\ follower.pc = "tombs"
           /\ follower'.pc = "max" /\ follower'.cursor = follower.cursor /\ follower'.copy = follower.copy
           /\ follower'.changes = follower.changes
           /\ follower'.dead = {i \in DOMAIN tombs \ Live :
                                   \A j \in Live : mem[j].ver = follower.cursor => mem[j].at < tombs[i]}
           /\ UNCHANGED <<mem, op, tombs, slipped, late, crossed, merged>>
<1>1. /\ follower.pc = "tombs"
      /\ UNCHANGED <<mem, last, tombs, clock, deferred, op, slipped, late, crossed, merged, count>>
  BY DEF ReadTombstones
<1>2. PICK S : S = {i \in DOMAIN tombs \ Live : Beyond(tombs[i], follower.cursor)}
  OBVIOUS
<1>3. follower' = [follower EXCEPT !.pc = "max", !.dead = S]
  BY <1>2 DEF ReadTombstones
<1>4. follower' = [pc |-> "max", cursor |-> follower.cursor, changes |-> follower.changes, dead |-> S,
                   copy |-> follower.copy]
  BY <1>3, FollowerFields, ReaderFields
<1>5. S \in SUBSET ((1..last) \ Live)
  BY <1>2 DEF FeedTypeOK
<1>6. S = {i \in DOMAIN tombs \ Live : \A j \in Live : mem[j].ver = follower.cursor => mem[j].at < tombs[i]}
  <2>1. \A i \in DOMAIN tombs : tombs[i] \in Nat
    BY DEF FeedTypeOK
  <2>2. \A i \in DOMAIN tombs : Beyond(tombs[i], follower.cursor)
                                  <=> \A j \in Live : mem[j].ver = follower.cursor => mem[j].at < tombs[i]
    <3>1. TAKE i \in DOMAIN tombs
    <3>2. PICK stamp, v : stamp \in Nat /\ stamp = tombs[i] /\ v = follower.cursor
      BY <2>1
    <3>3. Beyond(stamp, v) <=> \A j \in Live : mem[j].ver = v => mem[j].at < stamp
      BY <3>2, BeyondIsAfterAll
    <3> QED BY <3>2, <3>3
  <2> QED BY <1>2, <2>2
<1>7. PICK D : D = DOMAIN follower.copy
  OBVIOUS
<1>8. follower.cursor <= count.highest
  BY DEF StampsAreSound
<1>9. FeedTypeOK' /\ StampsAreSound'
  BY <1>1, <1>4, <1>5, <1>7, <1>8, FollowerFields, QueryTypes, StartsCount
<1> QED BY <1>1, <1>4, <1>6, <1>9

\* What the follower has after a poll: the changes, and what it had of the others.
Applied(copy, changes, dead, after) ==
    /\ DOMAIN after = (DOMAIN copy \cup {change[1] : change \in changes}) \ dead
    /\ \A i \in DOMAIN after :
          \/ \E change \in changes : change[1] = i /\ after[i] = change[2]
          \/ i \notin {change[1] : change \in changes} /\ after[i] = copy[i]

LEMMA MaxVersionTypes ==
    ASSUME FeedTypeOK, StampsAreSound, ReadMaxVersion
    PROVE  /\ FeedTypeOK' /\ StampsAreSound' /\ follower.pc = "max"
           /\ follower'.pc = "idle" /\ follower'.cursor = MaxVersion /\ follower'.changes = {}
           /\ Applied(follower.copy, follower.changes, follower.dead, follower'.copy)
           /\ UNCHANGED <<mem, op, tombs, slipped, late, crossed, merged>>
<1>1. /\ follower.pc = "max"
      /\ UNCHANGED <<mem, last, tombs, clock, deferred, op, slipped, late, crossed, merged, count>>
  BY DEF ReadMaxVersion
<1>2. PICK f, changes, told : /\ f = follower.copy /\ changes = follower.changes
                              /\ told = {change[1] : change \in changes}
  OBVIOUS
<1>3. PICK after : after = [i \in (DOMAIN f \cup told) \ follower.dead |->
                              IF i \in told THEN (CHOOSE change \in changes : change[1] = i)[2] ELSE f[i]]
  OBVIOUS
<1>4. follower' = [pc |-> "idle", cursor |-> MaxVersion, changes |-> {}, dead |-> {}, copy |-> after]
  BY <1>2, <1>3 DEF ReadMaxVersion
<1>5. Applied(f, changes, follower.dead, after)
  <2>1. DOMAIN after = (DOMAIN f \cup told) \ follower.dead
    BY <1>3
  <2>2. ASSUME NEW i \in DOMAIN after, i \in told
        PROVE  \E change \in changes : change[1] = i /\ after[i] = change[2]
    <3>1. PICK x : x = CHOOSE change \in changes : change[1] = i
      OBVIOUS
    <3>2. \E change \in changes : change[1] = i
      BY <1>2, <2>2
    <3>3. x \in changes /\ x[1] = i
      BY <3>1, <3>2
    <3>4. after[i] = x[2]
      BY <1>3, <2>1, <2>2, <3>1
    <3> QED BY <3>3, <3>4
  <2>3. ASSUME NEW i \in DOMAIN after, i \notin told PROVE after[i] = f[i]
    BY <1>3, <2>1, <2>3
  <2> QED BY <1>2, <2>1, <2>2, <2>3 DEF Applied
<1>6. PICK D : D = DOMAIN after
  OBVIOUS
<1>7. D \in SUBSET (1..last) /\ after \in [D -> Contents]
  <2>1. /\ f \in [DOMAIN f -> Contents] /\ DOMAIN f \subseteq 1..last
        /\ \A x \in changes : x[1] \in 1..last /\ x[2] \in Contents
    BY <1>2, FollowerFields
  <2>2. D \subseteq DOMAIN f \cup told
    BY <1>5, <1>6, <1>2 DEF Applied
  <2>3. \A i \in D : after[i] \in Contents
    BY <1>2, <1>5, <1>6, <2>1, <2>2 DEF Applied
  <2>4. after = [i \in D |-> after[i]]
    BY <1>3, <1>6
  <2>5. told \subseteq 1..last
    BY <1>2, <2>1
  <2> QED BY <2>1, <2>2, <2>3, <2>4, <2>5
<1>8. PICK cursor \in Nat : cursor = MaxVersion /\ cursor <= count.highest
  BY VersionsAreBounded
<1>9. FeedTypeOK' /\ StampsAreSound'
  <2>1. PICK none : none = {}
    OBVIOUS
  <2>2. none \in SUBSET ((1..last) \X Contents) /\ none \in SUBSET ((1..last) \ Live)
    BY <2>1
  <2>3. follower' = [pc |-> "idle", cursor |-> cursor, changes |-> none, dead |-> none, copy |-> after]
    BY <1>4, <1>8, <2>1
  <2> QED BY <1>1, <1>7, <1>8, <2>2, <2>3, QueryTypes, StartsCount
<1> QED BY <1>1, <1>2, <1>4, <1>5, <1>9

--------------------------------------------------------------------------------
(* The tables are sound *)

LEMMA FeedStarts ==
    ASSUME FeedInit
    PROVE  FeedTypeOK /\ StampsAreSound /\ LocalInv /\ LaterInv
<1>1. /\ mem = [i \in {} |-> 0] /\ last = 0 /\ tombs = [i \in {} |-> 0] /\ clock = 0 /\ deferred = <<>>
      /\ op = [t \in Threads |-> Quiet] /\ merged = {}
      /\ follower = [pc |-> "idle", cursor |-> 0, changes |-> {}, dead |-> {}, copy |-> [i \in {} |-> 0]]
      /\ count = [ops |-> 0, polls |-> 0, faults |-> 0, highest |-> 0, queued |-> 0, done |-> 0, dropped |-> 0]
  BY DEF FeedInit
<1>2. Live = {} /\ mem \in [Live -> Row] /\ DOMAIN tombs = {} /\ tombs \in [DOMAIN tombs -> Nat]
  BY <1>1 DEF Live
<1>3. HandsOK
  <2>1. PICK w : w = Quiet
    OBVIOUS
  <2>2. op = [t \in Threads |-> w] /\ w \in Op /\ SoundOp(w) /\ w.id = 0 /\ w.pc = "idle"
    BY <1>1, <2>1, QuietIsOp
  <2> QED BY <1>1, <2>2 DEF HandsOK
<1>4. /\ follower.pc = "idle" /\ follower.cursor = 0 /\ follower.changes = {} /\ follower.dead = {}
      /\ DOMAIN follower.copy = {} /\ follower.copy \in [DOMAIN follower.copy -> Contents]
      /\ follower = [pc |-> follower.pc, cursor |-> follower.cursor, changes |-> follower.changes,
                     dead |-> follower.dead, copy |-> follower.copy]
  BY <1>1
<1>5. count \in Counts /\ count.highest = 0
  BY <1>1 DEF Counts
<1>6. FeedTypeOK
  BY <1>1, <1>2, <1>3, <1>4, <1>5 DEF FeedTypeOK
<1>7. StampsAreSound
  BY <1>2, <1>4, <1>5 DEF StampsAreSound
<1>8. LocalInv
  BY <1>2, <1>4 DEF LocalInv, LocalOnlyStays
<1>9. LaterInv
  BY <1>2 DEF LaterInv, SupersededByLater
<1> QED BY <1>6, <1>7, <1>8, <1>9

LEMMA NothingHappens ==
    ASSUME FeedTypeOK, StampsAreSound, UNCHANGED feedVars
    PROVE  FeedTypeOK' /\ StampsAreSound'
<1>1. UNCHANGED <<mem, last, tombs, clock, deferred, op, follower, count>>
  BY DEF feedVars
<1>2. HandsOK' /\ clock' \in Nat /\ clock <= clock' /\ deferred' \in Seq(Contents)
  BY <1>1, HandsStay, LiveStays DEF FeedTypeOK
<1> QED BY <1>1, <1>2, TablesStay, StartsCount

LEMMA StepsAreSound ==
    ASSUME FeedTypeOK, StampsAreSound, [FeedNext]_feedVars
    PROVE  FeedTypeOK' /\ StampsAreSound'
<1>1. ASSUME NEW t \in Threads,
             \/ AddDefer(t) \/ AddKnown(t) \/ AddUnknown(t) \/ AddBatch(t) \/ ProcessDeferred(t)
             \/ CheckDedup(t) \/ WriteDuplicate(t) \/ WriteNew(t)
      PROVE  FeedTypeOK' /\ StampsAreSound'
  BY <1>1, AddDeferTypes, KnownTypes, BeginningTypes, CheckTypes, DuplicateTypes, NewTypes
<1>2. ASSUME NEW t \in Threads,
             \/ BumpDraw(t) \/ BumpWrite(t) \/ AddFinish(t)
             \/ UpdateTrace(t) \/ UpdateImportance(t) \/ DeleteTrace(t) \/ RecordDelete(t)
             \/ DeleteAllTraces(t) \/ Consolidate(t)
      PROVE  FeedTypeOK' /\ StampsAreSound'
  BY <1>2, DrawTypes, VersionTypes, FinishTypes, RewriteTypes, StampingTypes, DeleteTypes, RecordTypes,
     DeleteAllTypes, ConsolidateTypes
<1>3. CASE Crash \/ Tick \/ ReadChanges \/ ReadTombstones \/ ReadMaxVersion
  BY <1>3, CrashTypes, TickTypes, ChangesTypes, TombstonesTypes, MaxVersionTypes
<1>4. CASE UNCHANGED feedVars
  BY <1>4, NothingHappens
<1> QED BY <1>1, <1>2, <1>3, <1>4 DEF FeedNext

--------------------------------------------------------------------------------
(* What is local only *)

LEMMA LocalStays ==
    ASSUME LocalInv, follower' = follower, merged \subseteq merged',
           \A i \in Live' : \/ i \in merged'
                            \/ i \in Live /\ mem'[i].text = mem[i].text /\ mem'[i].private = mem[i].private
                            \/ mem'[i].text \in LocalOnly => mem'[i].private
    PROVE  LocalInv'
<1>1. \A i \in Live' : mem'[i].text \in LocalOnly => mem'[i].private \/ i \in merged'
  BY DEF LocalInv
<1>2. \A change \in follower'.changes : change[2] \in LocalOnly => change[1] \in merged'
  BY DEF LocalInv
<1>3. LocalOnlyStays'
  BY DEF LocalInv, LocalOnlyStays
<1> QED BY <1>1, <1>2, <1>3 DEF LocalInv

LEMMA LocalInRowsThatStay ==
    ASSUME LocalInv, UNCHANGED <<mem, follower, merged>>
    PROVE  LocalInv'
<1>1. Live' = Live
  BY DEF Live
<1> QED BY <1>1, LocalStays

LEMMA LocalInRowsLeft ==
    ASSUME LocalInv, NEW t, NEW gone, Left(t, gone), UNCHANGED <<follower, merged>>
    PROVE  LocalInv'
<1>1. \A i \in Live' : i \in Live /\ mem'[i].text = mem[i].text /\ mem'[i].private = mem[i].private
  BY DEF Left
<1> QED BY <1>1, LocalStays

LEMMA LocalInStampedRow ==
    ASSUME LocalInv, NEW i \in Live, Stamped(i), mem'[i].text = mem[i].text \/ i \in merged',
           follower' = follower, merged \subseteq merged'
    PROVE  LocalInv'
<1>1. \A j \in Live' : \/ j \in merged'
                       \/ j \in Live /\ mem'[j].text = mem[j].text /\ mem'[j].private = mem[j].private
  BY DEF Stamped
<1> QED BY <1>1, LocalStays

LEMMA LocalOnlyIsKept ==
    ASSUME FeedTypeOK, StampsAreSound, LocalInv, [FeedNext]_feedVars
    PROVE  LocalInv'
<1>1. ASSUME NEW t \in Threads, AddDefer(t) \/ AddUnknown(t) \/ AddBatch(t) \/ ProcessDeferred(t) \/ CheckDedup(t)
      PROVE  LocalInv'
  <2>1. UNCHANGED <<mem, follower, merged>>
    BY <1>1, BeginningTypes, CheckTypes DEF AddDefer
  <2> QED BY <2>1, LocalInRowsThatStay
<1>2. ASSUME NEW t \in Threads, AddKnown(t) \/ UpdateImportance(t)
      PROVE  LocalInv'
  <2>1. PICK i \in Live : Stamped(i) /\ mem'[i].text = mem[i].text
    BY <1>2, KnownTypes, StampingTypes
  <2>2. follower' = follower /\ merged \subseteq merged'
    BY <1>2, KnownTypes, StampingTypes
  <2> QED BY <2>1, <2>2, LocalInStampedRow
<1>3. ASSUME NEW t \in Threads, WriteDuplicate(t)
      PROVE  LocalInv'
  <2>1. follower' = follower /\ (Abandoned(t) \/ \E i \in Live : Rewritten(t, i))
    BY <1>3, DuplicateTypes
  <2>2. CASE Abandoned(t)
    BY <2>1, <2>2, LocalInRowsThatStay DEF Abandoned
  <2>3. ASSUME NEW i \in Live, Rewritten(t, i) PROVE LocalInv'
    <3>1. Stamped(i) /\ i \in merged' /\ merged \subseteq merged'
      BY <2>3 DEF Rewritten
    <3> QED BY <2>1, <3>1, LocalInStampedRow
  <2> QED BY <2>1, <2>2, <2>3
<1>4. ASSUME NEW t \in Threads, UpdateTrace(t)
      PROVE  LocalInv'
  <2>1. PICK i \in Live : Stamped(i) /\ merged' = merged \cup {i}
    BY <1>4, RewriteTypes
  <2>2. follower' = follower
    BY <1>4, RewriteTypes
  <2>3. i \in merged' /\ merged \subseteq merged'
    BY <2>1
  <2> QED BY <2>1, <2>2, <2>3, LocalInStampedRow
<1>5. ASSUME NEW t \in Threads, WriteNew(t)
      PROVE  LocalInv'
  <2>1. PICK i : i = last + 1
    OBVIOUS
  <2>2. Inserted(t, i) /\ UNCHANGED <<follower, merged>>
    BY <1>5, <2>1, NewTypes
  <2>3. \A j \in Live' : \/ j \in Live /\ mem'[j].text = mem[j].text /\ mem'[j].private = mem[j].private
                         \/ mem'[j].text \in LocalOnly => mem'[j].private
    BY <2>2 DEF Inserted
  <2> QED BY <2>2, <2>3, LocalStays
<1>6. ASSUME NEW t \in Threads, BumpDraw(t) \/ AddFinish(t) \/ DeleteTrace(t) \/ DeleteAllTraces(t) \/ Consolidate(t)
      PROVE  LocalInv'
  <2>1. UNCHANGED <<follower, merged>>
    BY <1>6, DrawTypes, FinishTypes, DeleteTypes, DeleteAllTypes, ConsolidateTypes
  <2>2. PICK gone : Left(t, gone)
    BY <1>6, DrawTypes, FinishTypes, DeleteTypes, DeleteAllTypes, ConsolidateTypes
  <2> QED BY <2>1, <2>2, LocalInRowsLeft
<1>7. ASSUME NEW t \in Threads, BumpWrite(t)
      PROVE  LocalInv'
  <2>1. UNCHANGED <<follower, merged>> /\ (mem' = mem \/ \E i \in Live : Versioned(t, i))
    BY <1>7, VersionTypes
  <2>2. ASSUME NEW i \in Live, Versioned(t, i) PROVE LocalInv'
    <3>1. \A j \in Live' : j \in Live /\ mem'[j].text = mem[j].text /\ mem'[j].private = mem[j].private
      BY <2>2 DEF Versioned
    <3> QED BY <2>1, <3>1, LocalStays
  <2> QED BY <2>1, <2>2, LocalInRowsThatStay
<1>8. ASSUME NEW t \in Threads, RecordDelete(t)
      PROVE  LocalInv'
  BY <1>8, RecordTypes, LocalInRowsThatStay
<1>9. CASE Crash \/ Tick \/ UNCHANGED feedVars
  <2>1. UNCHANGED <<mem, follower, merged>>
    BY <1>9, CrashTypes, TickTypes DEF feedVars
  <2> QED BY <2>1, LocalInRowsThatStay
<1>10. CASE ReadChanges \/ ReadTombstones
  <2>1. UNCHANGED <<mem, merged>> /\ follower'.copy = follower.copy /\ Live' = Live
    BY <1>10, ChangesTypes, TombstonesTypes DEF Live
  <2>2. \A change \in follower'.changes : change[2] \in LocalOnly => change[1] \in merged'
    <3>1. CASE ReadChanges
      BY <2>1, <3>1, ChangesTypes DEF LocalInv
    <3>2. CASE ReadTombstones
      BY <2>1, <3>2, TombstonesTypes DEF LocalInv
    <3> QED BY <1>10, <3>1, <3>2
  <2>3. LocalOnlyStays'
    BY <2>1 DEF LocalInv, LocalOnlyStays
  <2>4. \A i \in Live' : mem'[i].text \in LocalOnly => mem'[i].private \/ i \in merged'
    BY <2>1 DEF LocalInv
  <2> QED BY <2>2, <2>3, <2>4 DEF LocalInv
<1>11. CASE ReadMaxVersion
  <2>1. UNCHANGED <<mem, merged>> /\ follower'.changes = {} /\ Live' = Live
    BY <1>11, MaxVersionTypes DEF Live
  <2>2. Applied(follower.copy, follower.changes, follower.dead, follower'.copy)
    BY <1>11, MaxVersionTypes
  <2>3. ASSUME NEW i \in DOMAIN follower'.copy, follower'.copy[i] \in LocalOnly PROVE i \in merged
    <3>1. CASE \E change \in follower.changes : change[1] = i /\ follower'.copy[i] = change[2]
      BY <2>3, <3>1 DEF LocalInv
    <3>2. CASE i \in DOMAIN follower.copy /\ follower'.copy[i] = follower.copy[i]
      BY <2>3, <3>2 DEF LocalInv, LocalOnlyStays
    <3> QED BY <2>2, <3>1, <3>2 DEF Applied
  <2>4. LocalOnlyStays'
    BY <2>1, <2>3 DEF LocalOnlyStays
  <2> QED BY <2>1, <2>4 DEF LocalInv
<1> QED BY <1>1, <1>2, <1>3, <1>4, <1>5, <1>6, <1>7, <1>8, <1>9, <1>10, <1>11 DEF FeedNext

\* A text that was added as local_only reaches the follower only in a row that was rewritten with it
\* (memory/mod.rs, sync.rs export_changes_since).
THEOREM LocalTextsStayLocal == FeedSpec => []LocalOnlyStays
<1> DEFINE Inv == FeedTypeOK /\ StampsAreSound /\ LocalInv
<1>1. FeedInit => Inv
  BY FeedStarts
<1>2. Inv /\ [FeedNext]_feedVars => Inv'
  BY StepsAreSound, LocalOnlyIsKept
<1>3. Inv => LocalOnlyStays
  BY DEF LocalInv
<1> QED BY <1>1, <1>2, <1>3, PTL DEF FeedSpec

--------------------------------------------------------------------------------
(* What supersedes a memory is later *)

\* Who is to look for contradictions of the memory it has added.
Seeks(o) == o.pc \in {"draw", "bump", "finish"} /\ o.hit = 0

\* The seekers of a step were seekers before, of the same memory.
SameSeekers == \A u \in Threads : Seeks(op'[u]) => Seeks(op[u]) /\ op'[u].id = op[u].id

LEMMA SeekersStay ==
    ASSUME NEW t \in Threads, Turns(t), \A u \in {t} : Seeks(op'[u]) => Seeks(op[u]) /\ op'[u].id = op[u].id
    PROVE  SameSeekers
  BY DEF Turns, Alike, SameSeekers, Seeks

LEMMA LaterStays ==
    ASSUME LaterInv, SameSeekers, crossed' = crossed, Live' \subseteq Live,
           \A i \in Live' : mem'[i].sup = mem[i].sup \/ mem'[i].sup > i \/ i \in crossed
    PROVE  LaterInv'
<1>1. \A t \in Threads : op'[t].pc \in {"draw", "bump", "finish"} /\ op'[t].hit = 0 =>
          \A j \in Live' : j > op'[t].id => j \in crossed'
  BY DEF LaterInv, SameSeekers, Seeks
<1>2. SupersededByLater'
  BY DEF LaterInv, SupersededByLater
<1> QED BY <1>1, <1>2 DEF LaterInv

LEMMA LaterInRowsThatStay ==
    ASSUME LaterInv, SameSeekers, UNCHANGED <<mem, crossed>>
    PROVE  LaterInv'
<1>1. Live' = Live
  BY DEF Live
<1> QED BY <1>1, LaterStays

LEMMA LaterInStampedRow ==
    ASSUME LaterInv, SameSeekers, crossed' = crossed, NEW i \in Live, Stamped(i)
    PROVE  LaterInv'
<1>1. Live' = Live /\ \A j \in Live' : mem'[j].sup = mem[j].sup
  BY DEF Stamped
<1> QED BY <1>1, LaterStays

\* What t supersedes is older than its memory, or has crossed it.
LEMMA LaterInRowsLeft ==
    ASSUME FeedTypeOK, LaterInv, SameSeekers, crossed' = crossed, NEW t \in Threads,
           op[t].pc \in {"draw", "bump", "finish"}, NEW gone, Left(t, gone)
    PROVE  LaterInv'
<1>1. Live' \subseteq Live
  BY DEF Left
<1>2. ASSUME NEW j \in Live' PROVE mem'[j].sup = mem[j].sup \/ mem'[j].sup > j \/ j \in crossed
  <2>1. CASE mem'[j].sup = mem[j].sup
    BY <2>1
  <2>2. CASE op[t].hit = 0 /\ mem'[j].sup = op[t].id /\ j # op[t].id
    <3>1. j \in Nat /\ op[t].id \in Nat
      <4>1. Live \subseteq Nat
        BY DEF FeedTypeOK
      <4>2. op[t].id \in Nat
        BY OpFields
      <4> QED BY <1>1, <4>1, <4>2
    <3>2. j > op[t].id => j \in crossed
      BY <1>1, <2>2 DEF LaterInv
    <3> QED BY <2>2, <3>1, <3>2
  <2> QED BY <2>1, <2>2 DEF Left
<1> QED BY <1>1, <1>2, LaterStays

LEMMA NoneIsNoId == None # 0
  BY FeedAssumption

LEMMA LaterIsKept ==
    ASSUME FeedTypeOK, StampsAreSound, LaterInv, [FeedNext]_feedVars
    PROVE  LaterInv'
<1>1. ASSUME NEW t \in Threads, AddUnknown(t) \/ AddBatch(t) \/ ProcessDeferred(t) \/ CheckDedup(t)
      PROVE  LaterInv'
  <2>1. UNCHANGED <<mem, crossed>> /\ Turns(t) /\ op'[t].pc \in {"dedup", "write"}
    BY <1>1, BeginningTypes, CheckTypes
  <2>2. SameSeekers
    BY <2>1, SeekersStay DEF Seeks
  <2> QED BY <2>1, <2>2, LaterInRowsThatStay
<1>2. ASSUME op' = op PROVE SameSeekers
  BY <1>2 DEF SameSeekers
<1>3. ASSUME NEW t \in Threads, AddKnown(t)
      PROVE  LaterInv'
  <2>1. Turns(t) /\ op'[t].hit = None /\ crossed' = crossed
    BY <1>3, KnownTypes
  <2>2. PICK i \in Live : Stamped(i)
    BY <1>3, KnownTypes
  <2>3. SameSeekers
    BY <2>1, SeekersStay, NoneIsNoId DEF Seeks
  <2> QED BY <2>1, <2>2, <2>3, LaterInStampedRow
<1>4. ASSUME NEW t \in Threads, UpdateImportance(t)
      PROVE  LaterInv'
  <2>1. op' = op /\ crossed' = crossed
    BY <1>4, StampingTypes
  <2>2. PICK i \in Live : Stamped(i)
    BY <1>4, StampingTypes
  <2> QED BY <1>2, <2>1, <2>2, LaterInStampedRow
<1>5. ASSUME NEW t \in Threads, UpdateTrace(t)
      PROVE  LaterInv'
  <2>1. Turns(t) /\ op'[t] = op[t] /\ crossed' = crossed
    BY <1>5, RewriteTypes
  <2>2. PICK i \in Live : Stamped(i)
    BY <1>5, RewriteTypes
  <2>3. SameSeekers
    BY <2>1, SeekersStay
  <2> QED BY <2>1, <2>2, <2>3, LaterInStampedRow
<1>6. ASSUME NEW t \in Threads, WriteDuplicate(t)
      PROVE  LaterInv'
  <2>1. crossed' = crossed /\ (Abandoned(t) \/ \E i \in Live : Rewritten(t, i))
    BY <1>6, DuplicateTypes
  <2>2. CASE Abandoned(t)
    <3>1. mem' = mem /\ Turns(t) /\ op'[t].pc \in {"idle", "dedup"}
      BY <2>2 DEF Abandoned, Released
    <3>2. SameSeekers
      BY <3>1, SeekersStay DEF Seeks
    <3> QED BY <2>1, <3>1, <3>2, LaterInRowsThatStay
  <2>3. ASSUME NEW i \in Live, Rewritten(t, i) PROVE LaterInv'
    <3>1. Stamped(i) /\ Turns(t) /\ (op'[t].pc \in {"idle", "dedup"} \/ op'[t].hit = None)
      BY <2>3 DEF Rewritten
    <3>2. SameSeekers
      BY <3>1, SeekersStay, NoneIsNoId DEF Seeks
    <3> QED BY <2>1, <3>1, <3>2, LaterInStampedRow
  <2> QED BY <2>1, <2>2, <2>3
<1>7. ASSUME NEW t \in Threads, WriteNew(t)
      PROVE  LaterInv'
  <2>1. PICK i \in Nat : i = last + 1
    BY DEF FeedTypeOK
  <2>2. Inserted(t, i)
    BY <1>7, <2>1, NewTypes
  <2>3. /\ Live' = Live \cup {i} /\ Turns(t) /\ \A j \in Live : mem'[j] = mem[j]
        /\ mem'[i].sup = 0 /\ (op'[t].pc \in {"idle", "dedup"} \/ op'[t].id = i)
        /\ crossed \subseteq crossed'
        /\ (\E u \in Threads : op[u].pc \in {"draw", "bump", "finish"} /\ op[u].hit = 0) => i \in crossed'
    BY <2>2 DEF Inserted
  <2>4. \A j \in Live : j \in Nat /\ j < i
    BY <2>1 DEF FeedTypeOK
  <2>5. ASSUME NEW u \in Threads, Seeks(op'[u]), NEW j \in Live', j > op'[u].id PROVE j \in crossed'
    <3>1. CASE u = t
      BY <2>1, <2>3, <2>4, <2>5, <3>1 DEF Seeks
    <3>2. CASE u # t
      <4>1. Seeks(op[u]) /\ op'[u].id = op[u].id
        BY <2>3, <2>5, <3>2 DEF Turns, Alike, Seeks
      <4>2. CASE j = i
        BY <2>3, <4>1, <4>2 DEF Seeks
      <4>3. CASE j \in Live
        BY <2>3, <2>5, <4>1, <4>3 DEF LaterInv, Seeks
      <4> QED BY <2>3, <4>2, <4>3
    <3> QED BY <3>1, <3>2
  <2>6. SupersededByLater'
    BY <2>3 DEF LaterInv, SupersededByLater
  <2> QED BY <2>5, <2>6 DEF LaterInv, Seeks
<1>8. ASSUME NEW t \in Threads, BumpDraw(t)
      PROVE  LaterInv'
  <2>1. op[t].pc = "draw" /\ Bumped(t) /\ Left(t, {}) /\ crossed' = crossed
    BY <1>8, DrawTypes
  <2>2. SameSeekers
    BY <2>1, SeekersStay DEF Bumped, Seeks
  <2>3. PICK gone : Left(t, gone)
    BY <2>1
  <2> QED BY <2>1, <2>2, <2>3, LaterInRowsLeft
<1>9. ASSUME NEW t \in Threads, BumpWrite(t)
      PROVE  LaterInv'
  <2>1. /\ op[t].pc = "bump" /\ Bumped(t) /\ crossed' = crossed
        /\ mem' = mem \/ \E i \in Live : Versioned(t, i)
    BY <1>9, VersionTypes
  <2>2. SameSeekers
    BY <2>1, SeekersStay DEF Bumped, Seeks
  <2>3. ASSUME NEW i \in Live, Versioned(t, i) PROVE LaterInv'
    <3>1. Live' = Live /\ \A j \in Live' : mem'[j].sup = mem[j].sup
      BY <2>3 DEF Versioned
    <3> QED BY <2>1, <2>2, <3>1, LaterStays
  <2> QED BY <2>1, <2>2, <2>3, LaterInRowsThatStay
<1>10. ASSUME NEW t \in Threads, AddFinish(t)
       PROVE  LaterInv'
  <2>1. op[t].pc = "finish" /\ Turns(t) /\ op'[t].pc \in {"idle", "dedup"} /\ crossed' = crossed
    BY <1>10, FinishTypes DEF Released
  <2>2. PICK gone : Left(t, gone)
    BY <1>10, FinishTypes
  <2>3. SameSeekers
    BY <2>1, SeekersStay DEF Seeks
  <2> QED BY <2>1, <2>2, <2>3, LaterInRowsLeft
<1>11. ASSUME SameSeekers, crossed' = crossed, Live' \subseteq Live, \A i \in Live' : mem'[i] = mem[i]
       PROVE  LaterInv'
  BY <1>11, LaterStays
<1>12. ASSUME NEW t \in Threads, DeleteTrace(t)
       PROVE  LaterInv'
  <2>1. /\ Turns(t) /\ op'[t].pc = "bury" /\ crossed' = crossed
        /\ \E gone : mem' = Forget(mem, gone)
    BY <1>12, DeleteTypes DEF DeleteTrace, RemoveRow
  <2>2. Live' \subseteq Live /\ \A i \in Live' : mem'[i] = mem[i]
    BY <2>1 DEF Forget, Live
  <2>3. SameSeekers
    BY <2>1, SeekersStay DEF Seeks
  <2> QED BY <1>11, <2>1, <2>2, <2>3
<1>13. ASSUME NEW t \in Threads, DeleteAllTraces(t) \/ Consolidate(t)
       PROVE  LaterInv'
  <2>1. op' = op /\ crossed' = crossed /\ \E gone : mem' = Forget(mem, gone)
    BY <1>13, DeleteAllTypes, ConsolidateTypes DEF DeleteAllTraces, Consolidate, RemoveRow
  <2>2. Live' \subseteq Live /\ \A i \in Live' : mem'[i] = mem[i]
    BY <2>1 DEF Forget, Live
  <2> QED BY <1>2, <1>11, <2>1, <2>2
<1>14. ASSUME NEW t \in Threads, RecordDelete(t)
       PROVE  LaterInv'
  <2>1. mem' = mem /\ crossed' = crossed /\ Turns(t) /\ op'[t].pc \in {"idle", "dedup"}
    BY <1>14, RecordTypes DEF Released
  <2>2. SameSeekers
    BY <2>1, SeekersStay DEF Seeks
  <2> QED BY <2>1, <2>2, LaterInRowsThatStay
<1>15. CASE Crash
  <2>1. mem' = mem /\ crossed' = crossed /\ \A t \in Threads : op'[t].pc = "idle"
    BY <1>15, CrashTypes, QuietIsOp
  <2>2. SameSeekers
    BY <2>1 DEF SameSeekers, Seeks
  <2> QED BY <2>1, <2>2, LaterInRowsThatStay
<1>16. ASSUME \/ \E t \in Threads : AddDefer(t)
              \/ Tick \/ ReadChanges \/ ReadTombstones \/ ReadMaxVersion \/ UNCHANGED feedVars
       PROVE  LaterInv'
  <2>1. UNCHANGED <<mem, op, crossed>>
    BY <1>16, TickTypes, ChangesTypes, TombstonesTypes, MaxVersionTypes DEF AddDefer, feedVars
  <2> QED BY <1>2, <2>1, LaterInRowsThatStay
<1> QED BY <1>1, <1>3, <1>4, <1>5, <1>6, <1>7, <1>8, <1>9, <1>10, <1>12, <1>13, <1>14, <1>15, <1>16 DEF FeedNext

\* What supersedes a memory was added after it, unless the two were being added at once
\* (memory/mod.rs detect_contradictions_multi, storage/crud.rs mark_superseded).
THEOREM CorrectionsAreLater == FeedSpec => []SupersededByLater
<1> DEFINE Inv == FeedTypeOK /\ StampsAreSound /\ LaterInv
<1>1. FeedInit => Inv
  BY FeedStarts
<1>2. Inv /\ [FeedNext]_feedVars => Inv'
  BY StepsAreSound, LaterIsKept
<1>3. Inv => SupersededByLater
  BY DEF LaterInv
<1> QED BY <1>1, <1>2, <1>3, PTL DEF FeedSpec

--------------------------------------------------------------------------------
(* Twins *)

\* The writers of a step had looked before, and nothing has unmet them.
SameWriter(p, o) == p.pc = "write" => /\ o.pc = "write" /\ p.todo = o.todo /\ p.hit = o.hit
                                      /\ o.met => p.met
SameWriters == \A u \in Threads : SameWriter(op'[u], op[u])

LEMMA WritersStay ==
    ASSUME NEW t \in Threads, Turns(t), op'[t].pc # "write"
    PROVE  SameWriters
  BY DEF Turns, Alike, SameWriter, SameWriters

LEMMA IdsAreNumbers ==
    ASSUME FeedTypeOK
    PROVE  Live \subseteq Nat /\ 0 \notin Live
  BY DEF FeedTypeOK

LEMMA TwinsStay ==
    ASSUME TwinInv, SameWriters, late' = late, Live' \subseteq Live, \A i \in Live' : mem'[i].text = mem[i].text
    PROVE  TwinInv'
<1>1. ASSUME NEW t \in Threads, op'[t].pc = "write", NEW i \in Live', i # op'[t].hit, mem'[i].text = Item(t)'
      PROVE  op'[t].met \/ {i, op'[t].hit} \cap late' # {}
  <2>1. /\ op[t].pc = "write" /\ op'[t].todo = op[t].todo /\ op'[t].hit = op[t].hit
        /\ op[t].met => op'[t].met
    BY <1>1 DEF SameWriters, SameWriter
  <2>2. mem[i].text = Item(t) /\ i \in Live
    BY <1>1, <2>1 DEF Item
  <2>3. op[t].met \/ {i, op[t].hit} \cap late # {}
    BY <1>1, <2>1, <2>2 DEF TwinInv
  <2> QED BY <2>1, <2>3
<1>2. NoTwins'
  BY DEF TwinInv, NoTwins
<1> QED BY <1>1, <1>2 DEF TwinInv

LEMMA TwinsInRowsThatStay ==
    ASSUME TwinInv, SameWriters, UNCHANGED <<mem, late>>
    PROVE  TwinInv'
<1>1. Live' = Live
  BY DEF Live
<1> QED BY <1>1, TwinsStay

LEMMA TwinsInStampedRow ==
    ASSUME TwinInv, SameWriters, late' = late, NEW i \in Live, Stamped(i), mem'[i].text = mem[i].text
    PROVE  TwinInv'
<1>1. Live' = Live /\ \A j \in Live' : mem'[j].text = mem[j].text
  BY DEF Stamped
<1> QED BY <1>1, TwinsStay

LEMMA TwinsInRowsLeft ==
    ASSUME TwinInv, SameWriters, late' = late, NEW t, NEW gone, Left(t, gone)
    PROVE  TwinInv'
<1>1. Live' \subseteq Live /\ \A j \in Live' : mem'[j].text = mem[j].text
  BY DEF Left
<1> QED BY <1>1, TwinsStay

\* The others meet a text that t writes to i.
LEMMA TwinsOfWrittenRow ==
    ASSUME FeedTypeOK, TwinInv, NEW t \in Threads, Turns(t), op'[t].pc # "write", NEW i \in Nat,
           MetBy(t, mem'[i].text), Live' \subseteq Live \cup {i}, \A j \in Live \ {i} : mem'[j] = mem[j],
           late \subseteq late', i # 0, late' \subseteq late \cup {i},
           \A j \in Live \ {i} : mem[j].text = mem'[i].text => {i, j} \cap late' # {}
    PROVE  TwinInv'
<1>1. ASSUME NEW u \in Threads, op'[u].pc = "write", NEW j \in Live', j # op'[u].hit, mem'[j].text = Item(u)'
      PROVE  op'[u].met \/ {j, op'[u].hit} \cap late' # {}
  <2>1. /\ u # t /\ op[u].pc = "write" /\ op'[u].todo = op[u].todo /\ op'[u].hit = op[u].hit
        /\ op[u].met => op'[u].met
    BY <1>1 DEF Turns, Alike
  <2>2. mem'[j].text = Item(u)
    BY <1>1, <2>1 DEF Item
  <2>3. CASE j = i
    <3>1. op[u].pc \in Working
      BY <2>1 DEF Working
    <3>2. Item(u) \in Range(op[u].todo)
      BY <3>1, ItemIsContent
    <3> QED BY <2>1, <2>2, <2>3, <3>2 DEF MetBy
  <2>4. CASE j # i
    <3>1. j \in Live /\ mem[j].text = Item(u)
      BY <2>2, <2>4
    <3>2. op[u].met \/ {j, op[u].hit} \cap late # {}
      BY <1>1, <2>1, <3>1 DEF TwinInv
    <3> QED BY <2>1, <3>2
  <2> QED BY <2>3, <2>4
<1>2. ASSUME NEW j \in Live', NEW k \in Live', j < k, mem'[j].text = mem'[k].text
      PROVE  {j, k} \cap late' # {}
  <2>1. CASE j # i /\ k # i
    <3>1. j \in Live /\ k \in Live /\ mem[j].text = mem[k].text
      BY <1>2, <2>1
    <3>2. {j, k} \cap late # {}
      BY <1>2, <3>1 DEF TwinInv, NoTwins
    <3> QED BY <3>2
  <2>2. CASE j = i /\ k # i
    BY <1>2, <2>2
  <2>3. CASE j # i /\ k = i
    BY <1>2, <2>3
  <2>4. CASE j = i /\ k = i
    BY <1>2, <2>4
  <2> QED BY <2>1, <2>2, <2>3, <2>4
<1>3. 0 \notin late'
  BY DEF TwinInv
<1> QED BY <1>1, <1>2, <1>3 DEF TwinInv, NoTwins

\* A lookup sees every row with the text, or those that it leaves out are late.
LEMMA TwinsOfALookup ==
    ASSUME FeedTypeOK, TwinInv, NEW t \in Threads, NEW hit, hit \in DedupVerdicts(Item(t)),
           NEW i \in Live, i # hit, mem[i].text = Item(t)
    PROVE  {i, hit} \cap late # {}
<1>1. i \in HashHits(Item(t))
  BY DEF HashHits
<1>2. hit \in HashHits(Item(t))
  BY <1>1 DEF DedupVerdicts
<1>3. hit \in Live /\ mem[hit].text = Item(t)
  BY <1>2 DEF HashHits
<1>4. i < hit \/ hit < i
  BY <1>3, IdsAreNumbers
<1> QED BY <1>3, <1>4 DEF TwinInv, NoTwins

LEMMA TwinsAreKept ==
    ASSUME FeedTypeOK, StampsAreSound, TwinInv, [FeedNext]_feedVars
    PROVE  TwinInv'
<1>1. ASSUME op' = op PROVE SameWriters
  BY <1>1 DEF SameWriters, SameWriter
<1>2. ASSUME NEW t \in Threads, AddUnknown(t) \/ AddBatch(t) \/ ProcessDeferred(t) \/ RecordDelete(t)
      PROVE  TwinInv'
  <2>1. UNCHANGED <<mem, late>> /\ Turns(t) /\ op'[t].pc # "write"
    BY <1>2, BeginningTypes, RecordTypes DEF Released
  <2>2. SameWriters
    BY <2>1, WritersStay
  <2> QED BY <2>1, <2>2, TwinsInRowsThatStay
<1>3. ASSUME NEW t \in Threads, CheckDedup(t)
      PROVE  TwinInv'
  <2>1. /\ UNCHANGED <<mem, late>> /\ Turns(t) /\ op'[t].todo = op[t].todo
        /\ op'[t].hit \in DedupVerdicts(Item(t))
    BY <1>3, CheckTypes
  <2>2. Live' = Live
    BY <2>1 DEF Live
  <2>3. ASSUME NEW u \in Threads, op'[u].pc = "write", NEW i \in Live, i # op'[u].hit, mem[i].text = Item(u)'
        PROVE  op'[u].met \/ {i, op'[u].hit} \cap late # {}
    <3>1. CASE u = t
      <4>1. PICK hit : hit = op'[t].hit
        OBVIOUS
      <4>2. mem[i].text = Item(t)
        BY <2>1, <2>3, <3>1 DEF Item
      <4>3. {i, hit} \cap late # {}
        BY <2>1, <2>3, <3>1, <4>1, <4>2, TwinsOfALookup
      <4> QED BY <3>1, <4>1, <4>3
    <3>2. CASE u # t
      <4>1. /\ op[u].pc = "write" /\ op'[u].todo = op[u].todo /\ op'[u].hit = op[u].hit
            /\ op[u].met => op'[u].met
        BY <2>1, <2>3, <3>2 DEF Turns, Alike
      <4>2. mem[i].text = Item(u)
        BY <2>3, <4>1 DEF Item
      <4>3. op[u].met \/ {i, op[u].hit} \cap late # {}
        BY <2>3, <4>1, <4>2 DEF TwinInv
      <4> QED BY <4>1, <4>3
    <3> QED BY <3>1, <3>2
  <2>4. NoTwins'
    BY <2>1, <2>2 DEF TwinInv, NoTwins
  <2>5. 0 \notin late'
    BY <2>1 DEF TwinInv
  <2> QED BY <2>1, <2>2, <2>3, <2>4, <2>5 DEF TwinInv
<1>4. ASSUME NEW t \in Threads, AddKnown(t) \/ UpdateImportance(t)
      PROVE  TwinInv'
  <2>1. PICK i \in Live : Stamped(i) /\ mem'[i].text = mem[i].text
    BY <1>4, KnownTypes, StampingTypes
  <2>2. late' = late
    BY <1>4, KnownTypes, StampingTypes
  <2>3. SameWriters
    <3>1. CASE AddKnown(t)
      <4>1. Turns(t) /\ op'[t].pc # "write"
        BY <3>1, KnownTypes
      <4> QED BY <4>1, WritersStay
    <3>2. CASE UpdateImportance(t)
      BY <1>1, <3>2, StampingTypes
    <3> QED BY <1>4, <3>1, <3>2
  <2> QED BY <2>1, <2>2, <2>3, TwinsInStampedRow
<1>5. ASSUME NEW t \in Threads, UpdateTrace(t)
      PROVE  TwinInv'
  <2>1. op[t].pc = "idle" /\ op'[t] = op[t] /\ Turns(t)
    BY <1>5, RewriteTypes
  <2>2. PICK i \in Live : Stamped(i) /\ MetBy(t, mem'[i].text) /\ late' = late \cup {i}
    BY <1>5, RewriteTypes
  <2>3. i \in Nat /\ i # 0
    BY IdsAreNumbers
  <2>4. Live' \subseteq Live \cup {i} /\ \A j \in Live \ {i} : mem'[j] = mem[j]
    BY <2>2 DEF Stamped
  <2>5. op'[t].pc # "write"
    BY <2>1
  <2>6. late \subseteq late' /\ late' \subseteq late \cup {i} /\ \A j : {i, j} \cap late' # {}
    BY <2>2
  <2> QED BY <2>1, <2>2, <2>3, <2>4, <2>5, <2>6, TwinsOfWrittenRow
<1>6. ASSUME NEW t \in Threads, WriteDuplicate(t)
      PROVE  TwinInv'
  <2>1. op[t].pc = "write" /\ (Abandoned(t) \/ \E i \in Live : Rewritten(t, i))
    BY <1>6, DuplicateTypes
  <2>2. CASE Abandoned(t)
    <3>1. UNCHANGED <<mem, late>> /\ Turns(t) /\ op'[t].pc # "write"
      BY <2>2 DEF Abandoned, Released
    <3>2. SameWriters
      BY <3>1, WritersStay
    <3> QED BY <3>1, <3>2, TwinsInRowsThatStay
  <2>3. ASSUME NEW i \in Live, Rewritten(t, i) PROVE TwinInv'
    <3>1. /\ i = op[t].hit /\ Stamped(i) /\ mem'[i].text = Item(t) /\ MetBy(t, mem'[i].text)
          /\ Turns(t) /\ op'[t].pc # "write"
          /\ late' = IF op[t].met THEN late \cup {i} ELSE late
      BY <2>3 DEF Rewritten
    <3>2. i \in Nat /\ i # 0
      BY IdsAreNumbers
    <3>3. Live' \subseteq Live \cup {i} /\ \A j \in Live \ {i} : mem'[j] = mem[j]
      BY <3>1 DEF Stamped
    <3>4. ASSUME NEW j \in Live \ {i}, mem[j].text = mem'[i].text PROVE {i, j} \cap late' # {}
      <4>1. op[t].met \/ {j, op[t].hit} \cap late # {}
        BY <2>1, <3>1, <3>4 DEF TwinInv
      <4> QED BY <3>1, <4>1
    <3>5. late \subseteq late' /\ late' \subseteq late \cup {i}
      BY <3>1
    <3> QED BY <3>1, <3>2, <3>3, <3>4, <3>5, TwinsOfWrittenRow
  <2> QED BY <2>1, <2>2, <2>3
<1>7. ASSUME NEW t \in Threads, WriteNew(t)
      PROVE  TwinInv'
  <2>1. PICK i \in Nat : i = last + 1 /\ i # 0
    BY DEF FeedTypeOK
  <2>2. Inserted(t, i) /\ op[t].pc = "write" /\ op[t].hit = 0
    BY <1>7, <2>1, NewTypes
  <2>3. /\ Live' \subseteq Live \cup {i} /\ \A j \in Live \ {i} : mem'[j] = mem[j]
        /\ mem'[i].text = Item(t) /\ MetBy(t, mem'[i].text) /\ Turns(t) /\ op'[t].pc # "write"
        /\ late' = IF op[t].met THEN late \cup {i} ELSE late
    BY <2>2 DEF Inserted
  <2>4. ASSUME NEW j \in Live \ {i}, mem[j].text = mem'[i].text PROVE {i, j} \cap late' # {}
    <3>1. op[t].met \/ {j, 0} \cap late # {}
      BY <2>2, <2>3, <2>4, IdsAreNumbers DEF TwinInv
    <3>2. 0 \notin late
      BY DEF TwinInv
    <3> QED BY <2>3, <3>1, <3>2
  <2>5. late \subseteq late' /\ late' \subseteq late \cup {i}
    BY <2>3
  <2> QED BY <2>1, <2>3, <2>4, <2>5, TwinsOfWrittenRow
<1>8. ASSUME NEW t \in Threads, BumpDraw(t) \/ AddFinish(t) \/ DeleteTrace(t)
      PROVE  TwinInv'
  <2>1. late' = late /\ Turns(t) /\ op'[t].pc # "write"
    BY <1>8, DrawTypes, FinishTypes, DeleteTypes DEF Bumped, Released
  <2>2. PICK gone : Left(t, gone)
    BY <1>8, DrawTypes, FinishTypes, DeleteTypes
  <2>3. SameWriters
    BY <2>1, WritersStay
  <2> QED BY <2>1, <2>2, <2>3, TwinsInRowsLeft
<1>9. ASSUME NEW t \in Threads, BumpWrite(t)
      PROVE  TwinInv'
  <2>1. /\ late' = late /\ Turns(t) /\ op'[t].pc # "write"
        /\ mem' = mem \/ \E i \in Live : Versioned(t, i)
    BY <1>9, VersionTypes DEF Bumped
  <2>2. SameWriters
    BY <2>1, WritersStay
  <2>3. ASSUME NEW i \in Live, Versioned(t, i) PROVE TwinInv'
    <3>1. Live' = Live /\ \A j \in Live' : mem'[j].text = mem[j].text
      BY <2>3 DEF Versioned
    <3> QED BY <2>1, <2>2, <3>1, TwinsStay
  <2> QED BY <2>1, <2>2, <2>3, TwinsInRowsThatStay
<1>10. ASSUME NEW t \in Threads, DeleteAllTraces(t) \/ Consolidate(t)
       PROVE  TwinInv'
  <2>1. op' = op /\ late' = late
    BY <1>10, DeleteAllTypes, ConsolidateTypes
  <2>2. PICK gone : Left(t, gone)
    BY <1>10, DeleteAllTypes, ConsolidateTypes
  <2> QED BY <1>1, <2>1, <2>2, TwinsInRowsLeft
<1>11. CASE Crash
  <2>1. UNCHANGED <<mem, late>> /\ \A t \in Threads : op'[t].pc = "idle"
    BY <1>11, CrashTypes, QuietIsOp
  <2>2. SameWriters
    BY <2>1 DEF SameWriters, SameWriter
  <2> QED BY <2>1, <2>2, TwinsInRowsThatStay
<1>12. ASSUME \/ \E t \in Threads : AddDefer(t)
              \/ Tick \/ ReadChanges \/ ReadTombstones \/ ReadMaxVersion \/ UNCHANGED feedVars
       PROVE  TwinInv'
  <2>1. UNCHANGED <<mem, op, late>>
    BY <1>12, TickTypes, ChangesTypes, TombstonesTypes, MaxVersionTypes DEF AddDefer, feedVars
  <2> QED BY <1>1, <2>1, TwinsInRowsThatStay
<1> QED BY <1>2, <1>3, <1>4, <1>5, <1>6, <1>7, <1>8, <1>9, <1>10, <1>11, <1>12 DEF FeedNext

\* Two memories with one content are there only if their adds overlapped, or update_trace rewrote one
\* (memory/mod.rs add, dedup.rs check_dedup).
THEOREM TwinsComeOfOverlaps == FeedSpec => []NoTwins
<1> DEFINE Inv == FeedTypeOK /\ StampsAreSound /\ TwinInv
<1>1. FeedInit => Inv
  <2>1. FeedInit => Live = {} /\ late = {} /\ op = [t \in Threads |-> Quiet]
    BY DEF FeedInit, Live
  <2>2. FeedInit => TwinInv
    BY <2>1, QuietIsOp DEF TwinInv, NoTwins
  <2> QED BY <2>2, FeedStarts
<1>2. Inv /\ [FeedNext]_feedVars => Inv'
  BY StepsAreSound, TwinsAreKept
<1>3. Inv => NoTwins
  BY DEF TwinInv
<1> QED BY <1>1, <1>2, <1>3, PTL DEF FeedSpec

--------------------------------------------------------------------------------
(* What the follower hears *)

\* What is in a thread's hands stays there, or slips, or is let go with its row.
Handed == /\ slipped \subseteq slipped'
          /\ \A i \in InFlight : i \in InFlight' \cup slipped' \/ i \notin Live'
          /\ Buried \subseteq Buried' \cup slipped'

LEMMA HandsOn ==
    ASSUME NEW t \in Threads, Turns(t)
    PROVE  /\ \A i \in InFlight : i \in InFlight' \/ (op[t].pc \in {"draw", "bump", "bury"} /\ i = op[t].id)
           /\ \A i \in Buried : i \in Buried' \/ (op[t].pc = "bury" /\ i = op[t].id)
           /\ op'[t].pc \in {"draw", "bump", "bury"} => op'[t].id \in InFlight'
           /\ op'[t].pc = "bury" => op'[t].id \in Buried'
<1>1. ASSUME NEW i \in InFlight PROVE i \in InFlight' \/ (op[t].pc \in {"draw", "bump", "bury"} /\ i = op[t].id)
  <2>1. PICK u \in Threads : op[u].pc \in {"draw", "bump", "bury"} /\ i = op[u].id
    BY DEF InFlight
  <2>2. CASE u = t
    BY <2>1, <2>2
  <2>3. CASE u # t
    <3>1. op'[u].pc \in {"draw", "bump", "bury"} /\ op'[u].id = i
      BY <2>1, <2>3 DEF Turns, Alike
    <3> QED BY <3>1 DEF InFlight
  <2> QED BY <2>2, <2>3
<1>2. ASSUME NEW i \in Buried PROVE i \in Buried' \/ (op[t].pc = "bury" /\ i = op[t].id)
  <2>1. PICK u \in Threads : op[u].pc = "bury" /\ i = op[u].id
    BY DEF Buried
  <2>2. CASE u = t
    BY <2>1, <2>2
  <2>3. CASE u # t
    <3>1. op'[u].pc = "bury" /\ op'[u].id = i
      BY <2>1, <2>3 DEF Turns, Alike
    <3> QED BY <3>1 DEF Buried
  <2> QED BY <2>2, <2>3
<1>3. op'[t].pc \in {"draw", "bump", "bury"} => op'[t].id \in InFlight'
  BY DEF InFlight
<1>4. op'[t].pc = "bury" => op'[t].id \in Buried'
  BY DEF Buried
<1> QED BY <1>1, <1>2, <1>3, <1>4

\* The general case: a row the follower is to have is as before, or is ahead of an idle follower; what it
\* is to lose was to be lost before by the same tombstone, or has one that is beyond all rows at its cursor.
LEMMA HeardStays ==
    ASSUME HeardInv, follower' = follower,
           \A i \in Live' \ (slipped' \cup InFlight') : ~mem'[i].private =>
               \/ /\ i \in Live \ (slipped \cup InFlight) /\ ~mem[i].private
                  /\ mem'[i].text = mem[i].text /\ mem'[i].ver = mem[i].ver
               \/ follower.pc = "idle" /\ mem'[i].ver > follower.cursor,
           \A i : i \notin Live' /\ i \notin slipped' \cup Buried' =>
               \/ i \notin Live /\ i \notin slipped \cup Buried
               \/ follower.pc = "idle",
           \A i \in Unheard' \ (slipped' \cup Buried') :
               \/ /\ i \notin Live /\ i \notin slipped \cup Buried
                  /\ i \in DOMAIN tombs => i \in DOMAIN tombs' /\ tombs'[i] = tombs[i]
                  /\ \A j \in Live' : mem'[j].ver = follower.cursor =>
                         j \in Live /\ mem[j].ver = follower.cursor /\ mem'[j].at = mem[j].at
               \/ i \in DOMAIN tombs' /\ \A j \in Live' : mem'[j].ver = follower.cursor => mem'[j].at < tombs'[i]
    PROVE  HeardInv'
<1>1. Ahead'
  BY DEF HeardInv, Ahead
<1>2. Gravestones'
  <2>1. ASSUME NEW i \in Unheard' \ (slipped' \cup Buried')
        PROVE  i \in DOMAIN tombs' /\ \A j \in Live' : mem'[j].ver = follower.cursor => mem'[j].at < tombs'[i]
    <3>1. CASE /\ i \notin Live /\ i \notin slipped \cup Buried
               /\ i \in DOMAIN tombs => i \in DOMAIN tombs' /\ tombs'[i] = tombs[i]
               /\ \A j \in Live' : mem'[j].ver = follower.cursor =>
                      j \in Live /\ mem[j].ver = follower.cursor /\ mem'[j].at = mem[j].at
      <4>1. i \in Unheard \ (slipped \cup Buried)
        BY <2>1, <3>1 DEF Unheard
      <4>2. i \in DOMAIN tombs /\ \A j \in Live : mem[j].ver = follower.cursor => mem[j].at < tombs[i]
        BY <4>1 DEF HeardInv, Gravestones
      <4> QED BY <3>1, <4>2
    <3>2. CASE i \in DOMAIN tombs' /\ \A j \in Live' : mem'[j].ver = follower.cursor => mem'[j].at < tombs'[i]
      BY <3>2
    <3> QED BY <2>1, <3>1, <3>2
  <2> QED BY <2>1 DEF Gravestones
<1>3. MidPoll'
  <2>1. \A x, y \in follower'.changes : x[1] = y[1] => x[2] = y[2]
    BY DEF HeardInv, MidPoll
  <2>2. ASSUME follower'.pc # "idle", NEW i \in Live' \ (slipped' \cup InFlight'), ~mem'[i].private
        PROVE  \/ <<i, mem'[i].text>> \in follower'.changes
               \/ i \in DOMAIN follower'.copy \ Told' /\ follower'.copy[i] = mem'[i].text
    <3>1. /\ i \in Live \ (slipped \cup InFlight) /\ ~mem[i].private /\ mem'[i].text = mem[i].text
      BY <2>2
    <3>2. Told' = Told
      BY DEF Told
    <3> QED BY <2>2, <3>1, <3>2 DEF HeardInv, MidPoll
  <2>3. ASSUME follower'.pc # "idle", NEW i \in Told' \ Live' PROVE i \in slipped' \cup Buried'
    <3>1. i \in Told
      BY DEF Told
    <3> QED BY <2>3, <3>1 DEF HeardInv, MidPoll
  <2>4. ASSUME follower'.pc = "max", NEW i \in Unheard' PROVE i \in slipped' \cup Buried' \cup follower'.dead
    <3>1. i \in DOMAIN follower.copy
      BY DEF Unheard
    <3>2. i \notin Live'
      BY DEF Unheard
    <3>3. CASE i \notin slipped' \cup Buried'
      <4>1. i \in Unheard /\ i \notin slipped \cup Buried
        BY <2>4, <3>1, <3>2, <3>3 DEF Unheard
      <4> QED BY <2>4, <4>1 DEF HeardInv, MidPoll
    <3> QED BY <3>3
  <2> QED BY <2>1, <2>2, <2>3, <2>4 DEF MidPoll
<1> QED BY <1>1, <1>2, <1>3 DEF HeardInv

\* When rows go, their loss is heard of, in a thread's hands or not.
LEMMA HeardInRowsLeft ==
    ASSUME HeardInv, Handed, UNCHANGED <<tombs, follower>>, NEW t, NEW gone, Left(t, gone),
           gone \subseteq slipped' \cup Buried'
    PROVE  HeardInv'
<1>1. /\ Live' = Live \ gone
      /\ \A i \in Live' : /\ mem'[i].text = mem[i].text /\ mem'[i].private = mem[i].private
                          /\ mem'[i].ver = mem[i].ver /\ mem'[i].at = mem[i].at
  BY DEF Left
<1>2. ASSUME NEW i \in Live' \ (slipped' \cup InFlight'), ~mem'[i].private
      PROVE  /\ i \in Live \ (slipped \cup InFlight) /\ ~mem[i].private
             /\ mem'[i].text = mem[i].text /\ mem'[i].ver = mem[i].ver
  BY <1>1, <1>2 DEF Handed
<1>3. ASSUME NEW i, i \notin Live', i \notin slipped' \cup Buried'
      PROVE  i \notin Live /\ i \notin slipped \cup Buried
  BY <1>1, <1>3 DEF Handed
<1>4. ASSUME NEW i \in Unheard' \ (slipped' \cup Buried')
      PROVE  /\ i \notin Live /\ i \notin slipped \cup Buried
             /\ \A j \in Live' : mem'[j].ver = follower.cursor =>
                    j \in Live /\ mem[j].ver = follower.cursor /\ mem'[j].at = mem[j].at
  <2>1. i \notin Live'
    BY DEF Unheard
  <2> QED BY <1>1, <1>3, <1>4, <2>1
<1> QED BY <1>2, <1>3, <1>4, HeardStays

LEMMA HeardInRowsThatStay ==
    ASSUME HeardInv, Handed, UNCHANGED <<mem, tombs, follower>>
    PROVE  HeardInv'
<1>1. Live' = Live
  BY DEF Live
<1>2. ASSUME NEW i \in Live' \ (slipped' \cup InFlight'), ~mem'[i].private
      PROVE  /\ i \in Live \ (slipped \cup InFlight) /\ ~mem[i].private
             /\ mem'[i].text = mem[i].text /\ mem'[i].ver = mem[i].ver
  BY <1>1, <1>2 DEF Handed
<1>3. ASSUME NEW i, i \notin Live', i \notin slipped' \cup Buried'
      PROVE  i \notin Live /\ i \notin slipped \cup Buried
  BY <1>1, <1>3 DEF Handed
<1>4. ASSUME NEW i \in Unheard' \ (slipped' \cup Buried')
      PROVE  /\ i \notin Live /\ i \notin slipped \cup Buried
             /\ \A j \in Live' : mem'[j].ver = follower.cursor =>
                    j \in Live /\ mem[j].ver = follower.cursor /\ mem'[j].at = mem[j].at
  <2>1. i \notin Live'
    BY DEF Unheard
  <2> QED BY <1>1, <1>3, <1>4, <2>1
<1> QED BY <1>2, <1>3, <1>4, HeardStays

\* A stamp on a row at the cursor moves the horizon over all that is unheard of.
LEMMA HeardInStampedRow ==
    ASSUME HeardInv, Handed, UNCHANGED <<tombs, follower>>, NEW i \in Live, Stamped(i),
           mem'[i].text = mem[i].text \/ i \in slipped' \cup InFlight', SlipsAtStamp(i) \subseteq slipped'
    PROVE  HeardInv'
<1>1. /\ Live' = Live /\ \A j \in Live \ {i} : mem'[j] = mem[j]
      /\ mem'[i].private = mem[i].private /\ mem'[i].ver = mem[i].ver
  BY DEF Stamped
<1>2. ASSUME NEW j \in Live' \ (slipped' \cup InFlight'), ~mem'[j].private
      PROVE  /\ j \in Live \ (slipped \cup InFlight) /\ ~mem[j].private
             /\ mem'[j].text = mem[j].text /\ mem'[j].ver = mem[j].ver
  <2>1. CASE j = i
    BY <1>1, <1>2, <2>1 DEF Handed
  <2>2. CASE j # i
    BY <1>1, <1>2, <2>2 DEF Handed
  <2> QED BY <2>1, <2>2
<1>3. ASSUME NEW j, j \notin Live', j \notin slipped' \cup Buried'
      PROVE  j \notin Live /\ j \notin slipped \cup Buried
  BY <1>1, <1>3 DEF Handed
<1>4. ASSUME NEW k \in Unheard' \ (slipped' \cup Buried')
      PROVE  /\ k \notin Live /\ k \notin slipped \cup Buried
             /\ \A j \in Live' : mem'[j].ver = follower.cursor =>
                    j \in Live /\ mem[j].ver = follower.cursor /\ mem'[j].at = mem[j].at
  <2>1. k \notin Live' /\ k \in Unheard
    BY <1>1 DEF Unheard
  <2>2. mem[i].ver # follower.cursor
    BY <1>4, <2>1 DEF SlipsAtStamp
  <2> QED BY <1>1, <1>3, <1>4, <2>1, <2>2
<1> QED BY <1>2, <1>3, <1>4, HeardStays

\* A thread that held no row, or goes on with it, hands nothing over.
LEMMA HandsKeep ==
    ASSUME NEW t \in Threads, Turns(t), slipped \subseteq slipped',
           op[t].pc \in {"draw", "bump", "bury"} =>
               \/ op'[t].pc \in {"draw", "bump"} /\ op'[t].id = op[t].id /\ op[t].pc # "bury"
               \/ op[t].id \in slipped'
    PROVE  Handed
<1>1. \A i \in InFlight : i \in InFlight' \cup slipped'
  BY HandsOn
<1>2. \A i \in Buried : i \in Buried' \cup slipped'
  BY HandsOn
<1> QED BY <1>1, <1>2 DEF Handed

LEMMA HeardWhileWriting ==
    ASSUME FeedTypeOK, StampsAreSound, HeardInv, NEW t \in Threads,
           \/ AddUnknown(t) \/ AddBatch(t) \/ ProcessDeferred(t) \/ CheckDedup(t)
           \/ AddKnown(t) \/ WriteDuplicate(t) \/ WriteNew(t)
    PROVE  HeardInv'
<1>1. CASE AddUnknown(t) \/ AddBatch(t) \/ ProcessDeferred(t) \/ CheckDedup(t)
  <2>1. UNCHANGED <<mem, tombs, follower, slipped>> /\ Turns(t) /\ op[t].pc \in {"idle", "dedup"}
    BY <1>1, BeginningTypes, CheckTypes
  <2>2. Handed
    BY <2>1, HandsKeep
  <2> QED BY <2>1, <2>2, HeardInRowsThatStay
<1>2. CASE AddKnown(t)
  <2>1. UNCHANGED <<tombs, follower>> /\ Turns(t) /\ op[t].pc = "idle"
    BY <1>2, KnownTypes
  <2>2. PICK i \in Live : Stamped(i) /\ mem'[i].text = mem[i].text /\ slipped' = slipped \cup SlipsAtStamp(i)
    BY <1>2, KnownTypes
  <2>3. slipped \subseteq slipped' /\ SlipsAtStamp(i) \subseteq slipped'
    BY <2>2
  <2>4. Handed
    BY <2>1, <2>3, HandsKeep
  <2> QED BY <2>1, <2>2, <2>3, <2>4, HeardInStampedRow
<1>3. CASE WriteDuplicate(t)
  <2>1. op[t].pc = "write" /\ follower' = follower /\ (Abandoned(t) \/ \E i \in Live : Rewritten(t, i))
    BY <1>3, DuplicateTypes
  <2>2. CASE Abandoned(t)
    <3>1. UNCHANGED <<mem, tombs, slipped>> /\ Turns(t)
      BY <2>2 DEF Abandoned, Released
    <3>2. Handed
      BY <2>1, <3>1, HandsKeep
    <3> QED BY <2>1, <3>1, <3>2, HeardInRowsThatStay
  <2>3. ASSUME NEW i \in Live, Rewritten(t, i) PROVE HeardInv'
    <3>1. /\ Stamped(i) /\ Turns(t) /\ tombs' = tombs /\ slipped \subseteq slipped' /\ SlipsAtStamp(i) \subseteq slipped'
          /\ i \in slipped' \/ (op'[t].pc = "draw" /\ op'[t].id = i)
      BY <2>3 DEF Rewritten
    <3>2. i \in slipped' \cup InFlight'
      BY <3>1, HandsOn
    <3>3. Handed
      BY <2>1, <3>1, HandsKeep
    <3> QED BY <2>1, <3>1, <3>2, <3>3, HeardInStampedRow
  <2> QED BY <2>1, <2>2, <2>3
<1>4. CASE WriteNew(t)
  <2>1. PICK n \in Nat : n = last + 1
    BY DEF FeedTypeOK
  <2>2. op[t].pc = "write" /\ UNCHANGED <<tombs, follower>> /\ Inserted(t, n)
    BY <1>4, <2>1, NewTypes
  <2>3. /\ n \notin Live /\ Live' = Live \cup {n} /\ \A j \in Live : mem'[j] = mem[j]
        /\ mem'[n].ver = 0 /\ Turns(t) /\ slipped \subseteq slipped'
        /\ n \in slipped' \/ (op'[t].pc = "draw" /\ op'[t].id = n)
        /\ follower.cursor = 0 => Unheard \subseteq slipped'
    BY <2>2 DEF Inserted
  <2>4. n \in slipped' \cup InFlight'
    BY <2>3, HandsOn
  <2>5. Handed
    BY <2>2, <2>3, HandsKeep
  <2>6. ASSUME NEW i \in Live' \ (slipped' \cup InFlight'), ~mem'[i].private
        PROVE  /\ i \in Live \ (slipped \cup InFlight) /\ ~mem[i].private
               /\ mem'[i].text = mem[i].text /\ mem'[i].ver = mem[i].ver
    BY <2>3, <2>4, <2>5, <2>6 DEF Handed
  <2>7. ASSUME NEW i, i \notin Live', i \notin slipped' \cup Buried'
        PROVE  i \notin Live /\ i \notin slipped \cup Buried
    BY <2>3, <2>5, <2>7 DEF Handed
  <2>8. ASSUME NEW i \in Unheard' \ (slipped' \cup Buried')
        PROVE  /\ i \notin Live /\ i \notin slipped \cup Buried
               /\ \A j \in Live' : mem'[j].ver = follower.cursor =>
                      j \in Live /\ mem[j].ver = follower.cursor /\ mem'[j].at = mem[j].at
    <3>1. i \notin Live' /\ i \in Unheard
      BY <2>2, <2>3 DEF Unheard
    <3>2. follower.cursor # 0
      BY <2>3, <2>8, <3>1
    <3> QED BY <2>3, <2>7, <2>8, <3>1, <3>2
  <2> QED BY <2>2, <2>6, <2>7, <2>8, HeardStays
<1> QED BY <1>1, <1>2, <1>3, <1>4

LEMMA HeardWhileBumping ==
    ASSUME FeedTypeOK, StampsAreSound, HeardInv, NEW t \in Threads, BumpDraw(t) \/ BumpWrite(t) \/ AddFinish(t)
    PROVE  HeardInv'
<1>1. CASE BumpDraw(t)
  <2>1. /\ op[t].pc = "draw" /\ Bumped(t) /\ Left(t, {}) /\ UNCHANGED <<tombs, follower>>
        /\ slipped \subseteq slipped' /\ (op'[t].pc = "bump" \/ op[t].id \in slipped')
    BY <1>1, DrawTypes
  <2>2. Turns(t) /\ (op'[t].pc = "bump" => op'[t].id = op[t].id)
    BY <2>1 DEF Bumped
  <2>3. Handed
    BY <2>1, <2>2, HandsKeep
  <2>4. PICK gone : gone = {} /\ Left(t, gone)
    BY <2>1
  <2>5. gone \subseteq slipped' \cup Buried'
    BY <2>4
  <2> QED BY <2>1, <2>3, <2>4, <2>5, HeardInRowsLeft
<1>2. CASE BumpWrite(t)
  <2>1. /\ op[t].pc = "bump" /\ Turns(t) /\ UNCHANGED <<tombs, follower>>
        /\ \/ op[t].id \notin Live /\ UNCHANGED <<mem, slipped>>
           \/ \E i \in Live : Versioned(t, i)
    BY <1>2, VersionTypes DEF Bumped
  <2>2. CASE op[t].id \notin Live /\ UNCHANGED <<mem, slipped>>
    <3>1. Live' = Live
      BY <2>2 DEF Live
    <3>2. Handed
      BY <2>1, <2>2, <3>1, HandsOn DEF Handed
    <3> QED BY <2>1, <2>2, <3>2, HeardInRowsThatStay
  <2>3. ASSUME NEW i \in Live, Versioned(t, i) PROVE HeardInv'
    <3>1. /\ i = op[t].id /\ Live' = Live /\ \A j \in Live \ {i} : mem'[j] = mem[j]
          /\ mem'[i].text = mem[i].text /\ mem'[i].private = mem[i].private
          /\ \/ /\ i \in slipped' /\ slipped \subseteq slipped'
                /\ mem'[i].ver = follower.cursor => Unheard \subseteq slipped'
             \/ mem'[i].ver > count.highest /\ follower.pc = "idle" /\ slipped' = slipped \ {i}
      BY <2>3 DEF Versioned
    <3>2. /\ \A j \in InFlight : j \in InFlight' \/ j = i
          /\ \A j \in Buried : j \in Buried'
      BY <2>1, <3>1, HandsOn
    <3>3. \/ /\ i \in slipped' /\ slipped \subseteq slipped'
             /\ mem'[i].ver = follower.cursor => Unheard \subseteq slipped'
          \/ mem'[i].ver > follower.cursor /\ follower.pc = "idle" /\ slipped' = slipped \ {i}
      <4>1. follower.cursor <= count.highest /\ follower.cursor \in Nat /\ count.highest \in Nat
        BY StartsCount DEF FeedTypeOK, StampsAreSound
      <4>2. mem'[i].ver \in Nat
        <5>1. FeedTypeOK'
          BY <1>2, VersionTypes
        <5> QED BY <3>1, <5>1 DEF FeedTypeOK, Row
      <4> QED BY <3>1, <4>1, <4>2
    <3>4. ASSUME NEW j \in Live' \ (slipped' \cup InFlight'), ~mem'[j].private
          PROVE  \/ /\ j \in Live \ (slipped \cup InFlight) /\ ~mem[j].private
                    /\ mem'[j].text = mem[j].text /\ mem'[j].ver = mem[j].ver
                 \/ follower.pc = "idle" /\ mem'[j].ver > follower.cursor
      <4>1. CASE j = i
        BY <3>3, <3>4, <4>1
      <4>2. CASE j # i
        BY <3>1, <3>2, <3>3, <3>4, <4>2
      <4> QED BY <4>1, <4>2
    <3>5. ASSUME NEW j, j \notin Live', j \notin slipped' \cup Buried'
          PROVE  j \notin Live /\ j \notin slipped \cup Buried
      BY <3>1, <3>2, <3>3, <3>5
    <3>6. ASSUME NEW k \in Unheard' \ (slipped' \cup Buried')
          PROVE  /\ k \notin Live /\ k \notin slipped \cup Buried
                 /\ \A j \in Live' : mem'[j].ver = follower.cursor =>
                        j \in Live /\ mem[j].ver = follower.cursor /\ mem'[j].at = mem[j].at
      <4>1. k \notin Live' /\ k \in Unheard
        BY <2>1, <3>1 DEF Unheard
      <4>2. mem'[i].ver # follower.cursor
        <5>1. follower.cursor \in Nat
          BY DEF FeedTypeOK
        <5> QED BY <3>3, <3>6, <4>1, <5>1
      <4> QED BY <3>1, <3>5, <3>6, <4>1, <4>2
    <3> QED BY <2>1, <3>4, <3>5, <3>6, HeardStays
  <2> QED BY <2>1, <2>2, <2>3
<1>3. CASE AddFinish(t)
  <2>1. op[t].pc = "finish" /\ Turns(t) /\ UNCHANGED <<tombs, follower>>
    BY <1>3, FinishTypes DEF Released
  <2>2. PICK gone : Left(t, gone) /\ slipped' = slipped \cup gone
    BY <1>3, FinishTypes
  <2>3. slipped \subseteq slipped' /\ gone \subseteq slipped' \cup Buried'
    BY <2>2
  <2>4. Handed
    BY <2>1, <2>3, HandsKeep
  <2> QED BY <2>1, <2>2, <2>3, <2>4, HeardInRowsLeft
<1> QED BY <1>1, <1>2, <1>3

LEMMA HandsAreKept ==
    ASSUME op' = op, slipped \subseteq slipped'
    PROVE  Handed
  BY DEF Handed, InFlight, Buried

LEMMA HeardWhileUpdating ==
    ASSUME FeedTypeOK, StampsAreSound, HeardInv, NEW t \in Threads, UpdateTrace(t) \/ UpdateImportance(t)
    PROVE  HeardInv'
<1>1. CASE UpdateTrace(t)
  <2>1. op[t].pc = "idle" /\ Turns(t) /\ UNCHANGED <<tombs, follower>>
    BY <1>1, RewriteTypes
  <2>2. PICK i \in Live : Stamped(i) /\ i \in slipped' /\ slipped \cup SlipsAtStamp(i) \subseteq slipped'
    BY <1>1, RewriteTypes
  <2>3. slipped \subseteq slipped' /\ SlipsAtStamp(i) \subseteq slipped' /\ i \in slipped' \cup InFlight'
    BY <2>2
  <2>4. Handed
    BY <2>1, <2>3, HandsKeep
  <2> QED BY <2>1, <2>2, <2>3, <2>4, HeardInStampedRow
<1>2. CASE UpdateImportance(t)
  <2>1. UNCHANGED <<op, tombs, follower>>
    BY <1>2, StampingTypes
  <2>2. PICK i \in Live : Stamped(i) /\ mem'[i].text = mem[i].text /\ slipped' = slipped \cup SlipsAtStamp(i)
    BY <1>2, StampingTypes
  <2>3. slipped \subseteq slipped' /\ SlipsAtStamp(i) \subseteq slipped'
    BY <2>2
  <2>4. Handed
    BY <2>1, <2>3, HandsAreKept
  <2> QED BY <2>1, <2>2, <2>3, <2>4, HeardInStampedRow
<1> QED BY <1>1, <1>2

LEMMA HeardWhileDeleting ==
    ASSUME FeedTypeOK, StampsAreSound, HeardInv, NEW t \in Threads,
           DeleteTrace(t) \/ RecordDelete(t) \/ DeleteAllTraces(t) \/ Consolidate(t)
    PROVE  HeardInv'
<1>1. CASE DeleteTrace(t)
  <2>1. /\ op[t].pc = "idle" /\ op'[t].pc = "bury" /\ Turns(t) /\ UNCHANGED <<tombs, follower, slipped>>
        /\ Left(t, {op'[t].id})
    BY <1>1, DeleteTypes
  <2>2. Handed
    BY <2>1, HandsKeep
  <2>3. PICK gone : gone = {op'[t].id} /\ Left(t, gone)
    BY <2>1
  <2>4. gone \subseteq slipped' \cup Buried'
    BY <2>1, <2>3, HandsOn
  <2> QED BY <2>1, <2>2, <2>3, <2>4, HeardInRowsLeft
<1>2. CASE RecordDelete(t)
  <2>1. op[t].pc = "bury" /\ Turns(t) /\ Recorded(t) /\ UNCHANGED <<mem, follower>>
    BY <1>2, RecordTypes DEF Released
  <2>2. PICK i \in Nat : i = op[t].id /\ i \notin Live
    BY <2>1, OpFields DEF FeedTypeOK, HandsOK
  <2>3. Live' = Live
    BY <2>1 DEF Live
  <2>4. CASE tombs' = tombs /\ slipped' = slipped \cup {i}
    <3>1. Handed
      BY <2>1, <2>2, <2>4, HandsKeep
    <3> QED BY <2>1, <2>4, <3>1, HeardInRowsThatStay
  <2>5. CASE /\ DOMAIN tombs' = DOMAIN tombs \cup {i} /\ tombs'[i] = clock
             /\ \A j \in DOMAIN tombs \ {i} : tombs'[j] = tombs[j]
             /\ slipped' = slipped \cup Missed({i})
    <3>1. /\ \A j \in InFlight : j \in InFlight' \/ j = i
          /\ \A j \in Buried : j \in Buried' \/ j = i
      BY <2>1, <2>2, HandsOn
    <3>2. slipped \subseteq slipped'
      BY <2>5
    <3>3. i \notin slipped' => follower.pc = "idle" /\ \A j \in Live : mem[j].at # clock
      BY <2>2, <2>5 DEF Missed
    <3>4. ASSUME NEW j \in Live' \ (slipped' \cup InFlight'), ~mem'[j].private
          PROVE  /\ j \in Live \ (slipped \cup InFlight) /\ ~mem[j].private
                 /\ mem'[j].text = mem[j].text /\ mem'[j].ver = mem[j].ver
      BY <2>1, <2>2, <2>3, <3>1, <3>2, <3>4
    <3>5. ASSUME NEW j, j \notin Live', j \notin slipped' \cup Buried'
          PROVE  (j \notin Live /\ j \notin slipped \cup Buried) \/ follower.pc = "idle"
      BY <2>3, <3>1, <3>2, <3>3, <3>5
    <3>6. ASSUME NEW k \in Unheard' \ (slipped' \cup Buried')
          PROVE  \/ /\ k \notin Live /\ k \notin slipped \cup Buried
                    /\ k \in DOMAIN tombs => k \in DOMAIN tombs' /\ tombs'[k] = tombs[k]
                    /\ \A j \in Live' : mem'[j].ver = follower.cursor =>
                           j \in Live /\ mem[j].ver = follower.cursor /\ mem'[j].at = mem[j].at
                 \/ k \in DOMAIN tombs' /\ \A j \in Live' : mem'[j].ver = follower.cursor => mem'[j].at < tombs'[k]
      <4>1. k \notin Live'
        BY DEF Unheard
      <4>2. CASE k = i
        <5>1. \A j \in Live : mem[j].at # clock
          BY <3>3, <3>6, <4>2
        <5>2. \A j \in Live : mem[j].at < clock
          <6>1. clock \in Nat /\ \A j \in Live : mem[j].at \in Nat
            BY DEF FeedTypeOK, Row
          <6>2. \A j \in Live : mem[j].at <= clock
            BY DEF StampsAreSound
          <6> QED BY <5>1, <6>1, <6>2
        <5> QED BY <2>1, <2>3, <2>5, <4>2, <5>2
      <4>3. CASE k # i
        BY <2>1, <2>3, <2>5, <3>1, <3>2, <3>6, <4>1, <4>3
      <4> QED BY <4>2, <4>3
    <3> QED BY <2>1, <3>4, <3>5, <3>6, HeardStays
  <2> QED BY <2>1, <2>2, <2>4, <2>5 DEF Recorded
<1>3. CASE DeleteAllTraces(t)
  <2>1. /\ UNCHANGED <<op, follower>> /\ Left(t, Live) /\ DOMAIN tombs' = DOMAIN tombs \cup Live
        /\ slipped' = slipped \cup Missed(Live)
    BY <1>3, DeleteAllTypes
  <2>2. Live' = {}
    BY <2>1 DEF Left
  <2>3. InFlight' = InFlight /\ Buried' = Buried
    BY <2>1 DEF InFlight, Buried
  <2>4. \A i \in Live : i \in slipped' \/ follower.pc = "idle"
    BY <2>1 DEF Missed
  <2>5. ASSUME NEW j, j \notin Live', j \notin slipped' \cup Buried'
        PROVE  (j \notin Live /\ j \notin slipped \cup Buried) \/ follower.pc = "idle"
    BY <2>1, <2>3, <2>4, <2>5
  <2>6. ASSUME NEW k \in Unheard' \ (slipped' \cup Buried')
        PROVE  k \in DOMAIN tombs'
    <3>1. k \in DOMAIN follower.copy
      BY <2>1 DEF Unheard
    <3>2. CASE k \in Live
      BY <2>1, <3>2
    <3>3. CASE k \notin Live
      <4>1. k \in Unheard \ (slipped \cup Buried)
        BY <2>1, <2>3, <2>6, <3>1, <3>3 DEF Unheard
      <4>2. k \in DOMAIN tombs
        BY <4>1 DEF HeardInv, Gravestones
      <4> QED BY <2>1, <4>2
    <3> QED BY <3>2, <3>3
  <2> QED BY <2>1, <2>2, <2>5, <2>6, HeardStays
<1>4. CASE Consolidate(t)
  <2>1. UNCHANGED <<op, tombs, follower>>
    BY <1>4, ConsolidateTypes
  <2>2. PICK gone : Left(t, gone) /\ slipped' = slipped \cup gone
    BY <1>4, ConsolidateTypes
  <2>3. slipped \subseteq slipped' /\ gone \subseteq slipped' \cup Buried'
    BY <2>2
  <2>4. Handed
    BY <2>1, <2>3, HandsAreKept
  <2> QED BY <2>1, <2>2, <2>3, <2>4, HeardInRowsLeft
<1> QED BY <1>1, <1>2, <1>3, <1>4

LEMMA HeardInQuiet ==
    ASSUME FeedTypeOK, StampsAreSound, HeardInv,
           (\E t \in Threads : AddDefer(t)) \/ Crash \/ Tick \/ UNCHANGED feedVars
    PROVE  HeardInv'
<1>1. CASE Crash
  <2>1. UNCHANGED <<mem, tombs, follower>> /\ slipped \cup InFlight \subseteq slipped'
    BY <1>1, CrashTypes
  <2>2. Buried \subseteq InFlight
    BY DEF Buried, InFlight
  <2>3. Handed
    BY <2>1, <2>2 DEF Handed
  <2> QED BY <2>1, <2>3, HeardInRowsThatStay
<1>2. CASE (\E t \in Threads : AddDefer(t)) \/ Tick \/ UNCHANGED feedVars
  <2>1. UNCHANGED <<mem, op, tombs, follower, slipped>>
    BY <1>2, TickTypes DEF AddDefer, feedVars
  <2>2. Handed
    BY <2>1, HandsAreKept
  <2> QED BY <2>1, <2>2, HeardInRowsThatStay
<1> QED BY <1>1, <1>2

\* A poll asks for what is ahead of the cursor, then for the tombstones beyond the horizon, and takes both.
LEMMA HeardWhilePolling ==
    ASSUME FeedTypeOK, StampsAreSound, HeardInv, ReadChanges \/ ReadTombstones \/ ReadMaxVersion
    PROVE  HeardInv'
<1>0. /\ UNCHANGED <<mem, op, tombs, slipped>> /\ Live' = Live /\ InFlight' = InFlight /\ Buried' = Buried
  BY ChangesTypes, TombstonesTypes, MaxVersionTypes DEF Live, InFlight, Buried
<1>1. CASE ReadChanges
  <2>1. /\ follower.pc = "idle" /\ follower'.pc = "tombs"
        /\ follower'.cursor = follower.cursor /\ follower'.copy = follower.copy
        /\ follower'.changes = {<<i, mem[i].text>> :
                                   i \in {j \in Live : mem[j].ver > follower.cursor /\ ~mem[j].private}}
    BY <1>1, ChangesTypes
  <2>2. Ahead' /\ Gravestones'
    BY <1>0, <2>1 DEF HeardInv, Ahead, Gravestones, Unheard
  <2>3. \A x, y \in follower'.changes : x[1] = y[1] => x[2] = y[2]
    BY <2>1
  <2>4. Told' = {j \in Live : mem[j].ver > follower.cursor /\ ~mem[j].private}
    <3>1. PICK S : S = {j \in Live : mem[j].ver > follower.cursor /\ ~mem[j].private}
      OBVIOUS
    <3>2. follower'.changes = {<<i, mem[i].text>> : i \in S}
      BY <2>1, <3>1
    <3>3. ASSUME NEW j \in Told' PROVE j \in S
      BY <3>2, <3>3 DEF Told
    <3>4. ASSUME NEW j \in S PROVE j \in Told'
      <4>1. <<j, mem[j].text>> \in follower'.changes /\ <<j, mem[j].text>>[1] = j
        BY <3>2
      <4> QED BY <4>1 DEF Told
    <3> QED BY <3>1, <3>3, <3>4
  <2>5. ASSUME NEW i \in Live' \ (slipped' \cup InFlight'), ~mem'[i].private
        PROVE  \/ <<i, mem'[i].text>> \in follower'.changes
               \/ i \in DOMAIN follower'.copy \ Told' /\ follower'.copy[i] = mem'[i].text
    BY <1>0, <2>1, <2>4, <2>5 DEF HeardInv, Ahead
  <2>6. Told' \ Live' \subseteq slipped' \cup Buried'
    BY <1>0, <2>4
  <2>7. MidPoll'
    BY <2>1, <2>3, <2>5, <2>6 DEF MidPoll
  <2> QED BY <2>2, <2>7 DEF HeardInv
<1>2. CASE ReadTombstones
  <2>1. /\ follower.pc = "tombs" /\ follower'.pc = "max"
        /\ follower'.cursor = follower.cursor /\ follower'.copy = follower.copy
        /\ follower'.changes = follower.changes
        /\ follower'.dead = {i \in DOMAIN tombs \ Live :
                                \A j \in Live : mem[j].ver = follower.cursor => mem[j].at < tombs[i]}
    BY <1>2, TombstonesTypes
  <2>2. Ahead' /\ Gravestones' /\ Unheard' = Unheard /\ Told' = Told
    BY <1>0, <2>1 DEF HeardInv, Ahead, Gravestones, Unheard, Told
  <2>3. ASSUME NEW i \in Unheard PROVE i \in slipped \cup Buried \cup follower'.dead
    <3>1. CASE i \notin slipped \cup Buried
      <4>1. i \in DOMAIN tombs /\ \A j \in Live : mem[j].ver = follower.cursor => mem[j].at < tombs[i]
        BY <2>3, <3>1 DEF HeardInv, Gravestones
      <4>2. i \notin Live
        BY <2>3 DEF Unheard
      <4> QED BY <2>1, <4>1, <4>2
    <3> QED BY <3>1
  <2>4. MidPoll'
    BY <1>0, <2>1, <2>2, <2>3 DEF HeardInv, MidPoll
  <2> QED BY <2>2, <2>4 DEF HeardInv
<1>3. CASE ReadMaxVersion
  <2>1. /\ follower.pc = "max" /\ follower'.pc = "idle" /\ follower'.changes = {}
        /\ Applied(follower.copy, follower.changes, follower.dead, follower'.copy)
    BY <1>3, MaxVersionTypes
  <2>2. DOMAIN follower'.copy = (DOMAIN follower.copy \cup Told) \ follower.dead
    BY <2>1 DEF Applied, Told
  <2>3. follower.dead \cap Live = {}
    BY DEF FeedTypeOK
  <2>4. ASSUME NEW i \in Live \ (slipped \cup InFlight), ~mem[i].private
        PROVE  i \in DOMAIN follower'.copy /\ follower'.copy[i] = mem[i].text
    <3>1. CASE <<i, mem[i].text>> \in follower.changes
      <4>1. PICK x \in follower.changes : x[1] = i /\ x[2] = mem[i].text
        BY <3>1
      <4>2. i \in Told /\ i \in DOMAIN follower'.copy
        BY <2>2, <2>3, <4>1 DEF Told
      <4>3. PICK change \in follower.changes : change[1] = i /\ follower'.copy[i] = change[2]
        BY <2>1, <4>2 DEF Applied, Told
      <4>4. change[2] = x[2]
        BY <4>1, <4>3 DEF HeardInv, MidPoll
      <4> QED BY <4>1, <4>2, <4>3, <4>4
    <3>2. CASE i \in DOMAIN follower.copy \ Told /\ follower.copy[i] = mem[i].text
      <4>1. i \in DOMAIN follower'.copy
        BY <2>2, <2>3, <3>2
      <4>2. follower'.copy[i] = follower.copy[i]
        BY <2>1, <3>2, <4>1 DEF Applied, Told
      <4> QED BY <3>2, <4>1, <4>2
    <3> QED BY <2>1, <2>4, <3>1, <3>2 DEF HeardInv, MidPoll
  <2>5. ASSUME NEW i \in Unheard' PROVE i \in slipped \cup Buried
    <3>1. i \in (DOMAIN follower.copy \cup Told) \ follower.dead /\ i \notin Live
      BY <1>0, <2>2 DEF Unheard
    <3>2. CASE i \in Told
      BY <2>1, <3>1, <3>2 DEF HeardInv, MidPoll
    <3>3. CASE i \in DOMAIN follower.copy
      <4>1. i \in Unheard
        BY <3>1, <3>3 DEF Unheard
      <4> QED BY <2>1, <3>1, <4>1 DEF HeardInv, MidPoll
    <3> QED BY <3>1, <3>2, <3>3
  <2>6. Ahead'
    BY <1>0, <2>4 DEF Ahead
  <2>7. Gravestones'
    BY <1>0, <2>5 DEF Gravestones
  <2>8. MidPoll'
    BY <2>1 DEF MidPoll
  <2> QED BY <2>6, <2>7, <2>8 DEF HeardInv
<1> QED BY <1>1, <1>2, <1>3

LEMMA HeardIsKept ==
    ASSUME FeedTypeOK, StampsAreSound, HeardInv, [FeedNext]_feedVars
    PROVE  HeardInv'
  BY HeardWhileWriting, HeardWhileBumping, HeardWhileUpdating, HeardWhileDeleting, HeardInQuiet, HeardWhilePolling
     DEF FeedNext

LEMMA HeardIsNotLost ==
    ASSUME FeedTypeOK, StampsAreSound, HeardInv
    PROVE  NothingLost
<1>1. \A i \in Live \ (slipped \cup InFlight) : ~mem[i].private =>
          \/ mem[i].ver > follower.cursor
          \/ i \in DOMAIN follower.copy /\ follower.copy[i] = mem[i].text
  BY DEF HeardInv, Ahead
<1>2. ASSUME NEW i \in Unheard \ (slipped \cup InFlight)
      PROVE  i \in DOMAIN tombs /\ Beyond(tombs[i], follower.cursor)
  <2>1. i \notin Buried
    BY DEF Buried, InFlight
  <2>2. i \in DOMAIN tombs /\ \A j \in Live : mem[j].ver = follower.cursor => mem[j].at < tombs[i]
    BY <2>1 DEF HeardInv, Gravestones
  <2>3. PICK stamp, v : stamp \in Nat /\ stamp = tombs[i] /\ v = follower.cursor
    BY <2>2 DEF FeedTypeOK
  <2>4. Beyond(stamp, v) <=> \A j \in Live : mem[j].ver = v => mem[j].at < stamp
    BY <2>3, BeyondIsAfterAll
  <2> QED BY <2>2, <2>3, <2>4
<1> QED BY <1>1, <1>2 DEF NothingLost

\* What the follower has not got of a memory is ahead of its cursor, and what it has too much is in a
\* tombstone it will be given, unless the change took one of the named ways around the feed
\* (storage/sync.rs get_changes_since, memory/sync.rs export_changes_since).
THEOREM FeedLosesNothing == FeedSpec => []NothingLost
<1> DEFINE Inv == FeedTypeOK /\ StampsAreSound /\ HeardInv
<1>1. FeedInit => Inv
  <2>1. ASSUME FeedInit PROVE HeardInv
    <3>1. Live = {} /\ follower.pc = "idle" /\ follower.changes = {} /\ DOMAIN follower.copy = {}
      BY <2>1 DEF FeedInit, Live
    <3> QED BY <3>1 DEF HeardInv, Ahead, Gravestones, MidPoll, Unheard
  <2> QED BY <2>1, FeedStarts
<1>2. Inv /\ [FeedNext]_feedVars => Inv'
  BY StepsAreSound, HeardIsKept
<1>3. Inv => NothingLost
  BY HeardIsNotLost
<1> QED BY <1>1, <1>2, <1>3, PTL DEF FeedSpec

--------------------------------------------------------------------------------
(* Each deferred add is accounted for *)

Load(o) == IF o.kind = "deferred" THEN Len(o.todo) ELSE 0
Loads == [t \in Threads |-> Load(op[t])]

\* The deferred path ends with the write of its row.
PathOK(o) == o.kind = "deferred" => o.pc \in {"dedup", "write"}

DeferInv ==
    /\ FeedTypeOK
    /\ \A t \in Threads : PathOK(op[t])
    /\ count.queued = Len(deferred) + Total(Loads, Threads) + count.done + count.dropped

\* A step of one thread moves its load, the queue and the counts together.
LEMMA AccountMoves ==
    ASSUME DeferInv, FeedTypeOK', NEW t \in Threads, \A u \in Threads \ {t} : Alike(op'[u], op[u]), PathOK(op'[t]),
           count'.queued + Len(deferred) + Load(op[t]) + count.done + count.dropped
               = count.queued + Len(deferred') + Load(op'[t]) + count'.done + count'.dropped
    PROVE  DeferInv'
<1>0. op \in [Threads -> Op] /\ op' \in [Threads -> Op] /\ IsFiniteSet(Threads)
  BY FeedAssumption DEF DeferInv, FeedTypeOK, HandsOK
<1>1. ASSUME NEW o \in Op PROVE Load(o) \in Nat
  BY DEF Op, Load
<1>2. \A u \in Threads \ {t} : Load(op'[u]) = Load(op[u]) /\ PathOK(op'[u])
  BY DEF DeferInv, Alike, Load, PathOK
<1>3. PICK f : f \in [Threads -> Nat] /\ f = Loads /\ \A u \in Threads : f[u] = Load(op[u])
  <2>1. \A u \in Threads : Load(op[u]) \in Nat
    BY <1>0, <1>1
  <2>2. Loads \in [Threads -> Nat] /\ \A u \in Threads : Loads[u] = Load(op[u])
    BY <2>1 DEF Loads
  <2> QED BY <2>2
<1>4. PICK n \in Nat : n = Load(op'[t])
  BY <1>0, <1>1
<1>5. PICK h : h \in [Threads -> Nat] /\ h = [f EXCEPT ![t] = n]
  BY <1>3
<1>6. Loads' = h
  <2>1. \A u \in Threads : Load(op'[u]) = h[u]
    BY <1>2, <1>3, <1>4, <1>5
  <2>2. Loads' = [u \in Threads |-> h[u]]
    BY <2>1 DEF Loads
  <2> QED BY <1>5, <2>2
<1>7. Total([f EXCEPT ![t] = n], Threads) + f[t] = Total(f, Threads) + n
  BY <1>0, <1>3, TotalOfChange
<1>8. PICK x \in Nat, y \in Nat : x = Total(f, Threads) /\ y = Total(h, Threads)
  BY <1>0, <1>3, <1>5, TotalIsNat
<1>9. Len(deferred) \in Nat /\ Len(deferred') \in Nat
  BY DEF DeferInv, FeedTypeOK
<1>10. /\ count.queued \in Nat /\ count.done \in Nat /\ count.dropped \in Int
       /\ count'.queued \in Nat /\ count'.done \in Nat /\ count'.dropped \in Int
  BY DEF DeferInv, FeedTypeOK, Counts
<1>11. y + Load(op[t]) = x + n /\ Load(op[t]) \in Nat
  BY <1>0, <1>1, <1>3, <1>5, <1>7, <1>8
<1>12. count.queued = Len(deferred) + x + count.done + count.dropped
  BY <1>3, <1>8 DEF DeferInv
<1>13. count'.queued = Len(deferred') + y + count'.done + count'.dropped
  <2>1. PICK a \in Nat, b \in Nat, l \in Nat : a = Len(deferred) /\ b = Len(deferred') /\ l = Load(op[t])
    BY <1>9, <1>11
  <2>2. count'.queued + a + l + count.done + count.dropped = count.queued + b + n + count'.done + count'.dropped
    BY <1>4, <2>1
  <2>3. PICK q \in Nat, d \in Nat, p \in Int : q = count.queued /\ d = count.done /\ p = count.dropped
    BY <1>10
  <2>4. PICK q1 \in Nat, d1 \in Nat, p1 \in Int : q1 = count'.queued /\ d1 = count'.done /\ p1 = count'.dropped
    BY <1>10
  <2>5. y + l = x + n /\ q = a + x + d + p /\ q1 + a + l + d + p = q + b + n + d1 + p1
    BY <1>11, <1>12, <2>1, <2>2, <2>3, <2>4
  <2>6. q1 = b + y + d1 + p1
    BY <2>5
  <2> QED BY <2>1, <2>4, <2>6
<1>14. \A u \in Threads : PathOK(op'[u])
  BY <1>2
<1> QED BY <1>5, <1>6, <1>8, <1>13, <1>14 DEF DeferInv

\* What comes of an item that was deferred: one less.
LEMMA OneItemLess ==
    ASSUME NEW todo \in Seq(Contents), todo # <<>>, NEW kind, NEW w, w = NextWork(kind, todo)
    PROVE  /\ PathOK(w)
           /\ kind = "deferred" => Load(w) + 1 = Len(todo)
           /\ kind # "deferred" => Load(w) = 0
<1>1. Len(todo) \in Nat \ {0}
  OBVIOUS
<1>2. CASE Len(todo) > 1
  <2>1. w.pc = "dedup" /\ w.kind = kind /\ w.todo = Tail(todo)
    BY <1>2 DEF NextWork, Quiet
  <2>2. Len(Tail(todo)) = Len(todo) - 1
    BY <1>2
  <2> QED BY <1>1, <2>1, <2>2 DEF PathOK, Load
<1>3. CASE ~(Len(todo) > 1)
  <2>1. w.kind = "none"
    BY <1>3 DEF NextWork, Quiet
  <2>2. PathOK(w) /\ Load(w) = 0
    BY <2>1 DEF PathOK, Load
  <2>3. PICK n \in Nat \ {0} : n = Len(todo) /\ ~(n > 1)
    BY <1>1, <1>3
  <2>4. n = 1
    BY <2>3
  <2> QED BY <2>2, <2>3, <2>4
<1> QED BY <1>2, <1>3

LEMMA ItemIsDone ==
    ASSUME FeedTypeOK, NEW t \in Threads, op[t].pc \in Working, NEW o \in [Threads -> Op], NEW c \in Counts,
           NextItem(t, o, c)
    PROVE  /\ PathOK(op'[t]) /\ \A u \in Threads \ {t} : op'[u] = o[u]
           /\ count'.queued = c.queued /\ count'.dropped = c.dropped
           /\ Load(op'[t]) + count'.done = Load(op[t]) + c.done
<1>1. PICK w : w = NextWork(op[t].kind, op[t].todo)
  OBVIOUS
<1>2. op[t].todo \in Seq(Contents) /\ op[t].todo # <<>>
  BY OpFields DEF SoundOp
<1>3. PathOK(w) /\ (op[t].kind = "deferred" => Load(w) + 1 = Len(op[t].todo)) /\ (op[t].kind # "deferred" => Load(w) = 0)
  BY <1>1, <1>2, OneItemLess
<1>4. op' = [o EXCEPT ![t] = w]
  BY <1>1 DEF NextItem, NextWork
<1>5. op'[t] = w /\ \A u \in Threads \ {t} : op'[u] = o[u]
  BY <1>4
<1>6. PICK n \in {0, 1} : count' = [c EXCEPT !.done = @ + n] /\ (n = 1 <=> op[t].kind = "deferred")
  BY DEF NextItem
<1>7. count'.queued = c.queued /\ count'.dropped = c.dropped /\ count'.done = c.done + n /\ c.done \in Nat
  BY <1>6 DEF Counts
<1>8. Len(op[t].todo) \in Nat /\ Load(w) \in Nat
  <2>1. w \in Op
    BY <1>1, OpFields, NextWorkIsSound
  <2> QED BY <1>2, <2>1 DEF Load, Op
<1>9. Load(w) + c.done + n = Load(op[t]) + c.done
  BY <1>3, <1>6, <1>7, <1>8 DEF Load
<1> QED BY <1>3, <1>5, <1>7, <1>8, <1>9

LEMMA ItemIsDropped ==
    ASSUME FeedTypeOK, NEW t \in Threads, op[t].pc \in Working, NEW c \in Counts, Abandon(t, c)
    PROVE  /\ PathOK(op'[t]) /\ \A u \in Threads \ {t} : op'[u] = op[u]
           /\ count'.queued = c.queued /\ count'.done = c.done
           /\ Load(op'[t]) + count'.dropped = Load(op[t]) + c.dropped
<1>1. PICK w : w = NextWork("deferred", op[t].todo)
  OBVIOUS
<1>2. op[t].todo \in Seq(Contents) /\ op[t].todo # <<>> /\ op \in [Threads -> Op]
  BY OpFields DEF SoundOp, FeedTypeOK, HandsOK
<1>3. CASE op[t].kind = "deferred"
  <2>1. op' = [op EXCEPT ![t] = w] /\ count' = [c EXCEPT !.dropped = @ + 1]
    BY <1>1, <1>3 DEF Abandon, NextWork
  <2>2. op'[t] = w /\ \A u \in Threads \ {t} : op'[u] = op[u]
    BY <1>2, <2>1
  <2>3. PathOK(w) /\ Load(w) + 1 = Len(op[t].todo) /\ Load(w) \in Nat /\ Len(op[t].todo) \in Nat
    <3>1. w \in Op
      BY <1>1, OpFields, NextWorkIsSound
    <3>2. Load(w) \in Nat
      BY <3>1 DEF Load, Op
    <3> QED BY <1>1, <1>2, <3>2, OneItemLess
  <2>4. count'.queued = c.queued /\ count'.done = c.done /\ count'.dropped = c.dropped + 1 /\ c.dropped \in Int
    BY <2>1 DEF Counts
  <2>5. Load(op[t]) = Len(op[t].todo)
    BY <1>3 DEF Load
  <2> QED BY <2>2, <2>3, <2>4, <2>5
<1>4. CASE op[t].kind # "deferred"
  <2>1. op' = [op EXCEPT ![t] = Quiet] /\ count' = c
    BY <1>4 DEF Abandon
  <2>2. op'[t] = Quiet /\ (\A u \in Threads \ {t} : op'[u] = op[u]) /\ Quiet.kind = "none"
    BY <1>2, <2>1 DEF Quiet
  <2> QED BY <1>4, <2>1, <2>2 DEF PathOK, Load
<1> QED BY <1>3, <1>4

--------------------------------------------------------------------------------
\* What neither defers nor ends an item keeps the account.
LEMMA AccountKeeps ==
    ASSUME DeferInv, FeedTypeOK', NEW t \in Threads, \A u \in Threads \ {t} : Alike(op'[u], op[u]), PathOK(op'[t]),
           Load(op'[t]) = Load(op[t]), deferred' = deferred,
           count'.queued = count.queued, count'.done = count.done, count'.dropped = count.dropped
    PROVE  DeferInv'
  BY AccountMoves

\* A call begins on a thread that has nothing to do.
LEMMA QuietBefore ==
    ASSUME DeferInv, NEW t \in Threads, Begin(t)
    PROVE  /\ op[t].kind # "deferred" /\ Load(op[t]) = 0
           /\ Started.queued = count.queued /\ Started.done = count.done /\ Started.dropped = count.dropped
<1>1. op[t].kind # "deferred"
  BY DEF DeferInv, PathOK, Begin
<1>2. Started.queued = count.queued /\ Started.done = count.done /\ Started.dropped = count.dropped
  BY DEF DeferInv, FeedTypeOK, Counts, Started
<1> QED BY <1>1, <1>2 DEF Load

LEMMA BeginningsAccount ==
    ASSUME DeferInv, FeedTypeOK', NEW t \in Threads,
           \/ AddDefer(t) \/ AddKnown(t) \/ AddUnknown(t) \/ AddBatch(t) \/ ProcessDeferred(t)
           \/ UpdateTrace(t) \/ UpdateImportance(t) \/ DeleteTrace(t) \/ DeleteAllTraces(t) \/ Consolidate(t)
    PROVE  DeferInv'
<1>0. /\ op \in [Threads -> Op] /\ deferred \in Seq(Contents) /\ count \in Counts /\ Len(deferred) \in Nat
      /\ \A u \in Threads : PathOK(op[u]) /\ Alike(op[u], op[u])
  BY DEF DeferInv, FeedTypeOK, HandsOK, Alike
<1>1. Begin(t)
  BY DEF AddDefer, AddKnown, AddUnknown, AddBatch, ProcessDeferred, UpdateTrace, UpdateImportance, DeleteTrace,
     DeleteAllTraces, Consolidate
<1>2. /\ op[t].kind # "deferred" /\ Load(op[t]) = 0
      /\ Started.queued = count.queued /\ Started.done = count.done /\ Started.dropped = count.dropped
  BY <1>1, QuietBefore
<1>3. count.queued \in Nat /\ count.done \in Nat /\ count.dropped \in Int
  BY <1>0 DEF Counts
<1>4. CASE AddDefer(t)
  <2>1. PICK c \in Contents : deferred' = Append(deferred, c) /\ count' = [Started EXCEPT !.queued = @ + 1] /\ op' = op
    BY <1>4 DEF AddDefer
  <2>2. Len(deferred') = Len(deferred) + 1
    BY <1>0, <2>1
  <2>3. count'.queued = count.queued + 1 /\ count'.done = count.done /\ count'.dropped = count.dropped
    <3>1. Started \in Counts
      BY StartsCount DEF DeferInv
    <3> QED BY <1>2, <2>1, <3>1 DEF Counts
  <2>4. count'.queued + Len(deferred) + Load(op[t]) + count.done + count.dropped
           = count.queued + Len(deferred') + Load(op'[t]) + count'.done + count'.dropped
    BY <1>0, <1>2, <1>3, <2>1, <2>2, <2>3
  <2>5. PathOK(op'[t]) /\ \A u \in Threads \ {t} : Alike(op'[u], op[u])
    BY <1>0, <2>1
  <2> QED BY <2>4, <2>5, AccountMoves
<1>5. CASE ProcessDeferred(t)
  <2>1. PICK w : w = [Quiet EXCEPT !.pc = "dedup", !.kind = "deferred", !.todo = deferred]
    OBVIOUS
  <2>2. op' = [op EXCEPT ![t] = w] /\ deferred' = <<>> /\ count' = Started
    BY <1>5, <2>1 DEF ProcessDeferred
  <2>3. op'[t] = w /\ (\A u \in Threads \ {t} : op'[u] = op[u]) /\ Len(deferred') = 0
    BY <1>0, <2>2
  <2>4. w.pc = "dedup" /\ w.kind = "deferred" /\ w.todo = deferred
    BY <2>1 DEF Quiet
  <2>5. PathOK(w) /\ Load(w) = Len(deferred)
    BY <2>4 DEF PathOK, Load
  <2>6. count'.queued + Len(deferred) + Load(op[t]) + count.done + count.dropped
           = count.queued + Len(deferred') + Load(op'[t]) + count'.done + count'.dropped
    BY <1>0, <1>2, <1>3, <2>2, <2>3, <2>5
  <2>7. PathOK(op'[t]) /\ \A u \in Threads \ {t} : Alike(op'[u], op[u])
    BY <1>0, <2>3, <2>5
  <2> QED BY <2>6, <2>7, AccountMoves
<1>6. CASE AddKnown(t) \/ AddUnknown(t) \/ AddBatch(t) \/ DeleteTrace(t)
  <2>1. PICK w : /\ op' = [op EXCEPT ![t] = w] /\ w.kind \in {"known", "add", "batch", "delete"}
    <3>1. ASSUME AddKnown(t) PROVE \E w : op' = [op EXCEPT ![t] = w] /\ w.kind \in {"known", "add", "batch", "delete"}
      <4>1. PICK c \in Contents, i \in Live : op' = [op EXCEPT ![t] = [Quiet EXCEPT !.pc = "draw", !.kind = "known", !.todo = <<c>>, !.id = i]]
        BY <3>1 DEF AddKnown, HashHits
      <4>2. PICK w : w = [Quiet EXCEPT !.pc = "draw", !.kind = "known", !.todo = <<c>>, !.id = i]
        OBVIOUS
      <4>3. w.kind = "known"
        BY <4>2 DEF Quiet
      <4> QED BY <4>1, <4>2, <4>3
    <3>2. ASSUME AddUnknown(t) PROVE \E w : op' = [op EXCEPT ![t] = w] /\ w.kind \in {"known", "add", "batch", "delete"}
      <4>1. PICK c \in Contents : op' = [op EXCEPT ![t] = [Quiet EXCEPT !.pc = "dedup", !.kind = "add", !.todo = <<c>>]]
        BY <3>2 DEF AddUnknown
      <4>2. PICK w : w = [Quiet EXCEPT !.pc = "dedup", !.kind = "add", !.todo = <<c>>]
        OBVIOUS
      <4>3. w.kind = "add"
        BY <4>2 DEF Quiet
      <4> QED BY <4>1, <4>2, <4>3
    <3>3. ASSUME AddBatch(t) PROVE \E w : op' = [op EXCEPT ![t] = w] /\ w.kind \in {"known", "add", "batch", "delete"}
      <4>1. PICK b \in Batches : op' = [op EXCEPT ![t] = [Quiet EXCEPT !.pc = "dedup", !.kind = "batch", !.todo = b]]
        BY <3>3 DEF AddBatch
      <4>2. PICK w : w = [Quiet EXCEPT !.pc = "dedup", !.kind = "batch", !.todo = b]
        OBVIOUS
      <4>3. w.kind = "batch"
        BY <4>2 DEF Quiet
      <4> QED BY <4>1, <4>2, <4>3
    <3>4. ASSUME DeleteTrace(t) PROVE \E w : op' = [op EXCEPT ![t] = w] /\ w.kind \in {"known", "add", "batch", "delete"}
      <4>1. PICK i \in Live : op' = [op EXCEPT ![t] = [Quiet EXCEPT !.pc = "bury", !.kind = "delete", !.id = i]]
        BY <3>4 DEF DeleteTrace
      <4>2. PICK w : w = [Quiet EXCEPT !.pc = "bury", !.kind = "delete", !.id = i]
        OBVIOUS
      <4>3. w.kind = "delete"
        BY <4>2 DEF Quiet
      <4> QED BY <4>1, <4>2, <4>3
    <3> QED BY <1>6, <3>1, <3>2, <3>3, <3>4
  <2>2. op'[t] = w /\ (\A u \in Threads \ {t} : op'[u] = op[u]) /\ PathOK(w) /\ Load(w) = 0
    BY <1>0, <2>1 DEF PathOK, Load
  <2>3. /\ deferred' = deferred /\ count'.queued = count.queued /\ count'.done = count.done
        /\ count'.dropped = count.dropped
    <3>1. count' = Started \/ \E n : count' = [count EXCEPT !.ops = n]
      BY <1>6 DEF AddKnown, AddUnknown, AddBatch, DeleteTrace
    <3>2. deferred' = deferred
      BY <1>6 DEF AddKnown, AddUnknown, AddBatch, DeleteTrace
    <3> QED BY <1>0, <1>2, <3>1, <3>2 DEF Counts
  <2> QED BY <1>0, <1>2, <2>2, <2>3, AccountKeeps
<1>7. CASE UpdateTrace(t) \/ UpdateImportance(t) \/ DeleteAllTraces(t) \/ Consolidate(t)
  <2>1. deferred' = deferred /\ count' = Started
    BY <1>7 DEF UpdateTrace, UpdateImportance, DeleteAllTraces, Consolidate
  <2>2. op'[t] = op[t] /\ \A u \in Threads \ {t} : Alike(op'[u], op[u])
    <3>1. CASE op' = op
      BY <1>0, <3>1
    <3>2. ASSUME NEW c \in Contents, op' = Meet(op, t, c)
          PROVE  op'[t] = op[t] /\ \A u \in Threads \ {t} : Alike(op'[u], op[u])
      <4>1. PICK m : m = Meet(op, t, c)
        OBVIOUS
      <4> QED BY <1>0, <3>2, <4>1, MeetMarksOthers
    <3> QED BY <1>7, <3>1, <3>2 DEF UpdateTrace, UpdateImportance, DeleteAllTraces, Consolidate
  <2> QED BY <1>0, <1>2, <2>1, <2>2, AccountKeeps
<1> QED BY <1>4, <1>5, <1>6, <1>7

--------------------------------------------------------------------------------
\* An item is done, and the others go on.
LEMMA DoneItemsAccount ==
    ASSUME DeferInv, FeedTypeOK', NEW t \in Threads, op[t].pc \in Working, NEW o \in [Threads -> Op],
           \A u \in Threads \ {t} : Alike(o[u], op[u]), NEW c \in Counts, NextItem(t, o, c), deferred' = deferred,
           c.queued = count.queued, c.done = count.done, c.dropped = count.dropped
    PROVE  DeferInv'
<1>1. /\ PathOK(op'[t]) /\ \A u \in Threads \ {t} : op'[u] = o[u]
      /\ count'.queued = c.queued /\ count'.dropped = c.dropped
      /\ Load(op'[t]) + count'.done = Load(op[t]) + c.done
  BY ItemIsDone DEF DeferInv
<1>2. \A u \in Threads \ {t} : Alike(op'[u], op[u])
  BY <1>1
<1>3. Load(op'[t]) \in Nat /\ Load(op[t]) \in Nat /\ Len(deferred) \in Nat
  BY SMTT(30) DEF DeferInv, FeedTypeOK, HandsOK, Op, Load
<1>4. /\ count.queued \in Nat /\ count.done \in Nat /\ count.dropped \in Int /\ count'.done \in Nat
  BY DEF DeferInv, FeedTypeOK, Counts
<1>5. PICK l \in Nat, l1 \in Nat, n \in Nat, d \in Nat, d1 \in Nat :
        l = Load(op[t]) /\ l1 = Load(op'[t]) /\ n = Len(deferred) /\ d = count.done /\ d1 = count'.done
  BY <1>3, <1>4
<1>6. l1 + d1 = l + d
  BY <1>1, <1>5
<1>7. count.queued + n + l + d + count.dropped = count.queued + n + l1 + d1 + count.dropped
  BY <1>4, <1>6
<1>8. count'.queued + Len(deferred) + Load(op[t]) + count.done + count.dropped
        = count.queued + Len(deferred') + Load(op'[t]) + count'.done + count'.dropped
  BY <1>1, <1>5, <1>7
<1> QED BY <1>1, <1>2, <1>8, AccountMoves

LEMMA DroppedItemsAccount ==
    ASSUME DeferInv, FeedTypeOK', NEW t \in Threads, op[t].pc \in Working, Abandon(t, count), deferred' = deferred
    PROVE  DeferInv'
<1>0. op \in [Threads -> Op] /\ count \in Counts
  BY DEF DeferInv, FeedTypeOK, HandsOK
<1>1. /\ PathOK(op'[t]) /\ \A u \in Threads \ {t} : op'[u] = op[u]
      /\ count'.queued = count.queued /\ count'.done = count.done
      /\ Load(op'[t]) + count'.dropped = Load(op[t]) + count.dropped
  BY <1>0, ItemIsDropped DEF DeferInv
<1>2. \A u \in Threads \ {t} : Alike(op'[u], op[u])
  BY <1>1 DEF Alike
<1>3. Load(op'[t]) \in Nat /\ Load(op[t]) \in Nat /\ Len(deferred) \in Nat
  BY DEF DeferInv, FeedTypeOK, HandsOK, Op, Load
<1>4. /\ count.queued \in Nat /\ count.done \in Nat /\ count.dropped \in Int /\ count'.dropped \in Int
  BY DEF DeferInv, FeedTypeOK, Counts
<1>5. PICK l \in Nat, l1 \in Nat, n \in Nat, d \in Int, d1 \in Int :
        l = Load(op[t]) /\ l1 = Load(op'[t]) /\ n = Len(deferred) /\ d = count.dropped /\ d1 = count'.dropped
  BY <1>3, <1>4
<1>6. PICK q \in Nat, e \in Nat : q = count.queued /\ e = count.done
  BY <1>4
<1>a. l1 + d1 = l + d
  BY <1>1, <1>5
<1>b. q + n + l + e + d = q + n + l1 + e + d1
  BY <1>a
<1>7. count.queued + n + l + count.done + d = count.queued + n + l1 + count.done + d1
  BY <1>6, <1>b
<1>8. count'.queued + Len(deferred) + Load(op[t]) + count.done + count.dropped
        = count.queued + Len(deferred') + Load(op'[t]) + count'.done + count'.dropped
  BY <1>1, <1>5, <1>7
<1> QED BY <1>1, <1>2, <1>8, AccountMoves

\* A step of the same work.
LEMMA SameWorkAccounts ==
    ASSUME DeferInv, FeedTypeOK', NEW t \in Threads, \A u \in Threads \ {t} : Alike(op'[u], op[u]),
           op'[t].kind = op[t].kind, op'[t].todo = op[t].todo, PathOK(op'[t]), deferred' = deferred,
           count'.queued = count.queued, count'.done = count.done, count'.dropped = count.dropped
    PROVE  DeferInv'
<1>1. Load(op'[t]) = Load(op[t])
  BY DEF Load
<1> QED BY <1>1, AccountKeeps

LEMMA WritesAccount ==
    ASSUME DeferInv, FeedTypeOK', NEW t \in Threads, CheckDedup(t) \/ WriteDuplicate(t) \/ WriteNew(t)
    PROVE  DeferInv'
<1>0. op \in [Threads -> Op] /\ count \in Counts /\ FeedTypeOK /\ \A u \in Threads : Alike(op[u], op[u])
  BY DEF DeferInv, FeedTypeOK, HandsOK, Alike
<1>1. op[t].pc \in Working /\ deferred' = deferred
  BY DEF CheckDedup, WriteDuplicate, WriteNew, Working
<1>2. CASE CheckDedup(t)
  <2>1. PICK hit : op' = [op EXCEPT ![t] = [@ EXCEPT !.pc = "write", !.hit = hit]]
    BY <1>2 DEF CheckDedup
  <2>a. PICK p \in Op : p = op[t]
    BY <1>0
  <2>2. PICK w : w = [p EXCEPT !.pc = "write", !.hit = hit]
    OBVIOUS
  <2>b. w = OpOf("write", p.kind, p.todo, hit, p.id, p.draw, p.met)
    BY <2>a, <2>2, OpLooks
  <2>3. w.pc = "write" /\ w.kind = p.kind /\ w.todo = p.todo
    BY <2>b DEF OpOf
  <2>4. op' = [op EXCEPT ![t] = w]
    BY <2>1, <2>a, <2>2
  <2>5. op'[t] = w /\ \A u \in Threads \ {t} : op'[u] = op[u]
    BY <1>0, <2>4
  <2>6. count' = count
    BY <1>2 DEF CheckDedup
  <2>7. PathOK(op'[t])
    BY <2>3, <2>5 DEF PathOK
  <2> QED BY <1>0, <1>1, <2>a, <2>3, <2>5, <2>6, <2>7, SameWorkAccounts
\* The others may be told; t is done with its item, or goes on with its row.
<1>3. ASSUME NEW c \in Contents, op[t].kind = "deferred", NextItem(t, Meet(op, t, c), count)
      PROVE  DeferInv'
  <2>1. PICK o : o = Meet(op, t, c)
    OBVIOUS
  <2>2. o \in [Threads -> Op] /\ \A u \in Threads : Alike(o[u], op[u])
    BY <1>0, <2>1, MeetMarksOthers
  <2>3. NextItem(t, o, count)
    BY <1>3, <2>1
  <2> QED BY <1>0, <1>1, <2>2, <2>3, DoneItemsAccount
<1>4. ASSUME NEW c \in Contents, NEW w \in Op, w.kind = op[t].kind, w.todo = op[t].todo, op[t].kind # "deferred",
             op' = Meet([op EXCEPT ![t] = w], t, c), count' = count
      PROVE  DeferInv'
  <2>1. PICK o : o = [op EXCEPT ![t] = w]
    OBVIOUS
  <2>2. o \in [Threads -> Op] /\ o[t] = w /\ \A u \in Threads \ {t} : o[u] = op[u]
    BY <1>0, <2>1
  <2>3. PICK m : m = Meet(o, t, c)
    OBVIOUS
  <2>4. m[t] = o[t] /\ \A u \in Threads : Alike(m[u], o[u])
    BY <2>2, <2>3, MeetMarksOthers
  <2>5. op' = m
    BY <1>4, <2>1, <2>3
  <2>6. op'[t] = w /\ \A u \in Threads \ {t} : Alike(op'[u], op[u])
    BY <2>2, <2>4, <2>5
  <2>7. PathOK(op'[t])
    BY <1>4, <2>6 DEF PathOK
  <2> QED BY <1>1, <1>4, <2>6, <2>7, SameWorkAccounts
<1>5. PICK c \in Contents : c = Item(t)
  BY <1>0, <1>1, ItemIsContent
<1>6. PICK p \in Op : p = op[t]
  BY <1>0
<1>7. CASE WriteDuplicate(t)
  <2>1. CASE op[t].hit \notin Live \/ (op[t].hit \in Live /\ mem[op[t].hit].locked)
    <3>1. Abandon(t, count)
      BY <1>7, <2>1 DEF WriteDuplicate
    <3> QED BY <1>1, <3>1, DroppedItemsAccount
  <2>2. CASE ~(op[t].hit \notin Live \/ (op[t].hit \in Live /\ mem[op[t].hit].locked))
    <3>1. PICK i : i = op[t].hit
      OBVIOUS
    <3>2. IF op[t].kind = "deferred"
          THEN NextItem(t, Meet(op, t, c), count)
          ELSE /\ op' = Meet([op EXCEPT ![t] = [@ EXCEPT !.pc = "draw", !.id = i, !.hit = None, !.met = FALSE]], t, c)
               /\ UNCHANGED count
      BY <1>5, <1>7, <2>2, <3>1 DEF WriteDuplicate
    <3>3. CASE op[t].kind = "deferred"
      BY <1>3, <3>2, <3>3
    <3>4. CASE op[t].kind # "deferred"
      <4>1. PICK w : w = [p EXCEPT !.pc = "draw", !.id = i, !.hit = None, !.met = FALSE]
        OBVIOUS
      <4>2. op' = Meet([op EXCEPT ![t] = w], t, c) /\ count' = count
        BY <1>6, <3>2, <3>4, <4>1
      <4>3. w = OpOf("draw", p.kind, p.todo, None, i, p.draw, FALSE)
        BY <4>1, OpUpdates
      <4>4. i \in Nat
        <5>1. i \in Live /\ Live \subseteq 1..last /\ last \in Nat
          BY <1>0, <2>2, <3>1 DEF FeedTypeOK
        <5> QED BY <5>1
      <4>5. w \in Op /\ w.kind = p.kind /\ w.todo = p.todo
        BY <4>3, <4>4 DEF Op, OpOf, Working
      <4> QED BY <1>4, <1>6, <3>4, <4>2, <4>5
    <3> QED BY <3>3, <3>4
  <2> QED BY <2>1, <2>2
<1>8. CASE WriteNew(t)
  <2>1. PICK i : i = last + 1
    OBVIOUS
  <2>2. IF op[t].kind = "deferred"
        THEN NextItem(t, Meet(op, t, c), count)
        ELSE /\ op' = Meet([op EXCEPT ![t] = [@ EXCEPT !.pc = "draw", !.id = i, !.met = FALSE]], t, c)
             /\ UNCHANGED count
    BY <1>5, <1>8, <2>1 DEF WriteNew
  <2>3. CASE op[t].kind = "deferred"
    BY <1>3, <2>2, <2>3
  <2>4. CASE op[t].kind # "deferred"
    <3>1. PICK w : w = [p EXCEPT !.pc = "draw", !.id = i, !.met = FALSE]
      OBVIOUS
    <3>2. op' = Meet([op EXCEPT ![t] = w], t, c) /\ count' = count
      BY <1>6, <2>2, <2>4, <3>1
    <3>3. w = OpOf("draw", p.kind, p.todo, p.hit, i, p.draw, FALSE)
      BY <3>1, OpInserts
    <3>4. i \in Nat
      BY <1>0, <2>1 DEF FeedTypeOK
    <3>5. w \in Op /\ w.kind = p.kind /\ w.todo = p.todo
      BY <3>3, <3>4 DEF Op, OpOf, Working
    <3> QED BY <1>4, <1>6, <2>4, <3>2, <3>5
  <2> QED BY <2>3, <2>4
<1> QED BY <1>2, <1>7, <1>8

LEMMA BumpsAccount ==
    ASSUME DeferInv, FeedTypeOK', NEW t \in Threads, BumpDraw(t) \/ BumpWrite(t) \/ AddFinish(t) \/ RecordDelete(t)
    PROVE  DeferInv'
<1>0. op \in [Threads -> Op] /\ count \in Counts /\ FeedTypeOK /\ \A u \in Threads : Alike(op[u], op[u])
  BY DEF DeferInv, FeedTypeOK, HandsOK, Alike
<1>1. deferred' = deferred /\ op[t].pc \in {"draw", "bump", "finish", "bury"}
  BY DEF BumpDraw, BumpWrite, AddFinish, RecordDelete
<1>2. op[t].kind # "deferred" /\ Load(op[t]) = 0
  BY <1>1 DEF DeferInv, PathOK, Load
<1>3. PICK p \in Op : p = op[t]
  BY <1>0
<1>4. Spend(count).queued = count.queued /\ Spend(count).done = count.done /\ Spend(count).dropped = count.dropped
  BY <1>0 DEF Counts, Spend
\* The thread goes on as it is, or with nothing.
<1>5. ASSUME NEW w, w.kind = p.kind \/ w.kind = "none", op' = [op EXCEPT ![t] = w],
             count'.queued = count.queued, count'.done = count.done, count'.dropped = count.dropped
      PROVE  DeferInv'
  <2>1. op'[t] = w /\ \A u \in Threads \ {t} : op'[u] = op[u]
    BY <1>0, <1>5
  <2>2. w.kind # "deferred"
    BY <1>2, <1>3, <1>5
  <2>3. Load(op'[t]) = Load(op[t]) /\ PathOK(op'[t])
    BY <1>2, <2>1, <2>2 DEF Load, PathOK
  <2> QED BY <1>0, <1>1, <1>5, <2>1, <2>3, AccountKeeps
<1>6. Quiet.kind = "none"
  BY DEF Quiet
<1>7. ASSUME op[t].pc \in Working, NEW c \in Counts, NextItem(t, op, c),
             c.queued = count.queued, c.done = count.done, c.dropped = count.dropped
      PROVE  DeferInv'
  <2>1. PICK o : o = op
    OBVIOUS
  <2> QED BY <1>0, <1>1, <1>7, <2>1, DoneItemsAccount
<1>8. ASSUME op[t].pc \in Working, NEW c \in Counts, AfterBump(t, c),
             c.queued = count.queued, c.done = count.done, c.dropped = count.dropped
      PROVE  DeferInv'
  <2>1. CASE op[t].kind = "add" /\ op[t].hit = 0
    <3>1. PICK w : w = [p EXCEPT !.pc = "finish"]
      OBVIOUS
    <3>2. op' = [op EXCEPT ![t] = w] /\ count' = c
      BY <1>3, <1>8, <2>1, <3>1 DEF AfterBump
    <3>3. w = OpOf("finish", p.kind, p.todo, p.hit, p.id, p.draw, p.met)
      BY <1>3, <3>1, OpFinishes
    <3>4. w.kind = p.kind
      BY <3>3 DEF OpOf
    <3> QED BY <1>5, <1>8, <3>2, <3>4
  <2>2. CASE ~(op[t].kind = "add" /\ op[t].hit = 0)
    <3>1. NextItem(t, op, c)
      BY <1>8, <2>2 DEF AfterBump
    <3> QED BY <1>7, <1>8, <3>1
  <2> QED BY <2>1, <2>2
<1>9. CASE BumpDraw(t)
  <2>1. CASE op' = [op EXCEPT ![t] = [@ EXCEPT !.pc = "bump", !.draw = MaxVersion + 1]] /\ UNCHANGED <<slipped, count>>
    <3>1. PICK d : d = MaxVersion + 1
      OBVIOUS
    <3>2. PICK w : w = [p EXCEPT !.pc = "bump", !.draw = d]
      OBVIOUS
    <3>3. op' = [op EXCEPT ![t] = w] /\ count' = count
      BY <1>3, <2>1, <3>1, <3>2
    <3>4. w = OpOf("bump", p.kind, p.todo, p.hit, p.id, d, p.met)
      BY <1>3, <3>2, OpBumps
    <3>5. w.kind = p.kind
      BY <3>4 DEF OpOf
    <3> QED BY <1>5, <3>3, <3>5
  <2>2. CASE op' = [op EXCEPT ![t] = Quiet] /\ count' = Spend(count)
    BY <1>4, <1>5, <1>6, <2>2
  <2>3. CASE AfterBump(t, Spend(count))
    <3>1. Spend(count) \in Counts /\ op[t].pc \in Working
      BY <1>0, <1>9, StartsCount DEF BumpDraw, Working
    <3> QED BY <1>4, <1>8, <2>3, <3>1
  <2> QED BY <1>9, <2>1, <2>2, <2>3 DEF BumpDraw
<1>10. CASE BumpWrite(t)
  <2>1. PICK c : /\ c = IF op[t].id \in Live THEN [count EXCEPT !.highest = Max({@, op[t].draw})] ELSE count
                 /\ AfterBump(t, c)
    BY <1>10 DEF BumpWrite
  <2>2. op[t].pc \in Working
    BY <1>10 DEF BumpWrite, Working
  <2>3. CASE op[t].id \notin Live
    BY <1>0, <1>8, <2>1, <2>2, <2>3
  <2>4. CASE op[t].id \in Live
    <3>1. PICK h : h = Max({count.highest, op[t].draw})
      OBVIOUS
    <3>2. c = [count EXCEPT !.highest = h]
      BY <2>1, <2>4, <3>1
    <3>3. h \in Nat
      <4>1. count.highest \in Nat /\ op[t].draw \in Nat
        BY <1>0, OpFields, StartsCount
      <4>2. Max({count.highest, op[t].draw}) \in Nat
        BY <4>1, LaterOfTwo
      <4> QED BY <3>1, <4>2
    <3>4. c \in Counts /\ c.queued = count.queued /\ c.done = count.done /\ c.dropped = count.dropped
      BY <1>0, <3>2, <3>3 DEF Counts
    <3> QED BY <1>8, <2>1, <2>2, <3>4
  <2> QED BY <2>3, <2>4
<1>11. CASE AddFinish(t)
  <2>1. NextItem(t, op, count) /\ op[t].pc \in Working
    BY <1>11 DEF AddFinish, Working
  <2> QED BY <1>0, <1>7, <2>1
<1>12. CASE RecordDelete(t)
  <2>1. op' = [op EXCEPT ![t] = Quiet] /\ (count' = count \/ count' = Spend(count))
    BY <1>12 DEF RecordDelete
  <2> QED BY <1>4, <1>5, <1>6, <2>1
<1> QED BY <1>9, <1>10, <1>11, <1>12

\* No thread has a deferred item: at the start, and after a crash.
LEMMA NothingIsHeld ==
    ASSUME NEW o, o = [t \in Threads |-> Quiet]
    PROVE  /\ \A t \in Threads : PathOK(o[t]) /\ Load(o[t]) = 0
           /\ Total([t \in Threads |-> Load(o[t])], Threads) = 0
<1>1. PICK w : w = Quiet
  OBVIOUS
<1>6. w.kind = "none"
  BY <1>1 DEF Quiet
<1>2. \A t \in Threads : o[t] = w
  BY <1>1
<1>3. \A t \in Threads : PathOK(o[t]) /\ Load(o[t]) = 0
  BY <1>6, <1>2 DEF PathOK, Load
<1>4. [t \in Threads |-> Load(o[t])] = [t \in Threads |-> 0]
  BY <1>3
<1>5. Total([t \in Threads |-> 0], Threads) = 0
  BY FeedAssumption, TotalOfNone
<1> QED BY <1>3, <1>4, <1>5

LEMMA OthersAccount ==
    ASSUME DeferInv, FeedTypeOK',
           Crash \/ Tick \/ ReadChanges \/ ReadTombstones \/ ReadMaxVersion \/ UNCHANGED feedVars
    PROVE  DeferInv'
<1>1. count \in Counts /\ deferred \in Seq(Contents) /\ \A u \in Threads : PathOK(op[u])
  BY DEF DeferInv, FeedTypeOK
<1>2. CASE Crash
  <2>1. /\ op' = [t \in Threads |-> Quiet] /\ deferred' = <<>>
        /\ count' = [Spend(count) EXCEPT !.dropped = count.queued - count.done]
    BY <1>2 DEF Crash
  <2>2. PICK o : o = op'
    OBVIOUS
  <2>3. (\A u \in Threads : PathOK(op'[u])) /\ Loads' = [u \in Threads |-> Load(o[u])]
    BY <2>1, <2>2, NothingIsHeld DEF Loads
  <2>4. Total(Loads', Threads) = 0
    BY <2>1, <2>2, <2>3, NothingIsHeld
  <2>5. count'.queued = count.queued /\ count'.done = count.done /\ count'.dropped = count.queued - count.done
    BY <1>1, <2>1 DEF Counts, Spend
  <2>6. count.queued \in Nat /\ count.done \in Nat /\ Len(deferred') = 0
    BY <1>1, <2>1 DEF Counts
  <2>7. PICK q \in Nat, d \in Nat : q = count.queued /\ d = count.done
    BY <2>6
  <2>8. q = 0 + 0 + d + (q - d)
    BY <2>7
  <2>9. count'.queued = Len(deferred') + Total(Loads', Threads) + count'.done + count'.dropped
    BY <2>4, <2>5, <2>6, <2>7, <2>8
  <2> QED BY <2>3, <2>9 DEF DeferInv
<1>3. CASE Tick \/ ReadChanges \/ ReadTombstones \/ ReadMaxVersion \/ UNCHANGED feedVars
  <2>1. op' = op /\ deferred' = deferred
    BY <1>3 DEF Tick, ReadChanges, ReadTombstones, ReadMaxVersion, feedVars
  <2>2. count' = count \/ count' = [count EXCEPT !.polls = @ + 1]
    BY <1>3 DEF Tick, ReadChanges, ReadTombstones, ReadMaxVersion, feedVars
  <2>3. count'.queued = count.queued /\ count'.done = count.done /\ count'.dropped = count.dropped
    BY <1>1, <2>2 DEF Counts
  <2>4. Loads' = Loads
    BY <2>1 DEF Loads
  <2> QED BY <1>1, <2>1, <2>3, <2>4 DEF DeferInv
<1> QED BY <1>2, <1>3

LEMMA AccountIsKept ==
    ASSUME DeferInv, StampsAreSound, [FeedNext]_feedVars
    PROVE  DeferInv' /\ StampsAreSound'
<1>1. FeedTypeOK' /\ StampsAreSound'
  BY StepsAreSound DEF DeferInv
<1>2. ASSUME NEW t \in Threads,
             \/ AddDefer(t) \/ AddKnown(t) \/ AddUnknown(t) \/ AddBatch(t) \/ ProcessDeferred(t)
             \/ UpdateTrace(t) \/ UpdateImportance(t) \/ DeleteTrace(t) \/ DeleteAllTraces(t) \/ Consolidate(t)
      PROVE  DeferInv'
  BY <1>1, <1>2, BeginningsAccount
<1>3. ASSUME NEW t \in Threads,
             \/ CheckDedup(t) \/ WriteDuplicate(t) \/ WriteNew(t)
             \/ BumpDraw(t) \/ BumpWrite(t) \/ AddFinish(t) \/ RecordDelete(t)
      PROVE  DeferInv'
  BY <1>1, <1>3, WritesAccount, BumpsAccount
<1>4. CASE Crash \/ Tick \/ ReadChanges \/ ReadTombstones \/ ReadMaxVersion \/ UNCHANGED feedVars
  BY <1>1, <1>4, OthersAccount
<1> QED BY <1>1, <1>2, <1>3, <1>4 DEF FeedNext

LEMMA AccountStarts ==
    ASSUME FeedInit
    PROVE  DeferInv /\ StampsAreSound
<1>1. FeedTypeOK /\ StampsAreSound
  BY FeedStarts
<1>2. PICK o : o = op
  OBVIOUS
<1>3. o = [t \in Threads |-> Quiet] /\ deferred = <<>>
  BY <1>2 DEF FeedInit
<1>4. Loads = [t \in Threads |-> Load(o[t])]
  BY <1>2 DEF Loads
<1>5. Total(Loads, Threads) = 0 /\ \A t \in Threads : PathOK(op[t])
  BY <1>2, <1>3, <1>4, NothingIsHeld
<1>6. Len(deferred) = 0
  BY <1>3
<1>7. count.queued = 0 /\ count.done = 0 /\ count.dropped = 0
  BY DEF FeedInit
<1> QED BY <1>1, <1>5, <1>6, <1>7 DEF DeferInv

LEMMA LoadsAddUp ==
    ASSUME FeedTypeOK
    PROVE  MapThenSumSet(Held, Threads) = Total(Loads, Threads)
<1>0. IsFiniteSet(Threads) /\ \A t \in Threads : Load(op[t]) \in Nat /\ Held(t) = Load(op[t])
  BY FeedAssumption DEF FeedTypeOK, HandsOK, Op, Load, Held
<1>a. Loads \in [Threads -> Nat] /\ \A t \in Threads : Loads[t] = Held(t)
  BY <1>0 DEF Loads
<1>1. PICK f : f \in [Threads -> Nat] /\ f = Loads /\ \A t \in Threads : f[t] = Held(t)
  BY <1>a
<1>2. PICK g \in [SUBSET Threads -> Nat] : SumsUp(g, f, Threads) /\ Total(f, Threads) = g[Threads]
  BY <1>0, <1>1, TotalSumsUp
<1> DEFINE Sums(h) == h = [s \in SUBSET Threads |->
                             IF s = {} THEN 0 ELSE Held(CHOOSE x \in s : TRUE) + h[s \ {CHOOSE x \in s : TRUE}]]
<1>3. ASSUME NEW h PROVE Sums(h) <=> SumsUp(h, f, Threads)
  <2>1. \A s \in SUBSET Threads : s # {} => f[CHOOSE x \in s : TRUE] = Held(CHOOSE x \in s : TRUE)
    BY <1>1
  <2>2. [s \in SUBSET Threads |->
            IF s = {} THEN 0 ELSE Held(CHOOSE x \in s : TRUE) + h[s \ {CHOOSE x \in s : TRUE}]]
        = [s \in SUBSET Threads |->
            IF s = {} THEN 0 ELSE f[CHOOSE x \in s : TRUE] + h[s \ {CHOOSE x \in s : TRUE}]]
    BY <2>1
  <2> QED BY <2>2 DEF SumsUp, Chosen
<1>4. PICK h : h = (CHOOSE k : Sums(k)) /\ Sums(h)
  <2> HIDE DEF Sums
  <2>1. Sums(g)
    BY <1>2, <1>3
  <2> QED BY <2>1
<1>5. MapThenSumSet(Held, Threads) = h[Threads]
  BY <1>4 DEF MapThenSumSet, MapThenFoldSet
<1>6. h[Threads] = g[Threads]
  <2> HIDE DEF Sums
  <2> QED BY <1>0, <1>2, <1>3, <1>4, SumIsUnique
<1> QED BY <1>1, <1>2, <1>5, <1>6

\* For any threads that add, defer, process and delete, whatever fails and whenever the process dies: each add that
\* was deferred on low battery (add, deferred_ops) waits in the queue, is in the hands of one process_deferred, or
\* was stored, refused or lost with the process, once.
THEOREM DeferredAreCountedOnce == FeedSpec => []DeferredAccounted
<1>1. FeedInit => DeferInv /\ StampsAreSound
  BY AccountStarts
<1>2. (DeferInv /\ StampsAreSound) /\ [FeedNext]_feedVars => (DeferInv /\ StampsAreSound)'
  BY AccountIsKept
<1>3. DeferInv => DeferredAccounted
  BY LoadsAddUp DEF DeferInv, DeferredAccounted
<1> QED BY <1>1, <1>2, <1>3, PTL DEF FeedSpec
================================================================================
