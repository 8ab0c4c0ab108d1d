-------------------------------- MODULE MCMemory --------------------------------
(* The modules about what is stored and found, on small instances and in one run: a behaviour is one *)
(* of a single module, and what the others keep stays as it is in one of their initial      *)
(* states.                                                                                 *)
EXTENDS MemoryFeed, Portability, Meditation, Indexes, Recall, TLC

CONSTANTS t1, t2, home, office, hut, storeA, storeB, u1, u2, s1, e1, c1, c2, ep1, ep2, ann, bob, r1, r2,
          q1, q2, ma, mb

VARIABLE part   \* the module that moves

MCBatches == {<<hut, office>>}
MCNear == {<<home, hut>>}
MCCorrects == {<<home, office>>, <<office, home>>}
MCMentions == [e \in Episodes |-> IF e = ep1 THEN <<ann, ann>> ELSE <<bob>>]
MCColumns == {"agent_id", "run_id"}

\* The two threads of each module, and its two users, are alike.  As one module moves at a time, they change places
\* together.
Twin == (t1 :> t2) @@ (t2 :> t1) @@ (u1 :> u2) @@ (u2 :> u1) @@ (c1 :> c2) @@ (c2 :> c1)
            @@ (r1 :> r2) @@ (r2 :> r1) @@ (q1 :> q2) @@ (q2 :> q1)
MCAlike == {[x \in DOMAIN Twin |-> IF swap THEN Twin[x] ELSE x] : swap \in BOOLEAN}

\* Of the modules with several initial states, the ones that do not move stay in one of them.
MemoryInit ==
    /\ part \in {"feed", "port", "meditation", "indexes", "recall"}
    /\ FeedInit /\ PortInit /\ MedInit
    /\ IndexInit
    /\ part = "indexes" \/ (columns = {} /\ config.version = "none" /\ ~words["events"].there
                              /\ \A t \in Tables, id \in RowIds : source[t][id] = 0)
    /\ part = "recall" \/ (/\ misses = [x \in Memories |-> {}] /\ channels = {}
                            /\ state = [x \in Memories |-> "active"])
    /\ RecallInit

memoryVars == <<part, feedVars, portVars, medVars, indexVars, recallVars>>

MemoryNext ==
    \/ part = "feed" /\ FeedNext /\ UNCHANGED <<part, portVars, medVars, indexVars, recallVars>>
    \/ part = "port" /\ PortNext /\ UNCHANGED <<part, feedVars, medVars, indexVars, recallVars>>
    \/ part = "meditation" /\ MedNext /\ UNCHANGED <<part, feedVars, portVars, indexVars, recallVars>>
    \/ part = "indexes" /\ IndexNext /\ UNCHANGED <<part, feedVars, portVars, medVars, recallVars>>
    \/ part = "recall" /\ RecallNext /\ UNCHANGED <<part, feedVars, portVars, medVars, indexVars>>

MemorySpec == MemoryInit /\ [][MemoryNext]_memoryVars
================================================================================
