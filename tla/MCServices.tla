------------------------------- MODULE MCServices -------------------------------
(* The services around the store and the algorithms it calls, on small instances and in    *)
(* one run: a behaviour is one of a single module, under the fairness of that module, and   *)
(* what the others keep stays as it is in one of their initial states.  What must end is     *)
(* checked here.                                                                            *)
EXTENDS MCSessionPipeline, Restore, Meditation, Generation, Embedding, Server, FrontEnds, Robots

CONSTANTS d1, d2, mine, foreign, c1, c2, i1, i2, ka, kb, ea, eb, caller1, ep1, ep2, ann, bob, g1, g2

VARIABLE part   \* the module that moves

MCMentions == [e \in Episodes |-> IF e = ep1 THEN <<ann, bob>> ELSE <<bob>>]
MCSettings == {[key |-> ka, endpoint |-> ea], [key |-> kb, endpoint |-> eb]}

\* How calls end does not depend on the rows.
MCStock == [memories |-> {}, sessions |-> {}, profile |-> {}]

lifeVars == <<vars, restoreVars, medVars>>
callVars == <<genVars, embedVars, serverVars>>
edgeVars == <<frontVars, robotVars>>
servicesVars == <<part, lifeVars, callVars, edgeVars>>

ServicesInit ==
    /\ part \in {"sessions", "restore", "meditation", "generation", "embedding", "server", "front", "robots"}
    /\ part = "generation" \/ provider = "openai"
    /\ part = "embedding" \/ inRuntime = TRUE
    /\ part = "server" \/ given = Unset
    /\ part = "front" \/ (frontEnd = "mcp" /\ group = "memories")
    /\ part = "robots" \/ adapter = "wrapper"
    /\ Init /\ RestoreInit /\ MedInit /\ GenInit /\ EmbedInit /\ ServerInit /\ FrontInit /\ RobotInit

ServicesNext ==
    \/ part = "sessions" /\ Next /\ UNCHANGED <<part, restoreVars, medVars, callVars, edgeVars>>
    \/ part = "restore" /\ RestoreNext /\ UNCHANGED <<part, vars, medVars, callVars, edgeVars>>
    \/ part = "meditation" /\ MedNext /\ UNCHANGED <<part, vars, restoreVars, callVars, edgeVars>>
    \/ part = "generation" /\ GenNext /\ UNCHANGED <<part, lifeVars, embedVars, serverVars, edgeVars>>
    \/ part = "embedding" /\ EmbedNext /\ UNCHANGED <<part, lifeVars, genVars, serverVars, edgeVars>>
    \/ part = "server" /\ ServerNext /\ UNCHANGED <<part, lifeVars, genVars, embedVars, edgeVars>>
    \/ part = "front" /\ FrontNext /\ UNCHANGED <<part, lifeVars, callVars, robotVars>>
    \/ part = "robots" /\ RobotNext /\ UNCHANGED <<part, lifeVars, callVars, frontVars>>

ServicesSpec ==
    /\ ServicesInit /\ [][ServicesNext]_servicesVars
    /\ \A w \in Workers : WF_vars(part = "sessions" /\ (AppendStep(w) \/ CompactStep(w)))
    /\ WF_restoreVars(part = "restore" /\ (Boot \/ Drain \/ Drained \/ RestoreStep))
    /\ \A c \in Clients : WF_restoreVars(part = "restore" /\ BackupPublish(c))
    /\ \A c \in Callers : WF_medVars(part = "meditation" /\ MedStep(c))
    /\ \A g \in Guests : WF_frontVars(part = "front" /\ CallMoves(g))
================================================================================
