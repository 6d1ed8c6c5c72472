----------------------------- MODULE MCBackend -----------------------------
(* The parts of the collector around the processor, in scenarios that     *)
(* share no state: in "streams" Edges share a channel of the Collector, in *)
(* "rows" it stops among rows and requests; "resolver" is DockerResolver,  *)
(* "store" is Store, which shows how the flushes of the Collector work,    *)
(* and "agent" is ResourceAgent.                                           *)
EXTENDS Collector, DockerResolver, Store, ResourceAgent

VARIABLE scenario

backendVars == <<collectorVars, resolverVars, vars, agentVars, scenario>>

MCKindOf   == <<"event", "event", "resource">>
MCMaxItems == <<2, 1, 1>>

\* "streams": no rows but the final one, no requests, and no resources.
\* "rows": one Edge, which sends a resource snapshot.
ScenarioAllows ==
    \/ /\ scenario = "streams"
       /\ client'[3] = "new" /\ ~query' /\ (rows' # rows => proc' # proc)
    \/ /\ scenario = "rows"
       /\ client'[1] = "new" /\ client'[2] = "new"

Limited(A) ==
    /\ scenario \in {"streams", "rows"} /\ A /\ ScenarioAllows
    /\ UNCHANGED <<resolverVars, vars, agentVars, scenario>>

OfStore(A) ==
    scenario = "store" /\ A /\ UNCHANGED <<collectorVars, resolverVars, agentVars, scenario>>

BackendInit ==
    /\ CollectorInit /\ ResolverInit /\ Init /\ AgentInit
    /\ scenario \in {"streams", "rows", "resolver", "store", "agent"}
    /\ scenario # "resolver" => \A c \in Containers : running[c] = NoIP

BackendNext ==
    \/ Limited(CollectorNext)
    \/ /\ scenario = "resolver" /\ ResolverNext
       /\ UNCHANGED <<collectorVars, vars, agentVars, scenario>>
    \/ OfStore(Next)
    \/ /\ scenario = "agent" /\ AgentNext
       /\ UNCHANGED <<collectorVars, resolverVars, vars, scenario>>

\* The fairness of CollectorSpec and of Store's FairSpec.
BackendSpec ==
    /\ BackendInit /\ [][BackendNext]_backendVars
    /\ WF_collectorVars(Limited(FlushStarts \/ FlushEnds))
    /\ WF_collectorVars(Limited(ShutdownStarts \/ ShutdownReturns \/ Exit))
    /\ WF_vars(OfStore(WriteReturn)) /\ WF_vars(OfStore(Flush))
    /\ SF_vars(OfStore(FlushTick))
=============================================================================
