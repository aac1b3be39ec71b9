----------------------------- MODULE MCServing -----------------------------
(***************************************************************************)
(* The components that share no state with each other, each in a small     *)
(* instance.  A behaviour is one of one component: `part` names it.        *)
(***************************************************************************)
EXTENDS LSHIndex, AnchorPool, VisualKVCache, QueueingController, KVAwareRouter,
        WorkflowPredictor, SpeculativeCoordinator, TokenDance,
        EmbeddingEngine, RetrievalEngine, LMCacheConnector, MonitorTasks, VRAMReadings,
        ToolServer, ROMYPlugin, SharedContext, TLC

CONSTANTS b1, b2

VARIABLE part

servingVars == <<part, vars, poolVars, visualVars, queueVars, routerVars, predictorVars, specVars,
                 danceVars, embedVars, retrievalVars, cacheConnVars, monitorVars, readingVars,
                 meterVars, toolVars, romyVars, sharedVars>>

\* the two block hashes of the index are one bit apart
MCPrompts  == {{b1}, {b1, b2}}
MCDistance == [p \in Hashes \X Hashes |-> IF p[1] = p[2] THEN 0 ELSE 1]
MCSymmetry == Permutations(Tasks) \cup Permutations(Agents)

\* the blocks of one agent's prompt are all like the block of the other's
MCBlocks       == [a \in {"n1", "n2"} |-> IF a = "n1" THEN {"x"} ELSE {"x", "y"}]
MCNear         == {{"x", "y"}}
MCDependencies == {<< >>}
MCChain        == {<< >>, <<"s1">>, <<"s2">>}
MCShared       == {<< >>, <<"s1">>, <<"s2">>, <<"s2", "s3">>}
MCQueries      == {<<"s1", "s2", "s3">>}
MCBatchShapes  == {[count |-> 10, side |-> 256, depth |-> 27], [count |-> 1, side |-> 512, depth |-> 27]}
MCOdds         == {<<"sure", "none">>, <<"less", "sure">>}

ServingInit ==
    /\ part \in {"blocks", "pool", "visual", "queue", "router", "predictor", "drafts", "dance",
                 "embeddings", "retrieval", "connectors", "monitor", "readings", "meter", "tools",
                 "plugin", "sharing"}
    /\ Init /\ PoolInit /\ VisualInit /\ QueueInit /\ RouterInit /\ PredictorInit /\ SpecInit
    /\ DanceInit /\ EmbedInit /\ RetrievalInit /\ ConnectorInit
    /\ MonitorInit /\ ReadingsInit /\ MeterInit /\ ToolInit /\ RomyInit /\ SharedInit

Still(name, variables) == IF part = name THEN TRUE ELSE UNCHANGED variables

Others ==
    /\ UNCHANGED part
    /\ Still("blocks", vars)
    /\ Still("pool", poolVars)           /\ Still("visual", visualVars)
    /\ Still("queue", queueVars)         /\ Still("router", routerVars)
    /\ Still("predictor", predictorVars) /\ Still("drafts", specVars)
    /\ Still("dance", danceVars)         /\ Still("embeddings", embedVars)
    /\ Still("retrieval", retrievalVars) /\ Still("connectors", cacheConnVars)
    /\ Still("monitor", monitorVars)     /\ Still("readings", readingVars)
    /\ Still("meter", meterVars)         /\ Still("tools", toolVars)
    /\ Still("plugin", romyVars)         /\ Still("sharing", sharedVars)

ServingNext ==
    \/ part = "blocks"     /\ Next          /\ Others
    \/ part = "pool"       /\ PoolNext      /\ Others
    \/ part = "visual"     /\ VisualNext    /\ Others
    \/ part = "queue"      /\ QueueNext     /\ Others
    \/ part = "router"     /\ RouterNext    /\ Others
    \/ part = "predictor"  /\ PredictorNext /\ Others
    \/ part = "drafts"     /\ SpecNext      /\ Others
    \/ part = "dance"      /\ DanceNext     /\ Others
    \/ part = "embeddings" /\ EmbedNext     /\ Others
    \/ part = "retrieval"  /\ RetrievalNext /\ Others
    \/ part = "connectors" /\ ConnectorNext /\ Others
    \/ part = "monitor"    /\ MonitorNext   /\ Others
    \/ part = "readings"   /\ ReadingsNext  /\ Others
    \/ part = "meter"      /\ MeterNext     /\ Others
    \/ part = "tools"      /\ ToolNext      /\ Others
    \/ part = "plugin"     /\ RomyNext      /\ Others
    \/ part = "sharing"    /\ SharedNext    /\ Others

ServingSpec == ServingInit /\ [][ServingNext]_servingVars
=============================================================================
