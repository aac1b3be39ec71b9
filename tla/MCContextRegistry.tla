------------------------- MODULE MCContextRegistry -------------------------
(* Small instances of ContextRegistry.  All agents share the system prompt,  *)
(* as register_agent asks; a second text has another role prompt.            *)
EXTENDS ContextRegistry, TLC

CONSTANTS a1, a2, h1, h2, t1, t2, t3

MCAgents  == {a1, a2}
MCHashes  == {h1, h2}
MCPrompts == {{h1}, {h1, h2}}
MCText    == {[system |-> {h1}, full |-> {h1}]}
MCTexts   == {[system |-> {h1}, full |-> {h1}], [system |-> {h1}, full |-> {h1, h2}]}
MCTasks2  == {t1, t2}
MCTasks3  == {t1, t2, t3}
CallerSymmetry == Permutations(Tasks) \cup Permutations(Agents)
=============================================================================
