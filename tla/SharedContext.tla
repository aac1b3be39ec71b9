--------------------------- MODULE SharedContext ---------------------------
(***************************************************************************)
(* get_shared_context() of registry/context_registry.py: which blocks of   *)
(* the asked agents' prompts others hold too.  One task per agent reads    *)
(* the cache, waits for a thread that tokenises, reads the block store of  *)
(* dedup/lsh_engine.py, and waits for the embedding, the FAISS index and   *)
(* the anchor pool.  Registrations, clearances and evictions, the subject  *)
(* of ContextRegistry, LSHIndex and VRAMCache, go on meanwhile and appear  *)
(* as what they do to the three structures the tasks read.                 *)
(***************************************************************************)
EXTENDS Naturals, FiniteSets

CONSTANTS
    SharingAgents,
    PromptBlocks,  \* agent -> the hashes of its prompt's blocks
    Near           \* pairs of hashes within the Hamming threshold, besides the equal ones

VARIABLES
    knownAgents,   \* _agents
    owned,         \* agents whose blocks are in the block store
    inCache,       \* agents whose context is in the cache
    asking,        \* agents of the query under way
    sharing,       \* agent -> where its task is
    shared         \* agent -> its valid matches, <<block, cached block, owner>>

sharedVars == <<knownAgents, owned, inCache, asking, sharing, shared>>

SharedInit ==
    /\ knownAgents = {} /\ owned = {} /\ inCache = {} /\ asking = {}
    /\ sharing = [a \in SharingAgents |-> "none"]
    /\ shared = [a \in SharingAgents |-> {}]

NobodyAsks == \A a \in SharingAgents : sharing[a] \in {"none", "left over"}

-----------------------------------------------------------------------------
\* The query as far as the creation of the embedding engine, which may wait: the
\* asked agents that are registered
Ask(S) ==
    /\ asking = {} /\ NobodyAsks
    /\ Cardinality(S) >= 2 /\ S \cap knownAgents # {}
    /\ asking' = S \cap knownAgents
    /\ shared' = [a \in SharingAgents |-> {}]
    /\ UNCHANGED <<knownAgents, owned, inCache, sharing>>

\* gather starts the tasks one behind the other, each as far as the tokeniser.
\* An agent without a cached context has no result.
FanOut ==
    /\ asking # {} /\ \A a \in asking : sharing[a] \in {"none", "left over"}
    /\ sharing' = [a \in SharingAgents |->
                     IF a \notin asking THEN "none"
                     ELSE IF a \in inCache THEN "encoding" ELSE "done"]
    /\ UNCHANGED <<knownAgents, owned, inCache, asking, shared>>

Matching(b, c) == b = c \/ {b, c} \in Near

\* find_reusable_blocks, without the agent's own blocks
Reusable(a) ==
    LET cached == UNION {PromptBlocks[o] : o \in owned}
    IN  {m \in PromptBlocks[a] \X cached \X (owned \ {a}) :
            m[2] \in PromptBlocks[m[3]] /\ Matching(m[1], m[2])}

Encoded(a) ==
    /\ sharing[a] = "encoding"
    /\ shared' = [shared EXCEPT ![a] = Reusable(a)]
    /\ sharing' = [sharing EXCEPT ![a] = IF Reusable(a) = {} THEN "done" ELSE "searching"]
    /\ UNCHANGED <<knownAgents, owned, inCache, asking>>

\* The FAISS search, the prediction and the offset of the anchor pool add to the
\* result and change nothing the query reads
Predicted(a) ==
    /\ sharing[a] = "searching"
    /\ sharing' = [sharing EXCEPT ![a] = "done"]
    /\ UNCHANGED <<knownAgents, owned, inCache, asking, shared>>

\* One task raises: so does gather, and the tasks of the others run on unseen
TaskRaises(a) ==
    /\ sharing[a] \in {"encoding", "searching"}
    /\ asking' = {}
    /\ sharing' = [b \in SharingAgents |->
                     IF b # a /\ sharing[b] \in {"encoding", "searching"} THEN "left over" ELSE "none"]
    /\ shared' = [b \in SharingAgents |-> {}]
    /\ UNCHANGED <<knownAgents, owned, inCache>>

AnswerShared ==
    /\ asking # {} /\ \A a \in asking : sharing[a] = "done"
    /\ asking' = {} /\ sharing' = [a \in SharingAgents |-> "none"]
    /\ UNCHANGED <<knownAgents, owned, inCache, shared>>

-----------------------------------------------------------------------------
\* What others do: register_agent, and the steps of clear_agent and of an eviction
AgentJoins(a) ==
    /\ knownAgents' = knownAgents \cup {a} /\ owned' = owned \cup {a} /\ inCache' = inCache \cup {a}
    /\ UNCHANGED <<asking, sharing, shared>>

AgentLeaves(a) ==
    /\ \/ owned' = owned \ {a} /\ UNCHANGED <<knownAgents, inCache>>
       \/ inCache' = inCache \ {a} /\ UNCHANGED <<knownAgents, owned>>
       \/ knownAgents' = knownAgents \ {a} /\ UNCHANGED <<owned, inCache>>
    /\ UNCHANGED <<asking, sharing, shared>>

SharedNext ==
    \/ FanOut \/ AnswerShared
    \/ \E S \in SUBSET SharingAgents : Ask(S)
    \/ \E a \in SharingAgents :
          Encoded(a) \/ Predicted(a) \/ TaskRaises(a) \/ AgentJoins(a) \/ AgentLeaves(a)

SharedSpec == SharedInit /\ [][SharedNext]_sharedVars

-----------------------------------------------------------------------------
SharedTypeOK ==
    /\ knownAgents \cup owned \cup inCache \cup asking \subseteq SharingAgents
    /\ \A a \in SharingAgents : \A m \in shared[a] : m[1] \in PromptBlocks[a] /\ m[3] # a

\* Violated: an agent cannot save more blocks than its prompt has.
\* total_tokens_saved counts a block once per agent that holds it.
SavedWithinPrompt ==
    \A a \in SharingAgents : Cardinality(shared[a]) <= Cardinality(PromptBlocks[a])

\* Violated: what the answer names is there when it is given.
AnswerIsCurrent ==
    [][AnswerShared => \A a \in asking : \A m \in shared[a] : m[3] \in owned]_sharedVars
=============================================================================
