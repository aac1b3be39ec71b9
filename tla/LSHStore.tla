------------------------------ MODULE LSHStore ------------------------------
(***************************************************************************)
(* The two dictionaries of dedup/lsh_engine.py and what its operations do  *)
(* to them in one uninterrupted step.  A prompt is the set of the hashes   *)
(* of its full blocks.  The registry indexes each agent twice, as "a" and  *)
(* as "a:system", so an owner is a pair of an agent and a part.            *)
(*                                                                         *)
(* A definition marked (fault) is a plausible bug in the definition after  *)
(* it; nothing uses it, and some property tells the two apart.             *)
(***************************************************************************)
EXTENDS Integers, FiniteSets

CONSTANTS
    Agents,
    Hashes,       \* SimHash values of token blocks
    Prompts       \* the sets of block hashes of the prompts in use

ASSUME PromptsAssumption == Prompts \subseteq SUBSET Hashes

VARIABLES
    blockStore,   \* _block_store: hash -> the owners of blocks with that hash
    agentBlocks   \* _agent_blocks: owner -> hashes of its last prompt

lshVars == <<blockStore, agentBlocks>>

Parts  == {"full", "system"}
Owners == Agents \X Parts

NoDict == [x \in {} |-> x]

LSHInit ==
    /\ blockStore = NoDict
    /\ agentBlocks = NoDict

OwnersOf(h) == IF h \in DOMAIN blockStore THEN blockStore[h] ELSE {}

BlocksOf(o) == IF o \in DOMAIN agentBlocks THEN agentBlocks[o] ELSE {}

-----------------------------------------------------------------------------
\* (fault) the last writer of a block is its only owner
IndexPromptFault(o, H) ==
    /\ blockStore' = [h \in DOMAIN blockStore \cup H |->
                        IF h \in H THEN {o} ELSE blockStore[h]]
    /\ agentBlocks' = [x \in DOMAIN agentBlocks \cup {o} |->
                         IF x = o THEN H ELSE agentBlocks[x]]

\* index_prompt after its tokenizer job: the owner joins the owners of every
\* block, and leaves none of those of an earlier prompt
IndexPrompt(o, H) ==
    /\ blockStore' = [h \in DOMAIN blockStore \cup H |->
                        IF h \in H THEN OwnersOf(h) \cup {o} ELSE blockStore[h]]
    /\ agentBlocks' = [x \in DOMAIN agentBlocks \cup {o} |->
                         IF x = o THEN H ELSE agentBlocks[x]]

\* (fault) a listed block is deleted whoever else owns it
ClearOwnersFault(O) ==
    /\ blockStore' = [h \in DOMAIN blockStore \ UNION {BlocksOf(o) : o \in O}
                        |-> blockStore[h]]
    /\ agentBlocks' = [x \in DOMAIN agentBlocks \ O |-> agentBlocks[x]]

\* What clear_agent leaves of the owners of h, for each owner of O in turn
Remaining(h, O) == blockStore[h] \ {o \in O : h \in BlocksOf(o)}

ClearOwners(O) ==
    /\ blockStore' = [h \in {h \in DOMAIN blockStore : Remaining(h, O) # {}}
                        |-> Remaining(h, O)]
    /\ agentBlocks' = [x \in DOMAIN agentBlocks \ O |-> agentBlocks[x]]

-----------------------------------------------------------------------------
LSHTypes ==
    /\ DOMAIN blockStore \subseteq Hashes
    /\ \A h \in DOMAIN blockStore : blockStore[h] \subseteq Owners
    /\ DOMAIN agentBlocks \subseteq Owners
    /\ \A o \in DOMAIN agentBlocks : agentBlocks[o] \in Prompts

\* A block an owner is listed with is really in the store under its name (so
\* clear_agent, which walks the list, frees it), and no block is kept without
\* an owner.
StoreMatchesLists ==
    /\ \A o \in DOMAIN agentBlocks : \A h \in agentBlocks[o] : o \in OwnersOf(h)
    /\ \A h \in DOMAIN blockStore : blockStore[h] # {}

\* The converse: who owns a block is listed with it.  True as long as no owner
\* is indexed again under another prompt.
OwnersAreListed ==
    \A h \in DOMAIN blockStore : \A o \in blockStore[h] : h \in BlocksOf(o)

\* clear_agent's docstring: "Remove all blocks indexed for an agent."
ClearedOwnNothing ==
    \A h \in DOMAIN blockStore : blockStore[h] \subseteq DOMAIN agentBlocks

\* A step that takes one owner's blocks away takes nobody else's: blocks that
\* agents share stay findable.  (One tuple per hash, as the store once had,
\* loses them.)
SharedBlocksSurvive ==
    [][\A o \in Owners :
         o \in DOMAIN agentBlocks /\ o \in DOMAIN agentBlocks'
           => \A h \in agentBlocks[o] :
                o \in (IF h \in DOMAIN blockStore' THEN blockStore'[h] ELSE {})]_lshVars
=============================================================================
