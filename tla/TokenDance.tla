----------------------------- MODULE TokenDance -----------------------------
(***************************************************************************)
(* storage/token_dance.py: one agent's KV blocks kept whole, the others'   *)
(* as the blocks that differ from them.  A block is a number; a difference *)
(* up to the threshold is dropped.                                         *)
(*                                                                         *)
(* A definition marked (fault) is a plausible bug in the definition after  *)
(* it; nothing uses it, and some property tells the two apart.             *)
(***************************************************************************)
EXTENDS Integers, Sequences, FiniteSets

CONSTANTS
    DanceAgents, NoMaster,
    BlockValues,      \* what a block may hold
    CacheLengths,     \* numbers of blocks of the caches registered
    DiffThreshold,    \* diff_threshold
    MaxLength         \* bound on a cache's blocks

ASSUME DanceAssumption ==
    /\ BlockValues \subseteq Int /\ DiffThreshold \in Nat
    /\ CacheLengths \subseteq Nat /\ MaxLength \in Nat
    /\ NoMaster \notin DanceAgents

VARIABLES
    master,        \* master_id
    masterBlocks,  \* master_cache[master_id]
    mirrors,       \* agent -> block index -> difference
    own,           \* history: what each mirrored agent holds, as it told
    outdated       \* history: mirrored agents whose master was replaced since

danceVars == <<master, masterBlocks, mirrors, own, outdated>>

Nobody == [a \in {} |-> << >>]

DanceInit ==
    /\ master = NoMaster /\ masterBlocks = << >>
    /\ mirrors = Nobody /\ own = Nobody /\ outdated = {}

-----------------------------------------------------------------------------
Caches == UNION {[1 .. n -> BlockValues] : n \in CacheLengths}
Bound(dict, a, value) == [b \in DOMAIN dict \cup {a} |-> IF b = a THEN value ELSE dict[b]]
Magnitude(n) == IF n < 0 THEN -n ELSE n

\* The norm of the difference is above the threshold
Differs(delta) == Magnitude(delta) > DiffThreshold

SparseDiff(blocks) ==
    [i \in {j \in DOMAIN blocks : Differs(blocks[j] - masterBlocks[j])} |->
        blocks[i] - masterBlocks[i]]

\* (fault) mirrors of another master are kept
ReplacesMasterFault(a) == FALSE

\* Another agent as master: every mirror is dropped
ReplacesMaster(a) == master # NoMaster /\ master # a

\* The same agent registering new blocks keeps the mirrors of its old ones
RegisterMaster(a, blocks) ==
    /\ mirrors' = IF ReplacesMaster(a) THEN Nobody ELSE mirrors
    /\ own' = IF ReplacesMaster(a) THEN Nobody ELSE own
    /\ outdated' = IF master = a THEN outdated \cup DOMAIN mirrors ELSE {}
    /\ master' = a /\ masterBlocks' = blocks

\* Raises, changing nothing, without a master or for another shape
RegisterMirror(a, blocks) ==
    /\ master # NoMaster /\ Len(blocks) = Len(masterBlocks)
    /\ mirrors' = Bound(mirrors, a, SparseDiff(blocks))
    /\ own' = Bound(own, a, blocks)
    /\ outdated' = outdated \ {a}
    /\ UNCHANGED <<master, masterBlocks>>

\* An agent not mirrored yet is taken to equal the master
Extended(agents) ==
    [b \in DOMAIN mirrors \cup (agents \ {master}) |->
        IF b \in DOMAIN mirrors THEN mirrors[b] ELSE << >>]

\* The agents named adopt the shared blocks
CollectiveReuseStep(agents, shared) ==
    LET extended == masterBlocks \o shared IN
    /\ master # NoMaster /\ Len(extended) <= MaxLength
    /\ masterBlocks' = extended
    /\ mirrors' = Extended(agents)
    /\ own' = [b \in DOMAIN own \cup (agents \ {master}) |->
                 IF b \notin DOMAIN own THEN extended
                 ELSE IF b \in agents /\ Len(own[b]) = Len(masterBlocks)
                 THEN own[b] \o shared ELSE own[b]]
    /\ UNCHANGED <<master, outdated>>

DanceNext ==
    \/ \E a \in DanceAgents, blocks \in Caches :
         RegisterMaster(a, blocks) \/ RegisterMirror(a, blocks)
    \/ \E agents \in SUBSET DanceAgents, v \in BlockValues : CollectiveReuseStep(agents, <<v>>)

DanceSpec == DanceInit /\ [][DanceNext]_danceVars

-----------------------------------------------------------------------------
\* reconstruct(a): the master's blocks with the differences added
Reconstruct(a) ==
    IF a = master THEN masterBlocks
    ELSE [i \in DOMAIN masterBlocks |->
            masterBlocks[i] + (IF i \in DOMAIN mirrors[a] THEN mirrors[a][i] ELSE 0)]

DanceTypeOK ==
    /\ master \in DanceAgents \cup {NoMaster}
    /\ DOMAIN own = DOMAIN mirrors /\ outdated \subseteq DOMAIN mirrors

\* What is reconstructed for an agent is what it registered and adopted since,
\* up to the threshold, as long as the master it was compared with stands:
\* through mirrors registered again, shared blocks appended for some agents
\* and not for others, and another agent taking over as master.
MirrorsReconstruct ==
    \A a \in DOMAIN mirrors \ (outdated \cup {master}) :
        \A i \in DOMAIN own[a] : Magnitude(Reconstruct(a)[i] - own[a][i]) <= DiffThreshold
=============================================================================
