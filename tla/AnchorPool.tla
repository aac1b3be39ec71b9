----------------------------- MODULE AnchorPool -----------------------------
(***************************************************************************)
(* The anchor pool of kv_offset/anchor_pool.py: anchors by block hash, the *)
(* agents that have an offset at each, and the pruning of those used the   *)
(* least.  update_pool computes the hash and the embedding first, then     *)
(* works on the dictionaries without suspending, pruning included, so an   *)
(* update is one action; the order of overlapping updates is arbitrary.    *)
(* The offsets' values, and the prefix offsets beside them, are left out.  *)
(*                                                                         *)
(* A definition marked (fault) is a plausible bug in the definition after  *)
(* it; nothing uses it, and some property tells the two apart.             *)
(***************************************************************************)
EXTENDS Integers, Sequences, FiniteSets, SequencesExt

CONSTANTS
    PoolAgents,
    PoolHashes,              \* block hashes of the token sequences in use
    MaxSize,             \* _max_size
    ShareNum, ShareDen,  \* pruning evicts this share of the anchors (1/4 in the code)
    MaxAccesses          \* bound on access_count

ASSUME SizeAssumption  == MaxSize \in Nat \ {0}
ASSUME ShareAssumption == ShareNum \in Nat /\ ShareDen \in Nat \ {0} /\ ShareNum <= ShareDen
ASSUME BoundAssumption == MaxAccesses \in Nat \ {0}

VARIABLES
    order,        \* the hashes of _anchors, oldest (created_at) first
    anchors,      \* hash -> its access count and the agents with an offset there
    agentAnchors  \* _agent_anchors: agent -> hashes of the anchors it created

poolVars == <<order, anchors, agentAnchors>>

NoAnchors == [x \in {} |-> x]

PoolInit ==
    /\ order = << >>
    /\ anchors = NoAnchors
    /\ agentAnchors = NoAnchors

-----------------------------------------------------------------------------
\* The heap's order: access count, then age
PrunedBefore(h, k, seq, dict) ==
    \/ dict[h].accesses < dict[k].accesses
    \/ /\ dict[h].accesses = dict[k].accesses
       /\ \E i, j \in DOMAIN seq : i < j /\ seq[i] = h /\ seq[j] = k

EvictCount(n) == IF (n * ShareNum) \div ShareDen > 1 THEN (n * ShareNum) \div ShareDen ELSE 1

Overfull(n) == n > MaxSize

\* What _prune_anchors evicts of the anchors dict, created in the order seq
Pruned(seq, dict) ==
    IF ~ Overfull(Len(seq)) THEN {}
    ELSE CHOOSE V \in SUBSET DOMAIN dict :
           /\ Cardinality(V) = EvictCount(Len(seq))
           /\ \A v \in V : \A w \in DOMAIN dict \ V : PrunedBefore(v, w, seq, dict)

\* (fault) the agents' sets keep the evicted hashes
ForgottenFault(index, dict, V) == index

\* agent -> hashes, less the evicted hashes the agent has an offset at
Forgotten(index, dict, V) ==
    [a \in DOMAIN index |-> index[a] \ {h \in V : a \in dict[h].agents}]

\* the pool as update_pool has written it, after the pruning that may follow
PruneInto(seq, dict, index) ==
    LET V == Pruned(seq, dict) IN
    /\ order' = SelectSeq(seq, LAMBDA h : h \notin V)
    /\ anchors' = [h \in DOMAIN dict \ V |-> dict[h]]
    /\ agentAnchors' = Forgotten(index, dict, V)

\* the offset joins an anchor that is there; who uses an anchor that another
\* agent created is not indexed
UpdateKnown(h, a) ==
    /\ h \in DOMAIN anchors /\ anchors[h].accesses < MaxAccesses
    /\ PruneInto(order,
                 [anchors EXCEPT ![h] =
                    [accesses |-> @.accesses + 1, agents |-> @.agents \cup {a}]],
                 agentAnchors)

NewAnchor(a) == [accesses |-> 1, agents |-> {a}]

\* (fault) the agent's set is begun anew
IndexedFault(a, h) ==
    [b \in DOMAIN agentAnchors \cup {a} |->
       IF b = a THEN {h} ELSE agentAnchors[b]]

\* agent -> hashes, with the one it creates
Indexed(a, h) ==
    [b \in DOMAIN agentAnchors \cup {a} |->
       (IF b \in DOMAIN agentAnchors THEN agentAnchors[b] ELSE {})
         \cup (IF b = a THEN {h} ELSE {})]

UpdateNew(h, a) ==
    /\ h \notin DOMAIN anchors
    /\ PruneInto(Append(order, h),
                 [k \in DOMAIN anchors \cup {h} |->
                    IF k = h THEN NewAnchor(a) ELSE anchors[k]],
                 Indexed(a, h))

PoolNext ==
    \E h \in PoolHashes, a \in PoolAgents : UpdateKnown(h, a) \/ UpdateNew(h, a)

PoolSpec == PoolInit /\ [][PoolNext]_poolVars

-----------------------------------------------------------------------------
\* Every variable stays in its domain, and the pool within its size.
PoolTypeOK ==
    /\ Len(order) <= MaxSize
    /\ DOMAIN anchors = ToSet(order) /\ Cardinality(DOMAIN anchors) = Len(order)
    /\ DOMAIN anchors \subseteq PoolHashes
    /\ \A h \in DOMAIN anchors :
        /\ anchors[h].accesses \in 1..MaxAccesses
        /\ anchors[h].agents \subseteq PoolAgents
    /\ DOMAIN agentAnchors \subseteq PoolAgents

\* What an agent's set says it has created is in the pool, with an offset of
\* that agent: pruning, which walks the anchor's agents and not the sets, leaves
\* no hash behind.
IndexIsLive ==
    \A a \in DOMAIN agentAnchors : \A h \in agentAnchors[a] :
        h \in DOMAIN anchors /\ a \in anchors[h].agents

\* Every anchor in the pool is in the set of exactly one agent, which has an
\* offset there (the one that created it), however many agents have used it since
\* and however often the pool overflowed: the sets are filled by the creator's
\* update, 120-122, and emptied by whichever update prunes, 279-285.
CreatedByOne ==
    \A h \in DOMAIN anchors :
        \E a \in anchors[h].agents \cap DOMAIN agentAnchors :
            \A b \in DOMAIN agentAnchors : h \in agentAnchors[b] <=> b = a
=============================================================================
