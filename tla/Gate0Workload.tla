--------------------------- MODULE Gate0Workload ---------------------------
(***************************************************************************)
(* GATE #0: the request list that all three arms replay                    *)
(* (scripts/gate0/workload.py) and how the arms differ, which is in the    *)
(* launch of the cross-worker arm B and in the cache salts                 *)
(* (scripts/gate0/arms.py).  Every prompt starts with the one canonical    *)
(* block, so a prompt is its agent and its task line.                      *)
(***************************************************************************)
EXTENDS JCRGate, Sequences, FiniteSets

CONSTANTS
    Roles,        \* the agents' ids in pipeline order
    Tails,        \* how many task lines there are
    NRequests,    \* n_requests
    Seed,
    NoSalt

ASSUME WorkloadAssumption ==
    /\ Roles # << >> /\ Tails \in Nat \ {0}
    /\ NRequests \in Nat /\ Seed \in Nat

Arms == <<"A", "B", "C">>
Topologies == {"single_worker", "cross_worker"}

-----------------------------------------------------------------------------
\* Agents and task lines cycle by the same index
Turn(i, n) == ((i - 1 + Seed) % n) + 1
RoleAt(i)  == Roles[Turn(i, Len(Roles))]

Number(i) == Cardinality({j \in 1 .. i - 1 : RoleAt(j) = RoleAt(i)})

Requests ==
    [i \in 1 .. NRequests |-> [agent |-> RoleAt(i), id |-> <<RoleAt(i), Number(i)>>,
                               tail |-> Turn(i, Tails)]]

DistinctPrefixes     == IF Requests = << >> THEN 0 ELSE 1
SharedPrefixFraction == 100 * DistinctPrefixes

-----------------------------------------------------------------------------
\* build_arm_launch: every arm with prefix caching and the same environment
UsesLMCache(arm, topology) == arm = "B" /\ topology = "cross_worker"
AiterEnv  == {"VLLM_USE_AITER"}
WorkerEnv == {"PYTHONHASHSEED", "LMCACHE_USE_EXPERIMENTAL"}
ArmLaunch(arm, topology) ==
    [topology |-> topology, env |-> AiterEnv \cup WorkerEnv, apc |-> TRUE,
     lmcache |-> UsesLMCache(arm, topology)]

\* DEFAULT_CANDIDATE_COUNT candidates are compared in every request
GateInput(r) ==
    [role |-> r.agent, candidates |-> 5, reuse |-> SharedPrefixFraction, shuffled |-> FALSE]

\* salt_for_request; the anchor is the canonical prefix, the group "gate0"
SaltFor(arm, r) ==
    CASE arm = "A" -> NoSalt
      [] arm = "B" -> Salt(UseDense(GateInput(r)), "prefix", "gate0", r.id)
      [] arm = "C" -> IsolatedSalt("prefix", r.id)

SaltsFor(arm) == [i \in DOMAIN Requests |-> SaltFor(arm, Requests[i])]

\* _count_inv15_fires
INV15Fires(arm) ==
    Cardinality({i \in DOMAIN Requests : arm = "B" /\ UseDense(GateInput(Requests[i]))})
=============================================================================
