----------------------------- MODULE StepGraph -----------------------------
(***************************************************************************)
(* scheduling/step_graph.py: the workflow's steps with what each depends   *)
(* on, and how far each is from execution.  The depth of a step is found   *)
(* by a search that shares its visited set between the branches, so a step *)
(* reached a second time counts as depth zero.                             *)
(***************************************************************************)
EXTENDS Integers, Sequences, FiniteSets, SequencesExt, Relation

CONSTANTS
    StepAgents,
    Dependencies,   \* the depends_on lists a step may come with
    StepIndexes,    \* and the step_index values
    MaxSteps        \* bound on the calls of add_step

ASSUME GraphAssumption == StepIndexes \subseteq Nat /\ MaxSteps \in Nat

VARIABLES
    steps,      \* _steps: agent -> its last step
    stepList    \* _step_list: the steps in the order they were added

graphVars == <<steps, stepList>>

NoSteps == [a \in {} |-> [agent |-> a, deps |-> << >>, index |-> 0]]

GraphInit == steps = NoSteps /\ stepList = << >>

\* A step of an agent that has one replaces it in _steps, not in the list
AddStep(a, deps, i) ==
    LET step == [agent |-> a, deps |-> deps, index |-> i] IN
    /\ Len(stepList) < MaxSteps
    /\ steps' = [b \in DOMAIN steps \cup {a} |-> IF b = a THEN step ELSE steps[b]]
    /\ stepList' = Append(stepList, step)

GraphNext ==
    \E a \in StepAgents, deps \in Dependencies, i \in StepIndexes : AddStep(a, deps, i)

GraphSpec == GraphInit /\ [][GraphNext]_graphVars

-----------------------------------------------------------------------------
\* What a step depends on among the steps there are
Parents(a) == ToSet(steps[a].deps) \cap DOMAIN steps

ReachesBack ==
    TransitiveClosure([p \in (DOMAIN steps) \X (DOMAIN steps) |-> p[2] \in Parents(p[1])],
                      DOMAIN steps)

\* validate_dag: every other query raises on a cycle
Acyclic == \A a \in DOMAIN steps : ~ ReachesBack[<<a, a>>]

Greatest(S) == CHOOSE n \in S : \A m \in S : n >= m

StepDepth(n) == n + 1

ComputeDepth[a \in DOMAIN steps, visited \in SUBSET DOMAIN steps] ==
    IF a \in visited THEN [depth |-> 0, visited |-> visited]
    ELSE IF steps[a].deps = << >>
    THEN [depth |-> steps[a].index, visited |-> visited \cup {a}]
    ELSE LET branch(acc, d) ==
               IF d \notin DOMAIN steps THEN acc
               ELSE LET r == ComputeDepth[d, acc.visited]
                    IN [depth |-> Greatest({acc.depth, r.depth}), visited |-> r.visited]
             r == FoldLeft(branch, [depth |-> 0, visited |-> visited \cup {a}], steps[a].deps)
         IN [r EXCEPT !.depth = StepDepth(@)]

\* compute_steps_to_execution; Unknown stands for sys.maxsize
Unknown == 99
StepsToExecution(a, current) ==
    IF a \notin DOMAIN steps THEN Unknown
    ELSE IF steps[a].index <= current THEN 0
    ELSE ComputeDepth[a, {}].depth

\* seq by ascending key, equal keys in the order they came (Python's sort)
Sorted(seq, key(_)) ==
    LET before(i, j) == \/ key(seq[i]) < key(seq[j])
                        \/ key(seq[i]) = key(seq[j]) /\ i < j
    IN [n \in DOMAIN seq |->
          seq[CHOOSE i \in DOMAIN seq :
                n = 1 + Cardinality({j \in DOMAIN seq : before(j, i)})]]

\* The farthest from execution first; an agent added twice is listed twice
EvictionPriorityOrder ==
    LET agents  == [i \in DOMAIN stepList |-> stepList[i].agent]
        near(a) == - StepsToExecution(a, 0)
    IN Sorted(agents, near)

PrefetchCandidates(current, lookahead) ==
    LET soon == SelectSeq(stepList,
                  LAMBDA s : s.index > current /\ s.index <= current + lookahead)
    IN [i \in DOMAIN soon |-> soon[i].agent]

-----------------------------------------------------------------------------
\* The reference: the longest path down to `a`, every branch on its own
LongestPath[a \in DOMAIN steps] ==
    IF steps[a].deps = << >> THEN steps[a].index
    ELSE 1 + Greatest({0} \cup {LongestPath[p] : p \in Parents(a)})

Below(a) == {a} \cup {b \in DOMAIN steps : ReachesBack[<<a, b>>]}

\* No step below `a` is reached by two ways
Unshared(a) ==
    \A d \in Below(a) :
        Cardinality({e \in Below(a) \X (1 .. 4) :
                        /\ e[2] \in DOMAIN steps[e[1]].deps
                        /\ steps[e[1]].deps[e[2]] = d}) <= 1

\* The depth never exceeds the longest dependency path, and is that path where
\* no dependency is shared.  Where one is, the search may cut it short.
DepthIsAPath ==
    Acyclic => \A a \in DOMAIN steps :
        LET depth == ComputeDepth[a, {}].depth IN
        /\ depth <= LongestPath[a]
        /\ Unshared(a) => depth = LongestPath[a]

\* What the comment in compute_steps_to_execution says: "Compute longest path
\* from any root to this step".
DepthIsLongestPath ==
    Acyclic => \A a \in DOMAIN steps : ComputeDepth[a, {}].depth = LongestPath[a]
=============================================================================
