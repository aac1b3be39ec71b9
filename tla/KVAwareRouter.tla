---------------------------- MODULE KVAwareRouter ----------------------------
(***************************************************************************)
(* routing/kv_aware_router.py: which worker a block goes to, by the worker *)
(* its anchor was last routed to, else by CLA group, else by load.  Every  *)
(* method holds the lock from end to end, so each is one action.  Loads    *)
(* are percentages.                                                        *)
(*                                                                         *)
(* A definition marked (fault) is a plausible bug in the definition after  *)
(* it; nothing uses it, and some property tells the two apart.             *)
(***************************************************************************)
EXTENDS Integers, Sequences, FiniteSets, SequencesExt

CONSTANTS
    Workers, Anchors, Groups,
    NoWorker, NoGroup,
    Loads,             \* reported loads, in percent
    AnchorLocality, ClaAffinity  \* the two switches of the constructor

ASSUME RouterAssumption ==
    /\ Loads \subseteq Nat
    /\ NoWorker \notin Workers /\ NoGroup \notin Groups
    /\ {AnchorLocality, ClaAffinity} \subseteq BOOLEAN

VARIABLES
    mesh,      \* the keys of _workers in the order of their registration
    workload,  \* current_load
    groups,    \* cla_groups
    home,      \* _anchor_to_worker: the workers of the anchors routed so far
    scores,    \* anchor_scores: worker -> anchor -> tenths, 0 for none
    routed     \* the last answer of select_worker

routerVars == <<mesh, workload, groups, home, scores, routed>>

NoDecision(a, g) == [worker |-> NoWorker, anchor |-> a, group |-> g, confidence |-> 0]

RouterInit ==
    /\ mesh = << >>
    /\ workload = [w \in Workers |-> 0]
    /\ groups = [w \in Workers |-> {}]
    /\ home = [a \in Anchors |-> NoWorker]
    /\ scores = [w \in Workers |-> [a \in Anchors |-> 0]]
    /\ routed = << >>

-----------------------------------------------------------------------------
Registered == ToSet(mesh)
Joined(w) == IF w \in Registered THEN mesh ELSE Append(mesh, w)
Place(w) == CHOOSE i \in DOMAIN mesh : mesh[i] = w

RegisterWorker(w) ==
    /\ mesh' = Joined(w)
    /\ UNCHANGED <<workload, groups, home, scores, routed>>

\* (fault) the worker is not looked for in the mesh
LocalFault(a) == AnchorLocality /\ home[a] # NoWorker /\ workload[home[a]] < 95

\* _check_anchor_locality
Local(a) == AnchorLocality /\ home[a] \in Registered /\ workload[home[a]] < 95

\* _find_best_worker_cla_affinity: the workers it may choose, the first wins
Akin(g) ==
    {w \in Registered : ClaAffinity /\ g # NoGroup /\ g \in groups[w] /\ workload[w] < 80}

First(S) == CHOOSE w \in S : \A v \in S : Place(w) <= Place(v)

LeastLoaded == {w \in Registered : \A v \in Registered : workload[w] <= workload[v]}

RouteTo(a, g, w, confidence) ==
    routed' = [worker |-> w, anchor |-> a, group |-> g, confidence |-> confidence]

\* A choice not by locality becomes the anchor's home
Rehome(a, w, score) ==
    /\ home' = [home EXCEPT ![a] = w]
    /\ scores' = [scores EXCEPT ![w][a] = score]

SelectWorker(a, g) ==
    /\ \/ Local(a) /\ RouteTo(a, g, home[a], 90) /\ UNCHANGED <<home, scores>>
       \/ /\ ~ Local(a) /\ Akin(g) # {}
          /\ RouteTo(a, g, First(Akin(g)), 75) /\ Rehome(a, First(Akin(g)), 8)
       \/ /\ ~ Local(a) /\ Akin(g) = {} /\ mesh # << >>
          /\ RouteTo(a, g, First(LeastLoaded), 50) /\ Rehome(a, First(LeastLoaded), 5)
       \/ /\ ~ Local(a) /\ mesh = << >>
          /\ routed' = NoDecision(a, g) /\ UNCHANGED <<home, scores>>
    /\ UNCHANGED <<mesh, workload, groups>>

\* An unknown worker is registered; a workload above 1.0 is clipped
UpdateWorkerState(w, l, g) ==
    /\ mesh' = Joined(w)
    /\ workload' = [workload EXCEPT ![w] = IF l <= 100 THEN l ELSE 100]
    /\ groups' = [groups EXCEPT ![w] = IF g = NoGroup THEN @ ELSE @ \cup {g}]
    /\ UNCHANGED <<home, scores, routed>>

\* The worker named need not be registered
BroadcastNewBlocks(a, w) ==
    /\ home' = [home EXCEPT ![a] = w]
    /\ scores' = IF w \in Registered THEN [scores EXCEPT ![w][a] = 10] ELSE scores
    /\ UNCHANGED <<mesh, workload, groups, routed>>

RouterNext ==
    \/ \E w \in Workers : RegisterWorker(w)
    \/ \E a \in Anchors, g \in Groups \cup {NoGroup} : SelectWorker(a, g)
    \/ \E w \in Workers, l \in Loads, g \in Groups \cup {NoGroup} : UpdateWorkerState(w, l, g)
    \/ \E a \in Anchors, w \in Workers : BroadcastNewBlocks(a, w)

RouterSpec == RouterInit /\ [][RouterNext]_routerVars

-----------------------------------------------------------------------------
RouterTypeOK ==
    /\ Registered \subseteq Workers /\ Cardinality(Registered) = Len(mesh)
    /\ \A w \in Workers : workload[w] <= 100 /\ groups[w] \subseteq Groups
    /\ home \in [Anchors -> Workers \cup {NoWorker}]

\* An anchor that routing has placed stays where it is, however the loads
\* compare, until its worker is at its limit or unknown: its blocks are there.
AnchorsMoveUnderPressure ==
    [][\A a \in Anchors :
        /\ AnchorLocality /\ home[a] # NoWorker /\ home'[a] # home[a]
        /\ routed' # routed
        => home[a] \notin Registered \/ workload[home[a]] >= 95]_routerVars

\* A request is turned away only by an empty mesh, and what is answered is a
\* worker that has registered and, unless every one is, not at its limit.
RoutedToTheLiving ==
    [][routed' # routed =>
        /\ routed'.worker = NoWorker <=> mesh = << >>
        /\ mesh # << >> =>
             /\ routed'.worker \in Registered
             /\ workload[routed'.worker] < 95 \/ \A w \in Registered : workload[w] >= 95]_routerVars
=============================================================================
