--------------------------- MODULE OperatorProofs ---------------------------
(***************************************************************************)
(* For any number of workers, images and failures, however stale the       *)
(* operator's copies are: the state is well formed, and during the first   *)
(* life of a resource Redis and its workers hold the Secret's password.    *)
(***************************************************************************)
EXTENDS Operator, TLAPS

LEMMA FreshPasswordIsPassword ==
    ASSUME TypeOK
    PROVE  FreshPassword \in Passwords
<1>1. \E p \in Passwords : p \notin {redisHas, workersHas}
  BY ConstantsAssumption DEF TypeOK
<1> QED
  BY <1>1 DEF FreshPassword

\* The resource as a record; a change of its status leaves it one.
LEMMA StatusChangeKeepsType ==
    ASSUME NEW c \in Clusters, NEW s \in Statuses
    PROVE  /\ [c EXCEPT !.status = s] \in Clusters
           /\ [c EXCEPT !.status.secretName = TRUE] \in Clusters
BY DEF Clusters, Statuses

LEMMA StatusPatchType ==
    ASSUME TypeOK, NEW s \in Statuses, NEW copy, NEW n \in 0..MaxWorkers,
           NEW w \in 1..MaxWorkers
    PROVE  StatusPatch(s, copy, n, ComputePhase(n, w), w) \in Statuses
<1>1. ComputePhase(n, w) \in Phases
  BY DEF ComputePhase, Phases
<1> DEFINE phase == ComputePhase(n, w)
           r == IF copy.ready = n THEN s.ready ELSE n
           p == IF copy.phase = phase THEN s.phase ELSE phase
           a == n >= w
<1>2. r \in 0..MaxWorkers /\ p \in Phases /\ a \in BOOLEAN
  BY <1>1 DEF Statuses
<1>3. StatusPatch(s, copy, n, phase, w) =
        [s EXCEPT !.ready = r, !.phase = p, !.available = a]
  BY Zenon DEF StatusPatch
<1> HIDE DEF r, p, phase, a
<1>4. [s EXCEPT !.ready = r, !.phase = p, !.available = a] \in Statuses
  BY <1>2 DEF Statuses
<1> QED
  BY <1>3, <1>4 DEF phase

LEMMA WorkerDeploymentType ==
    ASSUME NEW spec \in Specs
    PROVE  WorkerDeployment(spec) \in Fleets
BY DEF Specs, Fleets, WorkerDeployment

LEMMA UpdatedType ==
    ASSUME NEW f \in Fleets, NEW spec \in Specs
    PROVE  Updated(f, spec) \in Fleets /\ Updated(f, spec).ownRedis = f.ownRedis
BY DEF Specs, Fleets, Updated

\* While a pass is under way it has a copy of the resource.
LEMMA PassHasCopy ==
    ASSUME TypeOK, pass.at # "idle"
    PROVE  /\ pass.cr \in Clusters
           /\ pass.cr.uid \in Uids
           /\ pass.cr.spec \in Specs
           /\ pass.cr.status \in Statuses
BY DEF TypeOK, Clusters

LEMMA GoToType ==
    ASSUME TypeOK, pass.at # "idle", NEW step \in Steps \ {"idle"}, GoTo(step)
    PROVE  /\ pass' \in [at : Steps, cr : Clusters \cup {NoCluster}]
           /\ (pass'.at = "idle") <=> (pass'.cr = NoCluster)
           /\ pass'.cr = pass.cr /\ pass'.at = step
BY DEF TypeOK, GoTo

\* A request for one object changes at most its owner, and goes on or ends the pass.
LEMMA EnsureType ==
    ASSUME TypeOK, NEW k \in Kinds, NEW next \in Steps \ {"idle"}, pass.at # "idle",
           Create(k, next) \/ Skip(k, next)
    PROVE  /\ owner' \in [Kinds -> Uids \cup {NoUid}]
           /\ pass' \in [at : Steps, cr : Clusters \cup {NoCluster}]
           /\ (pass'.at = "idle") <=> (pass'.cr = NoCluster)
           /\ \A j \in Kinds \ {k} : owner'[j] = owner[j]
           /\ owner'[k] \in {owner[k], pass.cr.uid}
           /\ owner'[k] = owner[k] <=> owner' = owner
           /\ owner' # owner => owner[k] = NoUid
           /\ pass' = Idle \/ (pass'.at = next /\ pass'.cr = pass.cr)
           /\ pass' # Idle => cached.owner[k] # NoUid \/ owner'[k] # NoUid
<1>1. pass.cr.uid \in Uids /\ NoUid \notin Uids
  BY PassHasCopy DEF Uids, NoUid
<1>2. Idle \in [at : Steps, cr : Clusters \cup {NoCluster}] /\ Idle.at = "idle" /\ Idle.cr = NoCluster
  BY DEF Idle, Steps
<1>3. owner \in [Kinds -> Uids \cup {NoUid}]
  BY DEF TypeOK
<1>4. CASE Skip(k, next)
  <2>1. owner' = owner /\ GoTo(next) /\ cached.owner[k] # NoUid
    BY <1>4 DEF Skip
  <2> QED
    BY <1>3, <2>1, GoToType
<1>5. CASE Create(k, next)
  <2>1. CASE owner[k] = NoUid
    <3>1. owner' = [owner EXCEPT ![k] = pass.cr.uid] /\ GoTo(next)
      BY <1>5, <2>1 DEF Create
    <3>2. /\ owner' \in [Kinds -> Uids \cup {NoUid}]
          /\ owner'[k] = pass.cr.uid
          /\ \A j \in Kinds \ {k} : owner'[j] = owner[j]
      BY <1>1, <1>3, <3>1
    <3> QED
      BY <1>1, <2>1, <3>1, <3>2, GoToType
  <2>2. CASE owner[k] # NoUid
    BY <1>2, <1>3, <1>5, <2>2 DEF Create
  <2> QED
    BY <2>1, <2>2
<1> QED
  BY <1>4, <1>5

-----------------------------------------------------------------------------
\* Steps leave every object and every copy well formed, and the Secret has its
\* password from the request that creates it (controller, lines 141-170).
THEOREM TypeCorrect == Spec => []TypeOK
<1>1. Init => TypeOK
  <2> SUFFICES ASSUME Init PROVE TypeOK
    OBVIOUS
  <2>1. PICK spec \in left.specs : /\ cluster = [uid |-> 1, spec |-> spec, status |-> NewStatus]
                                   /\ fleet = WorkerDeployment(spec)
    BY DEF Init
  <2>2. left \in Left /\ spec \in Specs
    BY <2>1, ConstantsAssumption DEF Init, Left
  <2>3. NewStatus \in Statuses
    BY ConstantsAssumption DEF NewStatus, Statuses, Phases
  <2>4. cluster \in Clusters
    BY <2>1, <2>2, <2>3 DEF Clusters, Uids
  <2>5. fleet \in Fleets
    BY <2>1, <2>2, WorkerDeploymentType
  <2> QED
    BY <2>2, <2>4, <2>5, ConstantsAssumption
    DEF Init, TypeOK, Idle, Steps, Kinds, Uids, NoUid
<1>2. ASSUME TypeOK, [Next]_vars PROVE TypeOK'
  <2> USE <1>2
  <2>0. 0 \in 0..MaxWorkers
    BY ConstantsAssumption
  <2>1. CASE Begin
    BY <2>1, ConstantsAssumption DEF Begin, TypeOK, Steps, objects
  <2>2. CASE EnsureSecret
    <3>1. /\ pass.at # "idle" /\ (Create("secret", "name") \/ Skip("secret", "name"))
          /\ UNCHANGED <<cluster, lastUid, fleet, redisHas, workersHas, ready, cached, left>>
          /\ password' = IF owner'["secret"] = owner["secret"] THEN password ELSE FreshPassword
      BY <2>2 DEF EnsureSecret
    <3>2. /\ owner' \in [Kinds -> Uids \cup {NoUid}]
          /\ pass' \in [at : Steps, cr : Clusters \cup {NoCluster}]
          /\ (pass'.at = "idle") <=> (pass'.cr = NoCluster)
          /\ owner'["secret"] \in {owner["secret"], pass.cr.uid}
      BY <3>1, EnsureType DEF Kinds, Steps
    <3>3. password' \in Passwords \cup {NoPassword}
          /\ ((password' = NoPassword) <=> (owner'["secret"] = NoUid))
      BY <3>1, <3>2, FreshPasswordIsPassword, PassHasCopy, ConstantsAssumption
      DEF TypeOK, Uids, NoUid
    <3> QED
      BY <3>1, <3>2, <3>3 DEF TypeOK
  <2>3. CASE NameSecret
    <3> USE <2>3
    <3>1. CASE pass.cr.status.secretName
      BY <3>1, GoToType DEF NameSecret, TypeOK, objects, Steps
    <3>2. CASE ~ pass.cr.status.secretName /\ pass' = [at |-> "redis", cr |-> cluster']
               /\ cluster # NoCluster
               /\ cluster' = [cluster EXCEPT !.status.secretName = TRUE] /\ UNCHANGED left
      <4>1. cluster' \in Clusters
        <5>1. cluster \in Clusters
          BY <3>2 DEF TypeOK
        <5> QED
          BY <3>2, <5>1 DEF Clusters, Statuses
      <4> QED
        BY <3>2, <4>1, ConstantsAssumption DEF NameSecret, TypeOK, objects, Steps
    <3>3. CASE /\ ~ pass.cr.status.secretName
               /\ cluster = NoCluster \/ left.faults > 0
               /\ pass' = [at |-> "redis", cr |-> [pass.cr EXCEPT !.status.secretName = TRUE]]
               /\ left' = IF cluster = NoCluster THEN left ELSE [left EXCEPT !.faults = @ - 1]
               /\ UNCHANGED cluster
      <4>1. [pass.cr EXCEPT !.status.secretName = TRUE] \in Clusters
        BY PassHasCopy DEF Clusters, Statuses, NameSecret
      <4>2. left' \in Left
        BY <3>3 DEF TypeOK, Left
      <4> QED
        BY <3>3, <4>1, <4>2, ConstantsAssumption DEF NameSecret, TypeOK, objects, Steps
    <3> QED
      BY <3>1, <3>2, <3>3 DEF NameSecret
  <2>4. CASE EnsureRedis
    BY <2>4, EnsureType DEF EnsureRedis, TypeOK, Kinds, Steps
  <2>5. CASE EnsureService
    BY <2>5, EnsureType DEF EnsureService, TypeOK, Kinds, Steps
  <2>6. CASE CreateWorkers
    <3>1. CASE pass.at = "workers" /\ Create("workers", "status")
      <4>1. fleet' \in Fleets
        BY <2>6, PassHasCopy, WorkerDeploymentType DEF CreateWorkers, TypeOK
      <4> QED
        BY <2>6, <3>1, <4>1, EnsureType DEF CreateWorkers, TypeOK, Kinds, Steps
    <3> QED
      BY <2>6, <3>1 DEF CreateWorkers
  <2>7. CASE UpdateWorkers
    <3>1. /\ pass' = Idle \/ GoTo("status")
          /\ fleet' \in {fleet, Updated(cached.fleet, pass.cr.spec)}
          /\ workersHas' \in {workersHas, NoPassword} /\ ready' \in {ready, 0}
          /\ pass.at # "idle"
          /\ UNCHANGED <<cluster, lastUid, owner, password, redisHas, cached, left>>
      BY <2>7 DEF UpdateWorkers
    <3>2. fleet' \in Fleets
      BY <3>1, PassHasCopy, UpdatedType DEF TypeOK
    <3>3. ready' \in 0..MaxWorkers
      BY <2>0, <3>1 DEF TypeOK
    <3> QED
      BY <3>1, <3>2, <3>3, GoToType DEF TypeOK, Idle, Steps
  <2>8. CASE UpdateStatus
    <3>1. cluster' \in Clusters \cup {NoCluster}
      <4>1. CASE UNCHANGED cluster
        BY <4>1 DEF TypeOK
      <4>2. CASE cluster # NoCluster /\ cluster' = [cluster EXCEPT !.status =
                     StatusPatch(@, pass.cr.status, cached.ready,
                                 ComputePhase(cached.ready, pass.cr.spec.workers),
                                 pass.cr.spec.workers)]
        <5>1. cluster \in Clusters /\ cluster.status \in Statuses
          BY <4>2 DEF TypeOK, Clusters
        <5>2. pass.cr.spec.workers \in 1..MaxWorkers /\ cached.ready \in 0..MaxWorkers
          BY <2>8, PassHasCopy DEF UpdateStatus, Specs, TypeOK
        <5> DEFINE s == StatusPatch(cluster.status, pass.cr.status, cached.ready,
                                 ComputePhase(cached.ready, pass.cr.spec.workers),
                                 pass.cr.spec.workers)
        <5>3. s \in Statuses
          BY <5>1, <5>2, StatusPatchType
        <5>4. cluster' = [cluster EXCEPT !.status = s]
          BY <4>2
        <5> HIDE DEF s
        <5> QED
          BY <5>1, <5>3, <5>4, StatusChangeKeepsType
      <4> QED
        BY <2>8, <4>1, <4>2 DEF UpdateStatus
    <3> QED
      BY <2>8, <3>1 DEF UpdateStatus, TypeOK, Idle, Steps, objects
  <2>9. CASE Fail
    <3>1. left' \in Left
      BY <2>9 DEF Fail, TypeOK, Left
    <3> QED
      BY <2>9, <3>1 DEF Fail, TypeOK, Idle, Steps, objects
  <2>10. CASE SyncCluster
    BY <2>10 DEF SyncCluster, TypeOK, objects
  <2>11. ASSUME NEW ks \in Watched, SyncObjects(ks) PROVE TypeOK'
    BY <2>11 DEF SyncObjects, TypeOK, objects
  <2>12. CASE SyncPods
    BY <2>12 DEF SyncPods, TypeOK, objects
  <2>13. ASSUME NEW k \in Kinds, Collect(k) PROVE TypeOK'
    <3>1. /\ owner' = [owner EXCEPT ![k] = NoUid] /\ owner[k] \in Uids
          /\ UNCHANGED <<cluster, lastUid, fleet, cached, pass, left>>
      BY <2>13 DEF Collect
    <3>2. owner' \in [Kinds -> Uids \cup {NoUid}]
      BY <3>1 DEF TypeOK
    <3>3. /\ password' \in Passwords \cup {NoPassword}
          /\ ((password' = NoPassword) <=> (owner'["secret"] = NoUid))
      BY <2>13, <3>1 DEF Collect, TypeOK, Kinds, Uids, NoUid
    <3>4. /\ redisHas' \in {redisHas, NoPassword} /\ workersHas' \in {workersHas, NoPassword}
          /\ ready' \in {ready, 0}
      BY <2>13 DEF Collect
    <3> QED
      BY <2>0, <3>1, <3>2, <3>3, <3>4 DEF TypeOK
  <2>14. CASE RedisStarts
    BY <2>14 DEF RedisStarts, TypeOK
  <2>15. CASE WorkersStart
    BY <2>15 DEF WorkersStart, TypeOK
  <2>16. CASE PodsChange
    <3>1. left' \in Left
      BY <2>16 DEF PodsChange, TypeOK, Left
    <3>2. ready' \in 0..MaxWorkers
      BY <2>16, ConstantsAssumption DEF PodsChange, TypeOK, Fleets
    <3> QED
      BY <2>16, <3>1, <3>2 DEF PodsChange, TypeOK
  <2>17. CASE Edit
    <3>1. left' \in Left
      BY <2>17 DEF Edit, TypeOK, Left
    <3>2. cluster' \in Clusters
      BY <2>17 DEF Edit, TypeOK, Left, Clusters
    <3> QED
      BY <2>17, <3>1, <3>2 DEF Edit, TypeOK, objects
  <2>18. CASE Drift
    <3>1. left' \in Left
      BY <2>18 DEF Drift, TypeOK, Left
    <3>2. fleet' \in Fleets
      BY <2>18 DEF Drift, TypeOK, Fleets
    <3> QED
      BY <2>18, <3>1, <3>2 DEF Drift, TypeOK
  <2>19. CASE Delete
    <3>1. left' \in Left
      BY <2>19 DEF Delete, TypeOK, Left
    <3> QED
      BY <2>19, <3>1 DEF Delete, TypeOK, objects
  <2>20. CASE Recreate
    <3>1. left' \in Left
      BY <2>20 DEF Recreate, TypeOK, Left
    <3>2. NewStatus \in Statuses
      BY ConstantsAssumption DEF NewStatus, Statuses, Phases
    <3>3. lastUid' \in Uids
      BY <2>20 DEF Recreate, TypeOK, Uids
    <3>4. cluster' \in Clusters
      BY <2>20, <3>2, <3>3 DEF Recreate, Clusters, TypeOK, Left
    <3> QED
      BY <2>20, <3>1, <3>3, <3>4 DEF Recreate, TypeOK, objects
  <2>21. CASE UNCHANGED vars
    BY <2>21 DEF vars, objects, TypeOK
  <2> QED
    BY <2>1, <2>2, <2>3, <2>4, <2>5, <2>6, <2>7, <2>8, <2>9, <2>10, <2>11, <2>12, <2>13,
       <2>14, <2>15, <2>16, <2>17, <2>18, <2>19, <2>20, <2>21 DEF Next, Reconcile
<1> QED
  BY <1>1, <1>2, PTL DEF Spec

-----------------------------------------------------------------------------
FirstLifeSafe == FirstLife /\ PasswordsAgree

\* In its first life a step of the pass that leaves every object but one alone, and
\* creates that one at most, keeps the Secret where it is.
LEMMA EnsureFirstLife ==
    ASSUME TypeOK, FirstLife, lastUid = 1, cluster # NoCluster,
           NEW k \in Kinds, NEW next \in Steps \ {"idle"}, pass.at # "idle",
           Create(k, next) \/ Skip(k, next)
    PROVE  /\ \A j \in Kinds : /\ owner'[j] \in {NoUid, 1}
                               /\ owner[j] # NoUid => owner'[j] # NoUid
                               /\ j # k => owner'[j] = owner[j]
           /\ pass'.at # "idle" => pass'.at = next /\ pass'.cr = pass.cr /\ owner'[k] # NoUid
<1>1. /\ \A j \in Kinds \ {k} : owner'[j] = owner[j]
      /\ owner'[k] \in {owner[k], pass.cr.uid}
      /\ owner'[k] = owner[k] <=> owner' = owner
      /\ owner' # owner => owner[k] = NoUid
      /\ pass' = Idle \/ (pass'.at = next /\ pass'.cr = pass.cr)
      /\ pass' # Idle => cached.owner[k] # NoUid \/ owner'[k] # NoUid
  BY EnsureType
<1>2. /\ pass.cr.uid = 1
      /\ \A j \in Kinds : owner[j] \in {NoUid, 1} /\ (cached.owner[j] # NoUid => owner[j] # NoUid)
  BY DEF FirstLife
<1>3. Idle.at = "idle" /\ NoUid # 1
  BY DEF Idle, NoUid
<1> QED
  BY <1>1, <1>2, <1>3

\* In a resource's first life Redis and the workers that use it stand beside the
\* Secret and hold its password, wherever passes fail and however old the copies
\* they work with are (controller, lines 127-171 and 180-186).
THEOREM PasswordsStayEqual == Spec => []PasswordsAgree
<1>1. Init => FirstLifeSafe
  BY ConstantsAssumption DEF Init, FirstLifeSafe, FirstLife, PasswordsAgree, Idle, Kinds, NoUid, Clusters
<1>2. ASSUME TypeOK, TypeOK', FirstLifeSafe, [Next]_vars PROVE FirstLifeSafe'
  <2> SUFFICES ASSUME lastUid' = 1, cluster' # NoCluster PROVE FirstLifeSafe'
    BY DEF FirstLifeSafe, FirstLife, PasswordsAgree
  <2>1. CASE Recreate
    BY <1>2, <2>1 DEF Recreate, TypeOK, Uids
  <2>2. CASE ~ Recreate
    <3>1. lastUid = 1 /\ cluster # NoCluster
      BY <1>2, <2>2 DEF Next, Reconcile, Begin, EnsureSecret, NameSecret, EnsureRedis,
         EnsureService, CreateWorkers, UpdateWorkers, UpdateStatus, Fail, SyncCluster,
         SyncPods, SyncObjects, Collect, RedisStarts, WorkersStart, PodsChange, Edit, Drift,
         Delete, vars
    <3> DEFINE Secured == owner["secret"] # NoUid
    <3>2. /\ cluster.uid = 1 /\ cluster \in Clusters
          /\ cached.cr # NoCluster /\ cached.cr.uid = 1
          /\ pass.at # "idle" => pass.cr.uid = 1
          /\ \A k \in Kinds : /\ owner[k] \in {NoUid, 1}
                              /\ cached.owner[k] # NoUid => owner[k] # NoUid
          /\ pass.at \in {"name", "redis", "service"} => Secured
          /\ pass.at = "workers" /\ ~ pass.cr.spec.ownRedis => Secured
          /\ owner["redis"] # NoUid \/ (owner["workers"] # NoUid /\ ~ fleet.ownRedis) => Secured
          /\ redisHas \in {NoPassword, password}
          /\ workersHas \in {NoPassword, password}
      BY <1>2, <3>1 DEF FirstLifeSafe, FirstLife, PasswordsAgree, TypeOK
    <3>3. ("secret" \in Kinds) /\ ("redis" \in Kinds) /\ ("service" \in Kinds) /\ ("workers" \in Kinds)
      BY DEF Kinds
    <3> USE DEF FirstLifeSafe, FirstLife, PasswordsAgree
    <3>4. CASE Begin
      BY <3>1, <3>2, <3>4 DEF Begin, objects
    <3>5. CASE EnsureSecret
      <4>1. /\ \A j \in Kinds : /\ owner'[j] \in {NoUid, 1}
                                /\ owner[j] # NoUid => owner'[j] # NoUid
                                /\ j # "secret" => owner'[j] = owner[j]
            /\ pass'.at # "idle" => pass'.at = "name" /\ pass'.cr = pass.cr /\ owner'["secret"] # NoUid
        BY <1>2, <3>1, <3>3, <3>5, EnsureFirstLife DEF EnsureSecret, Steps
      <4>2. /\ UNCHANGED <<cluster, lastUid, fleet, redisHas, workersHas, ready, cached, left>>
            /\ Secured => password' = password
        <5>1. owner'["secret"] = owner["secret"] => password' = password
          BY <3>5 DEF EnsureSecret
        <5> QED
          BY <3>2, <3>3, <3>5, <4>1, <5>1 DEF EnsureSecret
      <4>3. ~ Secured => redisHas = NoPassword /\ workersHas = NoPassword
        BY <1>2, <3>2 DEF TypeOK
      <4>4. PasswordsAgree'
        BY <3>1, <3>2, <3>3, <4>1, <4>2, <4>3
      <4>5. FirstLife'
        <5>1. pass'.at # "idle" => pass'.cr.uid = 1
          BY <3>2, <3>5, <4>1 DEF EnsureSecret
        <5> QED
          BY <3>1, <3>2, <3>3, <4>1, <4>2, <5>1
      <4> QED
        BY <4>4, <4>5
    <3>6. CASE NameSecret
      <4>1. /\ pass.at = "name" /\ pass'.at = "redis" /\ pass'.cr.uid = 1
            /\ cluster'.uid = 1
            /\ UNCHANGED <<lastUid, objects, cached>>
        <5>1. pass.cr \in Clusters
          BY <1>2, <3>6, PassHasCopy DEF NameSecret
        <5> QED
          BY <1>2, <3>2, <3>6, <5>1 DEF NameSecret, GoTo, Clusters, TypeOK
      <4> QED
        BY <3>1, <3>2, <4>1 DEF objects
    <3>7. CASE EnsureRedis
      <4>1. /\ \A j \in Kinds : /\ owner'[j] \in {NoUid, 1}
                                /\ owner[j] # NoUid => owner'[j] # NoUid
                                /\ j # "redis" => owner'[j] = owner[j]
            /\ pass'.at # "idle" => pass'.at = "service" /\ pass'.cr = pass.cr
        BY <1>2, <3>1, <3>3, <3>7, EnsureFirstLife DEF EnsureRedis, Steps
      <4> QED
        BY <3>1, <3>2, <3>3, <3>7, <4>1 DEF EnsureRedis
    <3>8. CASE EnsureService
      <4>1. /\ \A j \in Kinds : /\ owner'[j] \in {NoUid, 1}
                                /\ owner[j] # NoUid => owner'[j] # NoUid
                                /\ j # "service" => owner'[j] = owner[j]
            /\ pass'.at # "idle" => pass'.at = "workers" /\ pass'.cr = pass.cr
        BY <1>2, <3>1, <3>3, <3>8, EnsureFirstLife DEF EnsureService, Steps
      <4> QED
        BY <3>1, <3>2, <3>3, <3>8, <4>1 DEF EnsureService
    <3>9. CASE CreateWorkers
      <4>1. /\ \A j \in Kinds : /\ owner'[j] \in {NoUid, 1}
                                /\ owner[j] # NoUid => owner'[j] # NoUid
                                /\ j # "workers" => owner'[j] = owner[j]
            /\ pass'.at # "idle" => pass'.at = "status" /\ pass'.cr = pass.cr
        BY <1>2, <3>1, <3>3, <3>9, EnsureFirstLife DEF CreateWorkers, Steps
      <4>2. /\ owner' = owner => fleet' = fleet
            /\ owner' # owner => fleet'.ownRedis = pass.cr.spec.ownRedis
        BY <3>9 DEF CreateWorkers, WorkerDeployment
      <4> QED
        BY <3>1, <3>2, <3>3, <3>9, <4>1, <4>2 DEF CreateWorkers
    <3>10. CASE UpdateWorkers
      <4>1. /\ pass.at = "workers"
            /\ pass'.at = "idle" \/ (pass'.at = "status" /\ pass'.cr = pass.cr)
        BY <1>2, <3>10 DEF UpdateWorkers, GoTo, Idle, TypeOK
      <4>2. fleet'.ownRedis = fleet.ownRedis
        BY <1>2, <3>10, UpdatedType, PassHasCopy DEF UpdateWorkers, TypeOK
      <4>3. /\ UNCHANGED <<cluster, lastUid, owner, password, redisHas, cached, left>>
            /\ workersHas' \in {workersHas, NoPassword}
        BY <3>10 DEF UpdateWorkers
      <4> QED
        BY <3>1, <3>2, <4>1, <4>2, <4>3
    <3>11. CASE UpdateStatus
      <4>1. cluster'.uid = cluster.uid
        BY <1>2, <3>2, <3>11 DEF UpdateStatus, Clusters
      <4> QED
        BY <3>1, <3>2, <3>11, <4>1 DEF UpdateStatus, Idle, objects
    <3>12. CASE Fail
      BY <3>1, <3>2, <3>12 DEF Fail, Idle, objects
    <3>13. CASE SyncCluster
      BY <1>2, <3>1, <3>2, <3>13 DEF SyncCluster, TypeOK, objects
    <3>14. ASSUME NEW ks \in Watched, SyncObjects(ks) PROVE FirstLifeSafe'
      <4>1. /\ cached'.cr = cached.cr
            /\ \A k \in Kinds : cached'.owner[k] \in {owner[k], cached.owner[k]}
            /\ UNCHANGED <<cluster, lastUid, objects, pass, left>>
        BY <1>2, <3>14 DEF SyncObjects, TypeOK
      <4> QED
        BY <3>1, <3>2, <4>1 DEF objects
    <3>15. CASE SyncPods
      BY <1>2, <3>1, <3>2, <3>15 DEF SyncPods, TypeOK, objects
    <3>16. ASSUME NEW k \in Kinds, Collect(k) PROVE FALSE
      BY <3>1, <3>2, <3>16 DEF Collect, Uids, NoUid
    <3>17. CASE RedisStarts
      BY <3>1, <3>2, <3>17 DEF RedisStarts
    <3>18. CASE WorkersStart
      BY <3>1, <3>2, <3>18 DEF WorkersStart
    <3>19. CASE PodsChange
      BY <3>1, <3>2, <3>19 DEF PodsChange
    <3>20. CASE Edit
      BY <3>1, <3>2, <3>20 DEF Edit, Clusters, objects
    <3>21. CASE Drift
      BY <1>2, <3>1, <3>2, <3>21 DEF Drift, TypeOK, Fleets
    <3>22. CASE Delete
      BY <3>22 DEF Delete
    <3>23. CASE UNCHANGED vars
      BY <3>1, <3>2, <3>23 DEF vars, objects
    <3> QED
      BY <1>2, <2>2, <3>4, <3>5, <3>6, <3>7, <3>8, <3>9, <3>10, <3>11, <3>12, <3>13, <3>14,
         <3>15, <3>16, <3>17, <3>18, <3>19, <3>20, <3>21, <3>22, <3>23 DEF Next, Reconcile
  <2> QED
    BY <2>1, <2>2
<1>3. FirstLifeSafe => PasswordsAgree
  BY DEF FirstLifeSafe
<1> QED
  BY <1>1, <1>2, <1>3, TypeCorrect, PTL DEF Spec
=============================================================================
