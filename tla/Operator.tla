----------------------------- MODULE Operator -----------------------------
(***************************************************************************)
(* The Kubernetes operator: the reconcile loop of one                      *)
(* ApohraContextForgeCluster resource (src/operator/controllers).          *)
(*                                                                         *)
(* The loop reads through the manager's caches, which lag behind the API   *)
(* server, and writes to the server, so every decision may rest on an old  *)
(* copy.  A step of the loop is one request to the server with the reads   *)
(* that decide it.  Users edit, delete and recreate the resource, pods     *)
(* come and go and the garbage collector removes the objects of a deleted  *)
(* resource between any two steps; a step that fails, or a restart of the  *)
(* operator, ends the pass, and the next one starts over.                  *)
(*                                                                         *)
(* A definition marked (fault) is a plausible bug in the definition after  *)
(* it; nothing uses it, and some property tells the two apart.             *)
(***************************************************************************)
EXTENDS Integers, FiniteSets

CONSTANTS MaxWorkers,   \* most workers a resource asks for (32 in the CRD)
          Images,       \* container images of the workers
          Passwords,    \* what the random generator may return
          NoPassword,
          NoCluster,    \* the resource does not exist
          Scenarios     \* bounds on what users, nodes and the network do

Uids   == Nat \ {0}
NoUid  == 0
Kinds  == {"secret", "redis", "service", "workers"}
Watched == {{"secret"}, {"service"}, {"redis", "workers"}}
Phases == {"", "Pending", "Degraded", "Ready"}
Steps  == {"idle", "secret", "name", "redis", "service", "workers", "status"}

Specs    == [workers : 1..MaxWorkers, image : Images, ownRedis : BOOLEAN]
Statuses == [ready : 0..MaxWorkers, phase : Phases, available : BOOLEAN, secretName : BOOLEAN]
Clusters == [uid : Uids, spec : Specs, status : Statuses]
Fleets   == [replicas : 1..MaxWorkers, image : Images, ownRedis : BOOLEAN]

\* How often someone edits, deletes and recreates the resource and with which
\* specifications, how many requests fail, and how often the ready pods change
Left == [edits : Nat, deletes : Nat, creates : Nat, specs : SUBSET Specs,
         faults : Nat, churn : Nat]

ASSUME ConstantsAssumption ==
    /\ MaxWorkers \in Nat \ {0}
    /\ NoPassword \notin Passwords
    /\ NoCluster \notin Clusters
    /\ \A p, q \in Passwords \cup {NoPassword} : \E r \in Passwords : r \notin {p, q}
    /\ Scenarios \subseteq Left

VARIABLES
    cluster,     \* the resource on the API server
    lastUid,     \* uid of its latest creation
    owner,       \* per object: uid in its owner reference, NoUid if it does not exist
    fleet,       \* replicas, image and Redis of the worker Deployment
    password,    \* in the Secret
    redisHas,    \* the password the Redis pod was started with
    workersHas,  \* the one the worker pods were started with
    ready,       \* worker pods that are Ready
    cached,      \* the operator's copies of the above
    pass,        \* the reconcile pass: its step and its copy of the resource
    left         \* what is left of the scenario's bounds

objects == <<owner, fleet, password, redisHas, workersHas, ready>>
vars    == <<cluster, lastUid, objects, cached, pass, left>>

NewStatus == [ready |-> 0, phase |-> "", available |-> FALSE, secretName |-> FALSE]
Idle      == [at |-> "idle", cr |-> NoCluster]

\* The worker Deployment a specification asks for
WorkerDeployment(spec) ==
    [replicas |-> spec.workers, image |-> spec.image, ownRedis |-> spec.ownRedis]

ComputePhase(n, wanted) ==
    IF n = 0 THEN "Pending" ELSE IF n < wanted THEN "Degraded" ELSE "Ready"

Init ==
    /\ left \in Scenarios
    /\ \E spec \in left.specs :
         /\ cluster = [uid |-> 1, spec |-> spec, status |-> NewStatus]
         /\ fleet = WorkerDeployment(spec)
    /\ lastUid = 1
    /\ owner = [k \in Kinds |-> NoUid]
    /\ password = NoPassword
    /\ redisHas = NoPassword
    /\ workersHas = NoPassword
    /\ ready = 0
    /\ cached = [cr |-> cluster, owner |-> owner, fleet |-> fleet, ready |-> 0]
    /\ pass = Idle

-----------------------------------------------------------------------------
(* A reconcile pass.                                                       *)

GoTo(step) == pass' = [pass EXCEPT !.at = step]

\* A pass begins with the cached resource: a user's own Redis needs no sidecar.
Begin ==
    /\ pass.at = "idle"
    /\ cached.cr # NoCluster
    /\ pass' = [at |-> IF cached.cr.spec.ownRedis THEN "workers" ELSE "secret",
                cr |-> cached.cr]
    /\ UNCHANGED <<cluster, lastUid, objects, cached, left>>

\* Create an object the cache does not show.  The server refuses a name it has.
Create(k, next) ==
    /\ cached.owner[k] = NoUid
    /\ IF owner[k] = NoUid
       THEN owner' = [owner EXCEPT ![k] = pass.cr.uid] /\ GoTo(next)
       ELSE pass' = Idle /\ UNCHANGED owner

Skip(k, next) ==
    /\ cached.owner[k] # NoUid
    /\ GoTo(next)
    /\ UNCHANGED owner

\* A random password: one that no pod holds.
FreshPassword == CHOOSE p \in Passwords : p \notin {redisHas, workersHas}

\* (fault) The Secret is made anew by every pass; it is made without a password.
EnsureSecretRotates ==
    /\ pass.at = "secret"
    /\ owner' = [owner EXCEPT !["secret"] = pass.cr.uid]
    /\ GoTo("name")
    /\ password' = FreshPassword
    /\ UNCHANGED <<cluster, lastUid, fleet, redisHas, workersHas, ready, cached, left>>

EnsureSecretEmpty ==
    /\ pass.at = "secret"
    /\ Create("secret", "name") \/ Skip("secret", "name")
    /\ UNCHANGED <<cluster, lastUid, fleet, password, redisHas, workersHas, ready, cached, left>>

\* The auth Secret gets a fresh password once and is never rotated.
EnsureSecret ==
    /\ pass.at = "secret"
    /\ Create("secret", "name") \/ Skip("secret", "name")
    /\ IF owner'["secret"] = owner["secret"]
       THEN UNCHANGED password
       ELSE password' = FreshPassword
    /\ UNCHANGED <<cluster, lastUid, fleet, redisHas, workersHas, ready, cached, left>>

\* The Secret's name goes into the status.  The answer to the patch replaces the
\* pass's copy by the server's, specification included; a refused patch is ignored.
NameSecret ==
    /\ pass.at = "name"
    /\ \/ /\ pass.cr.status.secretName
          /\ GoTo("redis")
          /\ UNCHANGED <<cluster, left>>
       \/ /\ ~ pass.cr.status.secretName
          /\ cluster # NoCluster
          /\ cluster' = [cluster EXCEPT !.status.secretName = TRUE]
          /\ pass' = [at |-> "redis", cr |-> cluster']
          /\ UNCHANGED left
       \/ /\ ~ pass.cr.status.secretName
          /\ cluster = NoCluster \/ left.faults > 0
          /\ pass' = [at |-> "redis", cr |-> [pass.cr EXCEPT !.status.secretName = TRUE]]
          /\ left' = IF cluster = NoCluster THEN left ELSE [left EXCEPT !.faults = @ - 1]
          /\ UNCHANGED cluster
    /\ UNCHANGED <<lastUid, objects, cached>>

EnsureRedis ==
    /\ pass.at = "redis"
    /\ Create("redis", "service") \/ Skip("redis", "service")
    /\ UNCHANGED <<cluster, lastUid, fleet, password, redisHas, workersHas, ready, cached, left>>

\* (fault) The Service is created without an owner reference.
EnsureServiceUnowned ==
    /\ pass.at = "service"
    /\ IF cached.owner["service"] = NoUid /\ owner["service"] = NoUid
       THEN owner' = [owner EXCEPT !["service"] = -1] /\ GoTo("workers")
       ELSE Create("service", "workers") \/ Skip("service", "workers")
    /\ UNCHANGED <<cluster, lastUid, fleet, password, redisHas, workersHas, ready, cached, left>>

EnsureService ==
    /\ pass.at = "service"
    /\ Create("service", "workers") \/ Skip("service", "workers")
    /\ UNCHANGED <<cluster, lastUid, fleet, password, redisHas, workersHas, ready, cached, left>>

CreateWorkers ==
    /\ pass.at = "workers"
    /\ Create("workers", "status")
    /\ fleet' = IF owner' = owner THEN fleet ELSE WorkerDeployment(pass.cr.spec)
    /\ UNCHANGED <<cluster, lastUid, password, redisHas, workersHas, ready, cached, left>>

\* (fault) The image is not compared.
UpdatedReplicas(seen, spec) == [seen EXCEPT !.replicas = spec.workers]

\* What an update sets in the Deployment it has read: replicas and image only.
Updated(seen, spec) == [seen EXCEPT !.replicas = spec.workers, !.image = spec.image]

\* The update is refused when the Deployment has changed since it was cached, or is
\* gone.  Another image replaces the pods.
UpdateWorkers ==
    /\ pass.at = "workers"
    /\ cached.owner["workers"] # NoUid
    /\ LET wanted == Updated(cached.fleet, pass.cr.spec)
           current == cached.owner["workers"] = owner["workers"] /\ cached.fleet = fleet IN
         \/ /\ wanted = cached.fleet
            /\ GoTo("status")
            /\ UNCHANGED <<fleet, workersHas, ready>>
         \/ /\ wanted # cached.fleet /\ current
            /\ fleet' = wanted
            /\ IF wanted.image = fleet.image
               THEN UNCHANGED <<workersHas, ready>>
               ELSE workersHas' = NoPassword /\ ready' = 0
            /\ GoTo("status")
         \/ /\ wanted # cached.fleet /\ ~ current
            /\ pass' = Idle
            /\ UNCHANGED <<fleet, workersHas, ready>>
    /\ UNCHANGED <<cluster, lastUid, owner, password, redisHas, cached, left>>

\* A merge patch of the status: of the count and the phase it holds those that differ
\* from the pass's copy; the Available condition is always among the changes.
StatusPatch(onServer, copy, n, phase, wanted) ==
    [onServer EXCEPT !.ready = IF copy.ready = n THEN @ ELSE n,
                     !.phase = IF copy.phase = phase THEN @ ELSE phase,
                     !.available = n >= wanted]

\* (fault) The phase is not compared.
SameCount(copy, n, phase) == copy.ready = n

\* "Only patch status when it has actually changed"
StatusIsSame(copy, n, phase) == copy.ready = n /\ copy.phase = phase

UpdateStatus ==
    /\ pass.at = "status"
    /\ LET n      == cached.ready
           wanted == pass.cr.spec.workers
           phase  == ComputePhase(n, wanted)
           copy   == pass.cr.status
       IN  IF cluster = NoCluster \/ StatusIsSame(copy, n, phase)
           THEN UNCHANGED cluster
           ELSE cluster' = [cluster EXCEPT !.status = StatusPatch(@, copy, n, phase, wanted)]
    /\ pass' = Idle
    /\ UNCHANGED <<lastUid, objects, cached, left>>

\* A request fails, or the operator restarts: the pass ends where it is.
Fail ==
    /\ pass.at # "idle"
    /\ left.faults > 0
    /\ pass' = Idle
    /\ left' = [left EXCEPT !.faults = @ - 1]
    /\ UNCHANGED <<cluster, lastUid, objects, cached>>

Reconcile ==
    \/ Begin \/ EnsureSecret \/ NameSecret \/ EnsureRedis \/ EnsureService
    \/ CreateWorkers \/ UpdateWorkers \/ UpdateStatus

-----------------------------------------------------------------------------
(* The caches of the manager follow the API server, each at its own pace.  *)

SyncCluster ==
    /\ cached.cr # cluster
    /\ cached' = [cached EXCEPT !.cr = cluster]
    /\ UNCHANGED <<cluster, lastUid, objects, pass, left>>

\* One watch per type of object: the two Deployments come together.
SyncObjects(ks) ==
    /\ \/ \E k \in ks : cached.owner[k] # owner[k]
       \/ "workers" \in ks /\ cached.fleet # fleet
    /\ cached' = [cached EXCEPT
                    !.owner = [k \in Kinds |-> IF k \in ks THEN owner[k] ELSE @[k]],
                    !.fleet = IF "workers" \in ks THEN fleet ELSE @]
    /\ UNCHANGED <<cluster, lastUid, objects, pass, left>>

SyncPods ==
    /\ cached.ready # ready
    /\ cached' = [cached EXCEPT !.ready = ready]
    /\ UNCHANGED <<cluster, lastUid, objects, pass, left>>

-----------------------------------------------------------------------------
(* The cluster around the operator.                                        *)

\* The garbage collector removes what no living resource owns, its pods included.
Collect(k) ==
    /\ owner[k] \in Uids
    /\ cluster # NoCluster => cluster.uid # owner[k]
    /\ owner' = [owner EXCEPT ![k] = NoUid]
    /\ password' = IF k = "secret" THEN NoPassword ELSE password
    /\ redisHas' = IF k = "redis" THEN NoPassword ELSE redisHas
    /\ workersHas' = IF k = "workers" THEN NoPassword ELSE workersHas
    /\ ready' = IF k = "workers" THEN 0 ELSE ready
    /\ UNCHANGED <<cluster, lastUid, fleet, cached, pass, left>>

\* A pod that refers to the Secret waits for it, and keeps the password it read.
RedisStarts ==
    /\ owner["redis"] # NoUid /\ owner["secret"] # NoUid
    /\ redisHas = NoPassword
    /\ redisHas' = password
    /\ UNCHANGED <<cluster, lastUid, owner, fleet, password, workersHas, ready, cached, pass, left>>

WorkersStart ==
    /\ owner["workers"] # NoUid /\ owner["secret"] # NoUid
    /\ ~ fleet.ownRedis
    /\ workersHas = NoPassword
    /\ workersHas' = password
    /\ UNCHANGED <<cluster, lastUid, owner, fleet, password, redisHas, ready, cached, pass, left>>

\* Worker pods pass or fail their readiness probe.
PodsChange ==
    /\ left.churn > 0
    /\ owner["workers"] # NoUid
    /\ fleet.ownRedis \/ workersHas # NoPassword
    /\ ready' \in (0..fleet.replicas) \ {ready}
    /\ left' = [left EXCEPT !.churn = @ - 1]
    /\ UNCHANGED <<cluster, lastUid, owner, fleet, password, redisHas, workersHas, cached, pass>>

\* A user edits the resource.
Edit ==
    /\ left.edits > 0
    /\ cluster # NoCluster
    /\ \E spec \in left.specs \ {cluster.spec} : cluster' = [cluster EXCEPT !.spec = spec]
    /\ left' = [left EXCEPT !.edits = @ - 1]
    /\ UNCHANGED <<lastUid, objects, cached, pass>>

\* Someone scales the worker Deployment by hand.
Drift ==
    /\ left.edits > 0
    /\ owner["workers"] # NoUid
    /\ \E n \in (1..MaxWorkers) \ {fleet.replicas} : fleet' = [fleet EXCEPT !.replicas = n]
    /\ left' = [left EXCEPT !.edits = @ - 1]
    /\ UNCHANGED <<cluster, lastUid, owner, password, redisHas, workersHas, ready, cached, pass>>

Delete ==
    /\ left.deletes > 0
    /\ cluster # NoCluster
    /\ cluster' = NoCluster
    /\ left' = [left EXCEPT !.deletes = @ - 1]
    /\ UNCHANGED <<lastUid, objects, cached, pass>>

Recreate ==
    /\ cluster = NoCluster
    /\ left.creates > 0
    /\ lastUid' = lastUid + 1
    /\ \E spec \in left.specs : cluster' = [uid |-> lastUid', spec |-> spec, status |-> NewStatus]
    /\ left' = [left EXCEPT !.creates = @ - 1]
    /\ UNCHANGED <<objects, cached, pass>>

Next ==
    \/ Reconcile \/ Fail
    \/ SyncCluster \/ SyncPods
    \/ (\E ks \in Watched : SyncObjects(ks)) \/ (\E k \in Kinds : Collect(k))
    \/ RedisStarts \/ WorkersStart \/ PodsChange
    \/ Edit \/ Drift \/ Delete \/ Recreate

Spec == Init /\ [][Next]_vars

\* Passes are requeued every 30 seconds and after every error, the watches deliver,
\* the garbage collector runs and a pod whose Secret exists starts.
FairSpec ==
    /\ Spec
    /\ WF_vars(Reconcile)
    /\ WF_vars(SyncCluster) /\ WF_vars(SyncPods)
    /\ \A ks \in Watched : WF_vars(SyncObjects(ks))
    /\ \A k \in Kinds : WF_vars(Collect(k))
    /\ WF_vars(RedisStarts) /\ WF_vars(WorkersStart)

-----------------------------------------------------------------------------
(* Properties.                                                             *)

\* Every object and every copy of one is well formed, and a Secret has a password
\* exactly while it exists.
TypeOK ==
    /\ cluster \in Clusters \cup {NoCluster}
    /\ lastUid \in Uids
    /\ owner \in [Kinds -> Uids \cup {NoUid}]
    /\ fleet \in Fleets
    /\ password \in Passwords \cup {NoPassword}
    /\ (password = NoPassword) <=> (owner["secret"] = NoUid)
    /\ redisHas \in Passwords \cup {NoPassword}
    /\ workersHas \in Passwords \cup {NoPassword}
    /\ ready \in 0..MaxWorkers
    /\ cached \in [cr : Clusters \cup {NoCluster}, owner : [Kinds -> Uids \cup {NoUid}],
                   fleet : Fleets, ready : 0..MaxWorkers]
    /\ pass \in [at : Steps, cr : Clusters \cup {NoCluster}]
    /\ (pass.at = "idle") <=> (pass.cr = NoCluster)
    /\ left \in Left

\* While the resource has not been deleted, whatever stale copies a pass works with
\* and wherever passes fail, Redis and workers that use it exist only beside the
\* Secret, and their pods hold its password (reconcileRedisAuthSecret, "do not
\* rotate", and "must exist before Deployment", line 185).
PasswordsAgree ==
    (lastUid = 1 /\ cluster # NoCluster) =>
        /\ owner["redis"] # NoUid \/ (owner["workers"] # NoUid /\ ~ fleet.ownRedis)
              => owner["secret"] # NoUid
        /\ redisHas \in {NoPassword, password}
        /\ workersHas \in {NoPassword, password}

\* What makes PasswordsAgree inductive: in its first life nothing is collected, so an
\* object that the cache shows is there, and a pass that has seen to the Secret, or
\* whose copy needs it, runs beside it.
FirstLife ==
    (lastUid = 1 /\ cluster # NoCluster) =>
        /\ cluster.uid = 1
        /\ cached.cr # NoCluster /\ cached.cr.uid = 1
        /\ pass.at # "idle" => pass.cr.uid = 1
        /\ \A k \in Kinds : /\ owner[k] \in {NoUid, 1}
                            /\ cached.owner[k] # NoUid => owner[k] # NoUid
        /\ pass.at \in {"name", "redis", "service"} => owner["secret"] # NoUid
        /\ pass.at = "workers" /\ ~ pass.cr.spec.ownRedis => owner["secret"] # NoUid

AsWanted ==
    cluster # NoCluster =>
        /\ owner["workers"] = cluster.uid
        /\ fleet.replicas = cluster.spec.workers
        /\ fleet.image = cluster.spec.image
        /\ ~ cluster.spec.ownRedis => \A k \in Kinds : owner[k] = cluster.uid

\* When edits, deletions and failures stop, the objects of the resource come to be
\* there, each its own, with the replicas and the image it asks for ("The reconciler
\* is level-driven", line 74).
Settles == <>[]AsWanted

CountIsRight ==
    cluster # NoCluster =>
        /\ cluster.status.ready = ready
        /\ cluster.status.phase = ComputePhase(ready, cluster.spec.workers)

\* When pods and users come to rest, the status says how many workers are ready and
\* the phase that follows from it, though passes patch it from old copies of it
\* ("kept in sync with observed state", line 72).
StatusFollowsPods == <>[]CountIsRight

\* Of a resource deleted for good nothing stays, also what a pass that was under way
\* created after the deletion ("garbage-collected when the CR is deleted", line 584).
NothingOutlivesCluster ==
    <>[](cluster = NoCluster => \A k \in Kinds : owner[k] = NoUid)

-----------------------------------------------------------------------------
(* Statements that do not hold.                                            *)

\* Worker pods are given the current Redis URL (README.md of the operator: workers
\* are created or updated with "env vars LMCACHE_REDIS_URL + MODEL").
WorkersFollowUrl ==
    <>[](cluster # NoCluster => fleet.ownRedis = cluster.spec.ownRedis)

\* The Available condition agrees with the phase when everything rests.
AvailableFollowsPhase ==
    <>[](cluster # NoCluster => (cluster.status.available <=> cluster.status.phase = "Ready"))

\* The workers of a recreated resource can authenticate in the end.
WorkersCanAuthenticate ==
    <>[](redisHas # NoPassword /\ workersHas # NoPassword => redisHas = workersHas)
=============================================================================
