------------------------------ MODULE Gate0Run ------------------------------
(***************************************************************************)
(* GATE #0: a run of the three arms one after another on one card          *)
(* (scripts/gate0/harness.py), or of two workers an arm, the first storing *)
(* to Redis and the second, cold, retrieving from it                       *)
(* (scripts/gate0/cross_worker.py), over the server processes              *)
(* (scripts/gate0/_lifecycle.py).  What goes wrong takes from a budget.    *)
(* vLLM is external: a server keeps the salts of the prefixes it has seen. *)
(*                                                                         *)
(* A definition marked (fault) is a plausible bug in the definition after  *)
(* it; nothing uses it, and some property tells the two apart.             *)
(***************************************************************************)
EXTENDS Gate0Readings

CONSTANTS
    KVUse,        \* arm -> what its traffic may come to hold in the KV cache
    Weights,      \* what a server takes of the card once it has loaded
    Slacks,       \* what traffic may add to it: the KV pool is taken up front
    Exposures,    \* which gauges the server's build may expose
    MaxPolls, MaxRuns, MaxFaults   \* bounds

ASSUME RunAssumption ==
    /\ {Weights, MaxPolls, MaxRuns, MaxFaults} \subseteq Nat
    /\ KVUse \in [{"A", "B", "C"} -> SUBSET Nat]

VARIABLES
    task,      \* the harness: [topology, arm, worker, step, ready, exposed, apart]
    card,      \* the server processes alive, survivors of a kill among them
    target,    \* the server that answers at the port
    polls,     \* polls of /health
    results,   \* arm -> ArmResult of this run
    redis,     \* salts whose blocks the shared store holds
    logs,      \* the raw logs on disk
    runs,      \* runs begun
    faults     \* what may still go wrong

runVars == <<task, card, target, polls, results, redis, logs, runs, faults>>

Idle == [topology |-> "single_worker", arm |-> 1, worker |-> 1,
         step |-> "idle", ready |-> FALSE, exposed |-> {}, apart |-> FALSE]
NoResults == [arm \in {} |-> Null]

RunInit ==
    /\ task = Idle /\ card = {} /\ target = Null /\ polls = 0
    /\ results = NoResults /\ redis = {} /\ logs = << >>
    /\ runs = 0 /\ faults = MaxFaults

-----------------------------------------------------------------------------
Arm   == Arms[task.arm]
Cross == task.topology = "cross_worker"

\* (fault) every arm on the first port
PortFault == <<"w", task.worker>>

\* default_ports, or --port-w1 and --port-w2
Port == IF Cross THEN <<"w", task.worker>> ELSE <<"arm", Arm>>

Launch == <<runs, Arm, task.worker>>
Mine   == {s \in card : s.launch = Launch}
Answering == {s \in card : s.port = Port /\ s.fate = "serves"}

Unmeasured(logged) ==
    [topology |-> task.topology, measured |-> FALSE, kv |-> Null, prefix |-> Null,
     apcLogged |-> logged, launch |-> Null, used |-> Null, answered |-> 0]

\* Concurrent requests may come too close together to hit what they repeat
StartRun(topology, exposed, apart) ==
    /\ task.step = "idle" /\ runs < MaxRuns
    /\ runs' = runs + 1 /\ results' = NoResults
    /\ task' = [Idle EXCEPT !.topology = topology, !.step = "spawn",
                             !.exposed = exposed, !.apart = apart]
    /\ UNCHANGED <<card, target, polls, redis, logs, faults>>

\* --mode dry: the same plumbing, no server
DryRun(topology) ==
    LET unmeasured == [Unmeasured(FALSE) EXCEPT !.topology = topology] IN
    /\ task.step = "idle" /\ runs < MaxRuns
    /\ runs' = runs + 1
    /\ logs' = Append(logs, [topology |-> topology, live |-> FALSE,
                             arms |-> [arm \in {"A", "B", "C"} |-> unmeasured],
                             quotable |-> Quotable(topology, FALSE,
                                            [arm \in {"A", "B", "C"} |-> unmeasured])])
    /\ UNCHANGED <<task, card, target, polls, results, redis, faults>>

\* launch_server: a server that finds its port taken exits; one that "hangs" does
\* not answer in time
Spawn(fate) ==
    /\ task.step = "spawn"
    /\ IF Answering # {} THEN fate = "exits" /\ UNCHANGED faults
       ELSE IF fate = "serves" THEN UNCHANGED faults
       ELSE faults > 0 /\ faults' = faults - 1
    /\ card' = card \cup {[launch |-> Launch, port |-> Port, fate |-> fate,
                           lmcache |-> ArmLaunch(Arm, task.topology).lmcache,
                           cached |-> {}, killed |-> FALSE,
                           counts |-> [queries |-> 0, hits |-> 0, external |-> 0]]}
    /\ task' = [task EXCEPT !.step = "poll"] /\ polls' = 0
    /\ UNCHANGED <<target, results, redis, logs, runs>>

\* No launcher, or no room for its log: Popen raises through run_gate, and what
\* was measured so far is not written.
SpawnRaises ==
    /\ task.step = "spawn" /\ faults > 0
    /\ faults' = faults - 1
    /\ task' = Idle /\ results' = NoResults /\ target' = Null
    /\ UNCHANGED <<card, polls, redis, logs, runs>>

\* wait_health: the process is looked at before the port is
Ready ==
    /\ task.step = "poll" /\ polls < MaxPolls /\ Answering # {}
    /\ target' = (CHOOSE s \in Answering : TRUE).launch
    /\ task' = [task EXCEPT !.step = "drive", !.ready = TRUE]
    /\ polls' = 0
    /\ UNCHANGED <<card, results, redis, logs, runs, faults>>

\* (fault) the deadline moves with the poll
PollAgainFault ==
    /\ task.step = "poll" /\ polls < MaxPolls /\ Answering = {}
    /\ polls' = 0
    /\ UNCHANGED <<task, card, target, results, redis, logs, runs, faults>>

PollAgain ==
    /\ task.step = "poll" /\ polls < MaxPolls /\ Answering = {}
    /\ polls' = polls + 1
    /\ UNCHANGED <<task, card, target, results, redis, logs, runs, faults>>

HasExited == \E s \in Mine : s.fate = "exits"

\* The arm counts as unmeasured; its log shows APC if it got that far
NotReady(logged) ==
    /\ task.step = "poll" /\ (HasExited \/ polls = MaxPolls)
    /\ results' = [arm \in DOMAIN results \cup {Arm} |->
                     IF arm = Arm THEN Unmeasured(logged) ELSE results[arm]]
    /\ task' = [task EXCEPT !.step = "stop", !.ready = FALSE] /\ polls' = 0
    /\ UNCHANGED <<card, target, redis, logs, runs, faults>>

-----------------------------------------------------------------------------
\* What may happen while a server is driven: `answered` requests complete
Outcomes ==
    [warmed : BOOLEAN, answered : 0 .. NRequests,
     before : {"pyrsmi", "amd_default_192gb"}, after : {"pyrsmi", "amd_default_192gb"},
     failed : SUBSET {"before", "after"}]

Cost(o) ==
    Cardinality(o.failed)
      + Cardinality({f \in {"warm", "requests", "before", "after"} :
            \/ f = "warm" /\ ~ o.warmed
            \/ f = "requests" /\ o.answered < NRequests
            \/ f = "before" /\ o.before \in DishonestSources
            \/ f = "after" /\ o.after \in DishonestSources})

\* A server with its warmup behind it: one query of the first request's salt
Warmed(s, o) ==
    LET warm == o.warmed /\ task.worker = 1 /\ NRequests > 0 IN
    [s EXCEPT !.cached = IF warm THEN @ \cup {SaltFor(Arm, Requests[1])} ELSE @,
              !.counts.queries = IF warm THEN @ + 1 ELSE @]

\* The requests answered from the server's own cache
LocalHits(s, o) ==
    {i \in 1 .. o.answered :
        \/ SaltFor(Arm, Requests[i]) \in s.cached
        \/ /\ task.apart
           /\ \E j \in 1 .. i - 1 : SaltFor(Arm, Requests[j]) = SaltFor(Arm, Requests[i])}

ExternalHits(s, o) ==
    {i \in 1 .. o.answered \ LocalHits(s, o) :
        s.lmcache /\ SaltFor(Arm, Requests[i]) \in redis}

\* The server once it has been driven
Driven(s, o) ==
    [s EXCEPT !.cached = @ \cup {SaltFor(Arm, Requests[i]) : i \in 1 .. o.answered},
              !.counts = [queries  |-> @.queries + o.answered,
                          hits     |-> @.hits + Cardinality(LocalHits(s, o)),
                          external |-> @.external + Cardinality(ExternalHits(s, o))]]

\* _drive_arm, _drive_store and worker 2's part: warm up, replay the requests
\* between two scrapes, read the card before and after.
Sampled(s, o, used, slack) ==
    LET warm     == Warmed(s, o)
        driven   == Driven(warm, o)
        held     == Weights * Cardinality(card)
        baseline == HBMReading(held, o.before)
        hbm      == HBMReading(held + slack, o.after)
        gauges   == Gauges(task.exposed, "after" \notin o.failed)
    IN /\ faults' = faults - Cost(o)
       /\ task.worker = 2 => o.warmed
       /\ Cross /\ task.worker = 1 =>
             o.failed = {} /\ {o.before, o.after} \subseteq HonestSources
       /\ card' = (card \ {s}) \cup {driven}
       /\ redis' = IF s.lmcache THEN redis \cup driven.cached ELSE redis
       /\ results' =
            IF Cross /\ task.worker = 1 THEN results
            ELSE [arm \in DOMAIN results \cup {Arm} |->
                    IF arm # Arm THEN results[arm]
                    ELSE [topology |-> task.topology, measured |-> TRUE,
                          kv |-> KVFootprint(used, gauges, hbm, baseline),
                          prefix |-> PrefixMetrics(warm.counts, driven.counts, o.failed),
                          apcLogged |-> TRUE, launch |-> target, used |-> used,
                          answered |-> o.answered]]
       /\ task' = [task EXCEPT !.step = "stop"]
       /\ UNCHANGED <<target, polls, logs, runs>>

Drive ==
    /\ task.step = "drive"
    /\ \E o \in {x \in Outcomes : Cost(x) <= faults}, used \in KVUse[Arm], slack \in Slacks :
          \E s \in card : s.launch = target /\ Sampled(s, o, used, slack)

-----------------------------------------------------------------------------
\* (fault) a server that was never ready is left alone
TornDownFault == task.ready

TornDown == TRUE

\* The next worker, the next arm, or the log
Continue ==
    IF Cross /\ task.worker = 1 /\ task.ready
    THEN [task EXCEPT !.worker = 2, !.step = "spawn", !.ready = FALSE]
    ELSE IF task.arm < Len(Arms)
    THEN [task EXCEPT !.arm = @ + 1, !.worker = 1, !.step = "spawn", !.ready = FALSE]
    ELSE [task EXCEPT !.step = "write"]

\* teardown, in the finally of every launch; a process may outlive its kill
Stop(survives) ==
    /\ task.step = "stop"
    /\ survives => faults > 0 /\ Mine # {} /\ \A s \in Mine : s.fate # "exits"
    /\ faults' = IF survives THEN faults - 1 ELSE faults
    /\ card' = IF ~ TornDown THEN card
               ELSE (card \ Mine) \cup {[s EXCEPT !.killed = TRUE] : s \in {k \in Mine : survives}}
    /\ task' = Continue /\ target' = Null
    /\ UNCHANGED <<polls, results, redis, logs, runs>>

\* The operator interrupts: the finally runs, the run is not written
Interrupt ==
    /\ task.step \in {"poll", "drive"} /\ faults > 0
    /\ faults' = faults - 1
    /\ card' = card \ Mine
    /\ task' = Idle /\ results' = NoResults /\ target' = Null /\ polls' = 0
    /\ UNCHANGED <<redis, logs, runs>>

WriteRawLog ==
    /\ task.step = "write"
    /\ logs' = Append(logs, [topology |-> task.topology, live |-> TRUE, arms |-> results,
                             quotable |-> Quotable(task.topology, TRUE, results)])
    /\ task' = Idle /\ results' = NoResults
    /\ UNCHANGED <<card, target, polls, redis, runs, faults>>

Harness ==
    \/ \E fate \in {"serves", "exits", "hangs"} : Spawn(fate)
    \/ SpawnRaises \/ Ready \/ PollAgain
    \/ \E logged \in BOOLEAN : NotReady(logged)
    \/ Drive
    \/ \E survives \in BOOLEAN : Stop(survives)
    \/ WriteRawLog

RunNext ==
    \/ \E topology \in Topologies, exposed \in Exposures, apart \in BOOLEAN :
          StartRun(topology, exposed, apart)
    \/ \E topology \in Topologies : DryRun(topology)
    \/ Harness \/ Interrupt

RunSpec == RunInit /\ [][RunNext]_runVars /\ WF_runVars(Harness)
=============================================================================
