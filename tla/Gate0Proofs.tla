----------------------------- MODULE Gate0Proofs -----------------------------
(***************************************************************************)
(* GATE #0, for any workload, budget of faults, exposed gauges and number  *)
(* of runs: no server is left running, the arms of a quotable run were     *)
(* measured on servers of their own, and a decision rests on sound         *)
(* evidence and on what the arms held in the cache.                        *)
(***************************************************************************)
EXTENDS Gate0Analysis, FiniteSetTheorems, TLAPS

ArmNames == {"A", "B", "C"}
Steps    == {"idle", "spawn", "poll", "drive", "stop", "write"}
Sources  == HonestSources \cup DishonestSources

\* The record and the counters of a server process
Fields == {"launch", "port", "fate", "lmcache", "cached", "killed", "counts"}

TaskOK ==
    /\ DOMAIN task = {"topology", "arm", "worker", "step", "ready", "exposed", "apart"}
    /\ task.topology \in Topologies /\ task.arm \in 1..3 /\ task.worker \in 1..2
    /\ task.step \in Steps
    /\ task.step = "drive" => task.ready

\* A server belongs to the arm its port names; only an arm B fetches from the store
ServersOK ==
    \A s \in card :
        /\ DOMAIN s = Fields /\ DOMAIN s.counts = {"queries", "hits", "external"}
        /\ s.counts.external \in Int
        /\ \A arm \in ArmNames : s.port = <<"arm", arm>> => s.launch[2] = arm
        /\ s.lmcache => s.launch[2] = "B"

\* In one worker, who answers at the arm's port is the arm's
TargetOK ==
    task.step = "drive" /\ task.topology = "single_worker" => target[2] = Arm

LEMMA ArmIsNamed == TaskOK => Arm \in ArmNames
BY DEF TaskOK, Arm, Arms, ArmNames

-----------------------------------------------------------------------------
(* What an arm's result says *)

OnItsOwn(block, arm, topology) ==
    /\ topology = "single_worker" => block.launch[2] = arm
    /\ topology # "single_worker" /\ arm = "B" /\ ColdRead(block.prefix) =>
          block.launch[2] = "B"

TrueToCache(block) ==
    /\ block.used \in Nat
    /\ block.kv.hbm.source \in Sources
    /\ block.kv.method \in Isolating => block.kv.value = block.used
    /\ block.kv.usage \in {Null, block.used}

BlockOK(block, arm, topology) ==
    block.measured => OnItsOwn(block, arm, topology) /\ TrueToCache(block)

\* While a run is under way the arms before the current one have their results
ResultsOK ==
    /\ DOMAIN results \subseteq ArmNames
    /\ \A arm \in DOMAIN results : BlockOK(results[arm], arm, task.topology)
    /\ task.step \in {"spawn", "poll", "drive", "stop"} =>
          \A k \in 1..3 : k < task.arm => Arms[k] \in DOMAIN results
    /\ task.step = "stop" =>
          \/ Cross /\ task.worker = 1 /\ task.ready
          \/ Arm \in DOMAIN results
    /\ task.step = "write" => DOMAIN results = ArmNames

LogOK(log) ==
    /\ \A arm \in ArmNames : BlockOK(log.arms[arm], arm, log.topology)
    /\ log.topology \in Topologies
    /\ log.quotable =>
          /\ log.live /\ ControlClean(log.arms["C"].prefix)
          /\ log.topology = "cross_worker" => ColdRead(log.arms["B"].prefix)

\* The logs are a sequence, of whatever values
LogsOK ==
    /\ Len(logs) \in Nat /\ logs = [i \in 1..Len(logs) |-> logs[i]]
    /\ \A i \in 1..Len(logs) : LogOK(logs[i])

RunInv ==
    /\ TaskOK /\ ServersOK /\ NothingLeftRunning
    /\ TargetOK /\ ResultsOK /\ LogsOK

-----------------------------------------------------------------------------
LEMMA NewLog ==
    ASSUME LogsOK, NEW log, LogOK(log), logs' = Append(logs, log)
    PROVE  LogsOK'
<1> DEFINE S == {logs[i] : i \in 1..Len(logs)} \cup {log}
<1>1. logs \in [1..Len(logs) -> S] /\ Len(logs) \in Nat
  BY DEF LogsOK
<1>2. logs \in Seq(S) /\ log \in S
  BY <1>1
<1> HIDE DEF S
<1>3. /\ logs' \in Seq(S) /\ Len(logs') = Len(logs) + 1
      /\ \A i \in 1..Len(logs) : logs'[i] = logs[i]
      /\ logs'[Len(logs) + 1] = log
  BY <1>2
<1>4. Len(logs') \in Nat /\ logs' = [i \in 1..Len(logs') |-> logs'[i]]
  <2>1. ASSUME NEW f \in Seq(S) PROVE Len(f) \in Nat /\ f = [i \in 1..Len(f) |-> f[i]]
    OBVIOUS
  <2> QED
    BY <1>3, <2>1, Zenon
<1>5. \A i \in 1..Len(logs') : LogOK(logs'[i])
  BY <1>1, <1>3 DEF LogsOK
<1> QED
  BY <1>4, <1>5 DEF LogsOK, LogOK

LEMMA RunInvInit == RunInit => RunInv
<1> SUFFICES ASSUME RunInit PROVE RunInv
  OBVIOUS
<1>1. TaskOK /\ task.step = "idle"
  BY DEF RunInit, TaskOK, Idle, Topologies, Steps
<1>2. card = {} /\ results = NoResults /\ logs = << >>
  BY DEF RunInit
<1>3. DOMAIN results = {}
  BY <1>2 DEF NoResults
<1>4. LogsOK
  BY <1>2 DEF LogsOK
<1> QED
  BY <1>1, <1>2, <1>3, <1>4
     DEF RunInv, ServersOK, NothingLeftRunning, TargetOK, ResultsOK

-----------------------------------------------------------------------------
(* The steps *)

\* A run begins, or a dry run is logged: nothing was running
LEMMA BeginStep ==
    ASSUME RunInv,
           \/ \E topology \in Topologies, exposed \in Exposures, apart \in BOOLEAN :
                 StartRun(topology, exposed, apart)
           \/ \E topology \in Topologies : DryRun(topology)
    PROVE  RunInv'
<1>1. ASSUME NEW topology \in Topologies, NEW exposed \in Exposures, NEW apart \in BOOLEAN,
             StartRun(topology, exposed, apart)
      PROVE  RunInv'
  <2>1. /\ task.step = "idle" /\ results' = NoResults
        /\ task' = [Idle EXCEPT !.topology = topology, !.step = "spawn",
                                !.exposed = exposed, !.apart = apart]
        /\ card' = card /\ target' = target /\ logs' = logs
    BY <1>1 DEF StartRun
  <2>2. TaskOK' /\ task'.step = "spawn" /\ task'.arm = 1
    BY <2>1 DEF TaskOK, Idle, Steps
  <2>3. ServersOK' /\ NothingLeftRunning' /\ TargetOK'
    BY <2>1, <2>2 DEF RunInv, ServersOK, NothingLeftRunning, TargetOK
  <2>4. DOMAIN results' = {}
    BY <2>1 DEF NoResults
  <2>5. ResultsOK' /\ LogsOK'
    BY <2>1, <2>2, <2>4 DEF RunInv, ResultsOK, LogsOK, LogOK
  <2> QED
    BY <2>2, <2>3, <2>5 DEF RunInv
<1>2. ASSUME NEW topology \in Topologies, DryRun(topology) PROVE RunInv'
  <2> DEFINE dry == [Unmeasured(FALSE) EXCEPT !.topology = topology]
             arms == [arm \in {"A", "B", "C"} |-> dry]
             log == [topology |-> topology, live |-> FALSE, arms |-> arms,
                     quotable |-> Quotable(topology, FALSE, arms)]
  <2>1. logs' = Append(logs, log) /\ UNCHANGED <<task, card, target, results>>
    BY <1>2 DEF DryRun
  <2>2. dry.measured = FALSE /\ dry.prefix = Null
    BY DEF Unmeasured
  <2> HIDE DEF dry
  <2>3. ~ ControlClean(arms["C"].prefix)
    BY <2>2 DEF ControlClean
  <2>4. ~ Quotable(topology, FALSE, arms)
    BY <2>3 DEF Quotable
  <2>5. \A arm \in ArmNames : ~ log.arms[arm].measured
    BY <2>2 DEF ArmNames
  <2>6. LogOK(log)
    BY <2>4, <2>5 DEF LogOK, BlockOK
  <2> HIDE DEF log
  <2>7. LogsOK'
    BY <2>1, <2>6, NewLog DEF RunInv
  <2>8. TaskOK' /\ ServersOK' /\ NothingLeftRunning' /\ TargetOK' /\ ResultsOK'
    <3>1. /\ task' = task /\ card' = card /\ target' = target /\ results' = results
          /\ task.step = "idle" /\ task.step' = "idle"
      BY <1>2, <2>1 DEF DryRun
    <3>2. NothingLeftRunning'
      BY <3>1 DEF RunInv, NothingLeftRunning
    <3> QED
      BY <3>1, <3>2 DEF RunInv, TaskOK, ServersOK, TargetOK, ResultsOK, Arm, Cross
  <2> QED
    BY <2>7, <2>8 DEF RunInv
<1> QED
  BY <1>1, <1>2

\* What ResultsOK keeps when neither the run's results nor its place change
LEMMA ResultsStay ==
    ASSUME ResultsOK, task.step # "write",
           task.step \in {"spawn", "poll", "drive", "stop"},
           task'.step \in {"spawn", "poll", "drive"}, results' = results,
           task'.topology = task.topology, task'.arm = task.arm
    PROVE  ResultsOK'
BY DEF ResultsOK

LEMMA SpawnStep ==
    ASSUME RunInv, NEW fate \in {"serves", "exits", "hangs"}, Spawn(fate)
    PROVE  RunInv'
<1> DEFINE s == [launch |-> Launch, port |-> Port, fate |-> fate,
                 lmcache |-> ArmLaunch(Arm, task.topology).lmcache,
                 cached |-> {}, killed |-> FALSE,
                 counts |-> [queries |-> 0, hits |-> 0, external |-> 0]]
<1>1. /\ task.step = "spawn" /\ card' = card \cup {s}
      /\ task' = [task EXCEPT !.step = "poll"]
      /\ UNCHANGED <<target, results, logs, runs>>
  BY DEF Spawn
<1>2. /\ TaskOK' /\ task'.step = "poll" /\ task'.topology = task.topology
      /\ task'.arm = task.arm /\ task'.worker = task.worker
  BY <1>1 DEF RunInv, TaskOK, Steps
<1>3. DOMAIN s = Fields /\ DOMAIN s.counts = {"queries", "hits", "external"}
  BY DEF Fields
<1>4. s.counts.external = 0 /\ s.launch = Launch /\ s.port = Port
  OBVIOUS
<1>5. s.launch[2] = Arm
  BY <1>4 DEF Launch
<1>6. ASSUME NEW arm \in ArmNames, s.port = <<"arm", arm>> PROVE s.launch[2] = arm
  <2>1. Port = <<"arm", arm>>
    BY <1>4, <1>6, Zenon
  <2>2. ~ Cross
    <3> SUFFICES ASSUME Cross PROVE FALSE
      OBVIOUS
    <3>1. Port = <<"w", task.worker>>
      BY DEF Port
    <3>2. <<"w", task.worker>> = <<"arm", arm>>
      BY <2>1, <3>1, Zenon
    <3>3. "w" = "arm"
      BY <3>2
    <3> QED
      BY <3>3
  <2>3. Port = <<"arm", Arm>>
    BY <2>2 DEF Port
  <2>4. <<"arm", Arm>> = <<"arm", arm>>
    BY <2>1, <2>3, Zenon
  <2>5. Arm = arm
    BY <2>4
  <2> QED
    BY <1>5, <2>5
<1>7. s.lmcache => s.launch[2] = "B"
  BY <1>5 DEF ArmLaunch, UsesLMCache
<1> HIDE DEF s
<1>8. ServersOK'
  <2> SUFFICES ASSUME NEW t \in card'
               PROVE  /\ DOMAIN t = Fields /\ DOMAIN t.counts = {"queries", "hits", "external"}
                      /\ t.counts.external \in Int
                      /\ \A arm \in ArmNames : t.port = <<"arm", arm>> => t.launch[2] = arm
                      /\ t.lmcache => t.launch[2] = "B"
    BY DEF ServersOK
  <2>1. CASE t = s
    BY <1>3, <1>4, <1>6, <1>7, <2>1
  <2>2. CASE t \in card
    BY <2>2 DEF RunInv, ServersOK
  <2> QED
    BY <1>1, <2>1, <2>2
<1>9. NothingLeftRunning'
  <2>1. Launch' = Launch
    BY <1>1, <1>2 DEF Launch, Arm
  <2>2. \A t \in card : t.killed
    BY <1>1 DEF RunInv, NothingLeftRunning
  <2> QED
    BY <1>1, <1>2, <1>4, <2>1, <2>2 DEF NothingLeftRunning
<1>10. ResultsOK'
  BY <1>1, <1>2, ResultsStay DEF RunInv
<1>11. TargetOK' /\ LogsOK'
  BY <1>1, <1>2 DEF RunInv, TargetOK, LogsOK, LogOK
<1> QED
  BY <1>2, <1>8, <1>9, <1>10, <1>11 DEF RunInv

LEMMA PollStep ==
    ASSUME RunInv, Ready \/ PollAgain
    PROVE  RunInv'
<1>1. /\ task.step = "poll" /\ UNCHANGED <<card, results, logs, runs>>
  BY DEF Ready, PollAgain
<1>2. /\ TaskOK' /\ task'.step \in {"poll", "drive"} /\ task'.topology = task.topology
      /\ task'.arm = task.arm /\ task'.worker = task.worker
  <2>1. CASE Ready
    BY <2>1 DEF Ready, RunInv, TaskOK, Steps
  <2>2. CASE PollAgain
    BY <1>1, <2>2 DEF PollAgain, RunInv, TaskOK, Steps
  <2> QED
    BY <2>1, <2>2
<1>3. ServersOK' /\ LogsOK'
  BY <1>1 DEF RunInv, ServersOK, LogsOK, LogOK
<1>4. NothingLeftRunning'
  <2>1. Launch' = Launch
    BY <1>1, <1>2 DEF Launch, Arm
  <2> QED
    BY <1>1, <1>2, <2>1 DEF RunInv, NothingLeftRunning
<1>5. ResultsOK'
  BY <1>1, <1>2, ResultsStay DEF RunInv
<1>6. TargetOK'
  <2> SUFFICES ASSUME task'.step = "drive", task'.topology = "single_worker"
               PROVE  target'[2] = Arm'
    BY DEF TargetOK
  <2>1. Ready
    BY <1>1 DEF PollAgain
  <2> DEFINE s == CHOOSE t \in Answering : TRUE
  <2>2. Answering # {} /\ target' = s.launch
    BY <2>1 DEF Ready
  <2>3. s \in Answering
    BY <2>2
  <2> HIDE DEF s
  <2>4. s \in card /\ s.port = Port
    BY <2>3 DEF Answering
  <2>5. Port = <<"arm", Arm>>
    BY <1>2 DEF Port, Cross
  <2>6. Arm \in ArmNames /\ Arm' = Arm
    BY <1>2, ArmIsNamed DEF RunInv, Arm
  <2> QED
    BY <2>2, <2>4, <2>5, <2>6 DEF RunInv, ServersOK
<1> QED
  BY <1>2, <1>3, <1>4, <1>5, <1>6 DEF RunInv

LEMMA NotReadyStep ==
    ASSUME RunInv, NEW logged \in BOOLEAN, NotReady(logged)
    PROVE  RunInv'
<1>1. /\ task.step = "poll" /\ UNCHANGED <<card, target, logs, runs>>
      /\ results' = [arm \in DOMAIN results \cup {Arm} |->
                       IF arm = Arm THEN Unmeasured(logged) ELSE results[arm]]
      /\ task' = [task EXCEPT !.step = "stop", !.ready = FALSE]
  BY DEF NotReady
<1>2. /\ TaskOK' /\ task'.step = "stop" /\ task'.topology = task.topology
      /\ task'.arm = task.arm /\ task'.worker = task.worker
  BY <1>1 DEF RunInv, TaskOK, Steps
<1>3. ServersOK' /\ LogsOK' /\ TargetOK'
  BY <1>1, <1>2 DEF RunInv, ServersOK, LogsOK, LogOK, TargetOK
<1>4. NothingLeftRunning'
  <2>1. Launch' = Launch
    BY <1>1, <1>2 DEF Launch, Arm
  <2> QED
    BY <1>1, <1>2, <2>1 DEF RunInv, NothingLeftRunning
<1>5. ResultsOK'
  <2>1. Arm \in ArmNames /\ Arm' = Arm
    BY <1>2, ArmIsNamed DEF RunInv, Arm
  <2>2. DOMAIN results' = DOMAIN results \cup {Arm}
    BY <1>1
  <2>3. Unmeasured(logged).measured = FALSE
    BY DEF Unmeasured
  <2>4. \A arm \in DOMAIN results' : BlockOK(results'[arm], arm, task'.topology)
    <3> SUFFICES ASSUME NEW arm \in DOMAIN results', results'[arm].measured
                 PROVE  BlockOK(results'[arm], arm, task.topology)
      BY <1>2 DEF BlockOK
    <3>1. arm \in DOMAIN results /\ results'[arm] = results[arm]
      BY <1>1, <2>2, <2>3
    <3> QED
      BY <3>1 DEF RunInv, ResultsOK
  <2> QED
    BY <1>1, <1>2, <2>1, <2>2, <2>4 DEF RunInv, ResultsOK
<1> QED
  BY <1>2, <1>3, <1>4, <1>5 DEF RunInv

\* What a driven server keeps of itself, and what it may have counted.
LEMMA DrivenServer ==
    ASSUME RunInv, NEW s \in card, NEW o \in Outcomes
    PROVE  LET warm == Warmed(s, o)
               driven == Driven(warm, o)
           IN  /\ DOMAIN driven = Fields
               /\ DOMAIN driven.counts = {"queries", "hits", "external"}
               /\ driven.launch = s.launch /\ driven.port = s.port
               /\ driven.lmcache = s.lmcache /\ driven.killed = s.killed
               /\ driven.counts.external \in Int
               /\ ~ s.lmcache => driven.counts.external - warm.counts.external = 0
<1> DEFINE warm == Warmed(s, o)
           hits == ExternalHits(warm, o)
           driven == Driven(warm, o)
<1>1. /\ DOMAIN s = Fields /\ DOMAIN s.counts = {"queries", "hits", "external"}
      /\ s.counts.external \in Int
  BY DEF RunInv, ServersOK
<1>2. /\ DOMAIN warm = Fields /\ warm.counts.external = s.counts.external
      /\ warm.launch = s.launch /\ warm.port = s.port
      /\ warm.lmcache = s.lmcache /\ warm.killed = s.killed
  BY <1>1 DEF Warmed, Fields
<1> HIDE DEF warm
<1>3. hits \subseteq 1..o.answered /\ o.answered \in 0..NRequests
  BY DEF ExternalHits, Outcomes
<1>4. Cardinality(hits) \in Nat
  <2>1. IsFiniteSet(1..o.answered)
    BY <1>3, WorkloadAssumption, FS_Interval
  <2> HIDE DEF hits
  <2>2. IsFiniteSet(hits)
    BY <1>3, <2>1, FS_Subset
  <2> QED
    BY <2>2, FS_CardinalityType
<1>5. ~ s.lmcache => Cardinality(hits) = 0
  <2>1. ~ s.lmcache => hits = {}
    BY <1>2 DEF ExternalHits
  <2> QED
    BY <2>1, FS_EmptySet
<1>6. /\ DOMAIN driven = Fields
      /\ driven.counts = [queries  |-> warm.counts.queries + o.answered,
                          hits     |-> warm.counts.hits + Cardinality(LocalHits(warm, o)),
                          external |-> warm.counts.external + Cardinality(hits)]
      /\ driven.launch = warm.launch /\ driven.port = warm.port
      /\ driven.lmcache = warm.lmcache /\ driven.killed = warm.killed
  BY <1>2 DEF Driven, Fields
<1> HIDE DEF driven, hits
<1>7. driven.counts.external = warm.counts.external + Cardinality(hits)
  BY <1>6
<1>8. DOMAIN driven.counts = {"queries", "hits", "external"}
  BY <1>6
<1>9. driven.counts.external \in Int
  BY <1>1, <1>2, <1>4, <1>7
<1>10. ~ s.lmcache => driven.counts.external - warm.counts.external = 0
  BY <1>1, <1>2, <1>5, <1>7
<1> QED
  BY <1>2, <1>6, <1>8, <1>9, <1>10 DEF driven, warm

\* Only a server that fetches from the store gives a cold read.
LEMMA ColdReadNeedsStore ==
    ASSUME RunInv, NEW s \in card, NEW o \in Outcomes,
           ColdRead(PrefixMetrics(Warmed(s, o).counts, Driven(Warmed(s, o), o).counts, o.failed))
    PROVE  s.lmcache
<1> DEFINE warm == Warmed(s, o)
           driven == Driven(warm, o)
           m == PrefixMetrics(warm.counts, driven.counts, o.failed)
<1> SUFFICES ASSUME ~ s.lmcache PROVE FALSE
  OBVIOUS
<1>1. ~ m.error /\ m.external > 0
  BY DEF ColdRead
<1>2. driven.counts.external - warm.counts.external = 0
  BY DrivenServer
<1> HIDE DEF warm, driven
<1>3. o.failed = {}
  BY <1>1 DEF PrefixMetrics
<1>4. m.external = driven.counts.external - warm.counts.external
  BY <1>3 DEF PrefixMetrics
<1> HIDE DEF m
<1> QED
  BY <1>1, <1>2, <1>4

\* What the gauges tell is what the arm holds; only the card's own reading may
\* come from a source that is no real one.
LEMMA FootprintIsTrue ==
    ASSUME NEW used, NEW gauges, NEW hbm, NEW baseline, hbm.source \in Sources
    PROVE  LET kv == KVFootprint(used, gauges, hbm, baseline)
           IN  /\ kv.hbm.source \in Sources
               /\ kv.method \in Isolating => kv.value = used
               /\ kv.usage \in {Null, used}
<1> DEFINE kv == KVFootprint(used, gauges, hbm, baseline)
<1>1. kv.hbm = hbm
  BY DEF KVFootprint
<1>2. kv.usage \in {Null, used}
  BY DEF KVFootprint
<1>3. kv.method \in Isolating => kv.value = used
  BY DEF KVFootprint, Isolating
<1> QED
  BY <1>1, <1>2, <1>3

LEMMA DriveStep == RunInv /\ Drive => RunInv'
<1> SUFFICES ASSUME RunInv, Drive PROVE RunInv'
  OBVIOUS
<1>0. /\ task.step = "drive" /\ task.ready /\ Arm \in ArmNames
  BY ArmIsNamed DEF Drive, RunInv, TaskOK
<1>1. PICK o \in Outcomes, used \in KVUse[Arm], slack \in Slacks, s \in card :
          s.launch = target /\ Sampled(s, o, used, slack)
  BY DEF Drive
<1> DEFINE warm     == Warmed(s, o)
           driven   == Driven(warm, o)
           baseline == HBMReading(Weights * Cardinality(card), o.before)
           hbm      == HBMReading(Weights * Cardinality(card) + slack, o.after)
           gauges   == Gauges(task.exposed, "after" \notin o.failed)
           kv       == KVFootprint(used, gauges, hbm, baseline)
           prefix   == PrefixMetrics(warm.counts, driven.counts, o.failed)
           block    == [topology |-> task.topology, measured |-> TRUE,
                        kv |-> kv, prefix |-> prefix,
                        apcLogged |-> TRUE, launch |-> target, used |-> used,
                        answered |-> o.answered]
<1>2. /\ card' = (card \ {s}) \cup {driven}
      /\ task' = [task EXCEPT !.step = "stop"]
      /\ UNCHANGED <<target, logs, runs>>
      /\ results' = IF Cross /\ task.worker = 1 THEN results
                    ELSE [arm \in DOMAIN results \cup {Arm} |->
                            IF arm # Arm THEN results[arm] ELSE block]
  BY <1>1 DEF Sampled
<1>3. /\ TaskOK' /\ task'.step = "stop" /\ task'.topology = task.topology
      /\ task'.arm = task.arm /\ task'.worker = task.worker /\ task'.ready
  BY <1>0, <1>2 DEF RunInv, TaskOK, Steps
<1>4. /\ DOMAIN driven = Fields
      /\ DOMAIN driven.counts = {"queries", "hits", "external"}
      /\ driven.launch = s.launch /\ driven.port = s.port
      /\ driven.lmcache = s.lmcache /\ driven.killed = s.killed
      /\ driven.counts.external \in Int
  BY DrivenServer
<1>5. OnItsOwn(block, Arm, task.topology)
  <2>1. block.launch = target /\ block.prefix = prefix
    OBVIOUS
  <2>2. ASSUME ColdRead(prefix), Arm = "B" PROVE target[2] = "B"
    <3>1. s.lmcache
      BY <2>2, ColdReadNeedsStore
    <3> QED
      BY <1>1, <3>1 DEF RunInv, ServersOK
  <2>3. task.topology = "single_worker" => target[2] = Arm
    BY <1>0 DEF RunInv, TargetOK
  <2> HIDE DEF block, prefix
  <2> QED
    BY <2>1, <2>2, <2>3 DEF OnItsOwn
<1>6. TrueToCache(block)
  <2>1. used \in Nat
    BY <1>0, RunAssumption DEF ArmNames
  <2>2. hbm.source = o.after /\ o.after \in Sources
    BY DEF HBMReading, Outcomes, Sources, HonestSources, DishonestSources
  <2> HIDE DEF hbm, gauges, baseline
  <2>3. /\ kv.hbm.source \in Sources
        /\ kv.method \in Isolating => kv.value = used
        /\ kv.usage \in {Null, used}
    BY <2>2, FootprintIsTrue
  <2> HIDE DEF kv
  <2> QED
    BY <2>1, <2>3 DEF TrueToCache
<1> HIDE DEF driven, block
<1>7. ServersOK'
  <2> SUFFICES ASSUME NEW t \in card'
               PROVE  /\ DOMAIN t = Fields /\ DOMAIN t.counts = {"queries", "hits", "external"}
                      /\ t.counts.external \in Int
                      /\ \A arm \in ArmNames : t.port = <<"arm", arm>> => t.launch[2] = arm
                      /\ t.lmcache => t.launch[2] = "B"
    BY DEF ServersOK
  <2>1. CASE t = driven
    BY <1>4, <2>1 DEF RunInv, ServersOK
  <2>2. CASE t \in card
    BY <2>2 DEF RunInv, ServersOK
  <2> QED
    BY <1>2, <2>1, <2>2
<1>8. NothingLeftRunning'
  <2>1. Launch' = Launch
    BY <1>2, <1>3 DEF Launch, Arm
  <2> QED
    BY <1>0, <1>2, <1>3, <1>4, <2>1 DEF RunInv, NothingLeftRunning
<1>9. ResultsOK'
  <2>1. Arm' = Arm /\ Cross' = Cross
    BY <1>3 DEF Arm, Cross
  <2>2. CASE Cross /\ task.worker = 1
    <3>1. results' = results
      BY <1>2, <2>2
    <3> QED
      BY <1>0, <1>3, <2>1, <2>2, <3>1 DEF RunInv, ResultsOK
  <2>3. CASE ~ (Cross /\ task.worker = 1)
    <3>1. results' = [arm \in DOMAIN results \cup {Arm} |->
                        IF arm # Arm THEN results[arm] ELSE block]
      BY <1>2, <2>3
    <3>2. DOMAIN results' = DOMAIN results \cup {Arm}
      BY <3>1
    <3>3. \A arm \in DOMAIN results' : BlockOK(results'[arm], arm, task'.topology)
      <4> SUFFICES ASSUME NEW arm \in DOMAIN results'
                   PROVE  BlockOK(results'[arm], arm, task.topology)
        BY <1>3
      <4>1. CASE arm = Arm
        BY <1>5, <1>6, <3>1, <3>2, <4>1 DEF BlockOK
      <4>2. CASE arm # Arm
        <5>1. arm \in DOMAIN results /\ results'[arm] = results[arm]
          BY <3>1, <3>2, <4>2
        <5> QED
          BY <5>1 DEF RunInv, ResultsOK
      <4> QED
        BY <4>1, <4>2
    <3> QED
      BY <1>0, <1>3, <2>1, <3>2, <3>3 DEF RunInv, ResultsOK
  <2> QED
    BY <2>2, <2>3
<1>10. TargetOK' /\ LogsOK'
  BY <1>2, <1>3 DEF RunInv, TargetOK, LogsOK, LogOK
<1> QED
  BY <1>3, <1>7, <1>8, <1>9, <1>10 DEF RunInv

\* After the last worker of an arm its result is there.
LEMMA StopStep ==
    ASSUME RunInv, NEW survives \in BOOLEAN, Stop(survives)
    PROVE  RunInv'
<1>1. /\ task.step = "stop" /\ target' = Null /\ task' = Continue
      /\ card' = (card \ Mine) \cup {[s EXCEPT !.killed = TRUE] : s \in {k \in Mine : survives}}
      /\ UNCHANGED <<results, logs, runs>>
  BY DEF Stop, TornDown
<1>2. /\ TaskOK' /\ task'.step \in {"spawn", "write"} /\ task'.topology = task.topology
  <2>1. CASE Cross /\ task.worker = 1 /\ task.ready
    <3>1. task' = [task EXCEPT !.worker = 2, !.step = "spawn", !.ready = FALSE]
      BY <1>1, <2>1 DEF Continue
    <3> QED
      BY <3>1 DEF RunInv, TaskOK, Steps
  <2>2. CASE ~ (Cross /\ task.worker = 1 /\ task.ready) /\ task.arm < Len(Arms)
    <3>1. task' = [task EXCEPT !.arm = @ + 1, !.worker = 1, !.step = "spawn", !.ready = FALSE]
      BY <1>1, <2>2 DEF Continue
    <3>2. task.arm + 1 \in 1..3
      BY <2>2 DEF RunInv, TaskOK, Arms
    <3> QED
      BY <3>1, <3>2 DEF RunInv, TaskOK, Steps
  <2>3. CASE ~ (Cross /\ task.worker = 1 /\ task.ready) /\ ~ (task.arm < Len(Arms))
    <3>1. task' = [task EXCEPT !.step = "write"]
      BY <1>1, <2>3 DEF Continue
    <3> QED
      BY <3>1 DEF RunInv, TaskOK, Steps
  <2> QED
    BY <2>1, <2>2, <2>3
<1>3. \A t \in card' : \/ t \in card \ Mine
                       \/ \E s \in Mine : t = [s EXCEPT !.killed = TRUE]
  BY <1>1
<1>4. \A s \in Mine : s \in card
  BY DEF Mine
<1>5. ServersOK'
  <2> SUFFICES ASSUME NEW t \in card'
               PROVE  /\ DOMAIN t = Fields /\ DOMAIN t.counts = {"queries", "hits", "external"}
                      /\ t.counts.external \in Int
                      /\ \A arm \in ArmNames : t.port = <<"arm", arm>> => t.launch[2] = arm
                      /\ t.lmcache => t.launch[2] = "B"
    BY DEF ServersOK
  <2>1. CASE t \in card
    BY <2>1 DEF RunInv, ServersOK
  <2>2. ASSUME NEW s \in Mine, t = [s EXCEPT !.killed = TRUE]
        PROVE  /\ DOMAIN t = Fields /\ t.counts = s.counts /\ t.port = s.port
               /\ t.launch = s.launch /\ t.lmcache = s.lmcache
    BY <1>4, <2>2 DEF RunInv, ServersOK, Fields
  <2> QED
    BY <1>3, <1>4, <2>1, <2>2 DEF RunInv, ServersOK
<1>6. NothingLeftRunning'
  <2> SUFFICES ASSUME NEW t \in card' PROVE t.killed
    BY DEF NothingLeftRunning
  <2>1. CASE t \in card \ Mine
    BY <2>1 DEF RunInv, NothingLeftRunning, Mine
  <2>2. ASSUME NEW s \in Mine, t = [s EXCEPT !.killed = TRUE] PROVE t.killed
    BY <1>4, <2>2 DEF RunInv, ServersOK, Fields
  <2> QED
    BY <1>3, <2>1, <2>2
<1>7. ResultsOK'
  <2>1. CASE Cross /\ task.worker = 1 /\ task.ready
    <3>1. task'.step = "spawn" /\ task'.arm = task.arm
      BY <1>1, <2>1 DEF Continue, RunInv, TaskOK
    <3> QED
      BY <1>1, <1>2, <3>1 DEF RunInv, ResultsOK
  <2>2. CASE ~ (Cross /\ task.worker = 1 /\ task.ready) /\ task.arm < Len(Arms)
    <3>1. task'.step = "spawn" /\ task'.arm = task.arm + 1
      BY <1>1, <2>2 DEF Continue, RunInv, TaskOK
    <3>2. Arm \in DOMAIN results
      BY <1>1, <2>2 DEF RunInv, ResultsOK
    <3>3. \A k \in 1..3 : k < task'.arm => Arms[k] \in DOMAIN results
      BY <1>1, <3>1, <3>2 DEF RunInv, ResultsOK, Arm, TaskOK
    <3> QED
      BY <1>1, <1>2, <3>1, <3>3 DEF RunInv, ResultsOK
  <2>3. CASE ~ (Cross /\ task.worker = 1 /\ task.ready) /\ ~ (task.arm < Len(Arms))
    <3>1. task'.step = "write" /\ task.arm = 3
      BY <1>1, <2>3 DEF Continue, RunInv, TaskOK, Arms
    <3>2. Arm \in DOMAIN results
      BY <1>1, <2>3 DEF RunInv, ResultsOK
    <3>3. Arms[1] \in DOMAIN results /\ Arms[2] \in DOMAIN results /\ Arms[3] \in DOMAIN results
      BY <1>1, <3>1, <3>2 DEF RunInv, ResultsOK, Arm
    <3>4. DOMAIN results = ArmNames
      BY <3>3 DEF RunInv, ResultsOK, Arms, ArmNames
    <3> QED
      BY <1>1, <1>2, <3>1, <3>4 DEF RunInv, ResultsOK
  <2> QED
    BY <2>1, <2>2, <2>3
<1>8. TargetOK' /\ LogsOK'
  BY <1>1, <1>2 DEF RunInv, TargetOK, LogsOK, LogOK
<1> QED
  BY <1>2, <1>5, <1>6, <1>7, <1>8 DEF RunInv

\* A run that is given up leaves no result, and no server of its own.
LEMMA GiveUpStep ==
    ASSUME RunInv, SpawnRaises \/ Interrupt
    PROVE  RunInv'
<1>1. /\ task' = Idle /\ results' = NoResults /\ target' = Null
      /\ UNCHANGED <<logs, runs>>
      /\ card' \subseteq card
      /\ \A t \in card' : t.killed
  <2>1. CASE SpawnRaises
    BY <2>1 DEF SpawnRaises, RunInv, NothingLeftRunning
  <2>2. CASE Interrupt
    BY <2>2 DEF Interrupt, RunInv, NothingLeftRunning, Mine
  <2> QED
    BY <2>1, <2>2
<1>2. TaskOK' /\ task'.step = "idle"
  BY <1>1 DEF TaskOK, Idle, Topologies, Steps
<1>3. DOMAIN results' = {}
  BY <1>1 DEF NoResults
<1>4. ServersOK' /\ NothingLeftRunning'
  BY <1>1, <1>2 DEF RunInv, ServersOK, NothingLeftRunning
<1>5. ResultsOK'
  BY <1>2, <1>3 DEF ResultsOK
<1>6. TargetOK' /\ LogsOK'
  BY <1>1, <1>2 DEF RunInv, TargetOK, LogsOK, LogOK
<1> QED
  BY <1>2, <1>4, <1>5, <1>6 DEF RunInv

LEMMA WriteStep == RunInv /\ WriteRawLog => RunInv'
<1> SUFFICES ASSUME RunInv, WriteRawLog PROVE RunInv'
  OBVIOUS
<1> DEFINE q == Quotable(task.topology, TRUE, results)
           log == [topology |-> task.topology, live |-> TRUE, arms |-> results,
                   quotable |-> q]
<1>1. /\ task.step = "write" /\ task' = Idle /\ results' = NoResults
      /\ logs' = Append(logs, log)
      /\ UNCHANGED <<card, target, runs>>
  BY DEF WriteRawLog
<1>2. DOMAIN results = ArmNames /\ task.topology \in Topologies
  BY <1>1 DEF RunInv, ResultsOK, TaskOK
<1>3. q => /\ ControlClean(results["C"].prefix)
           /\ task.topology = "cross_worker" => ColdRead(results["B"].prefix)
  BY DEF Quotable
<1> HIDE DEF q
<1>4. LogOK(log)
  <2>1. \A arm \in ArmNames : BlockOK(results[arm], arm, task.topology)
    BY <1>2 DEF RunInv, ResultsOK
  <2> QED
    BY <1>2, <1>3, <2>1 DEF LogOK
<1> HIDE DEF log
<1>5. LogsOK'
  BY <1>1, <1>4, NewLog DEF RunInv
<1>6. TaskOK' /\ task'.step = "idle"
  BY <1>1 DEF TaskOK, Idle, Topologies, Steps
<1>7. DOMAIN results' = {}
  BY <1>1 DEF NoResults
<1>8. ServersOK' /\ NothingLeftRunning'
  BY <1>1, <1>6 DEF RunInv, ServersOK, NothingLeftRunning
<1>9. ResultsOK' /\ TargetOK'
  BY <1>6, <1>7 DEF ResultsOK, TargetOK
<1> QED
  BY <1>5, <1>6, <1>8, <1>9 DEF RunInv

LEMMA RunInvStep == RunInv /\ [RunNext]_runVars => RunInv'
<1> SUFFICES ASSUME RunInv, [RunNext]_runVars PROVE RunInv'
  OBVIOUS
<1>1. CASE Harness
  BY <1>1, SpawnStep, GiveUpStep, PollStep, NotReadyStep, DriveStep, StopStep, WriteStep
     DEF Harness
<1>2. CASE UNCHANGED runVars
  BY <1>2 DEF runVars, RunInv, TaskOK, ServersOK, NothingLeftRunning, TargetOK, ResultsOK,
              LogsOK, LogOK, Arm, Cross, Launch
<1> QED
  BY <1>1, <1>2, BeginStep, GiveUpStep DEF RunNext

LEMMA RunInvHolds == RunSpec => []RunInv
BY RunInvInit, RunInvStep, PTL DEF RunSpec

-----------------------------------------------------------------------------
(* The theorems *)

\* No server outlives the harness's use of it, whatever fails or is interrupted
\* (harness.py and cross_worker.py: teardown is in the finally of every launch).
THEOREM NoServerOutlives == RunSpec => []NothingLeftRunning
<1>1. RunInv => NothingLeftRunning
  BY DEF RunInv
<1> QED
  BY <1>1, RunInvHolds, PTL

\* A quotable run measured its arms on servers of their own, in two workers at
\* least the arm that fetches from the store, whatever processes survived a kill.
THEOREM ArmsStayApart == RunSpec => []ArmsKeepApart
<1>1. RunInv => ArmsKeepApart
  <2> SUFFICES ASSUME RunInv, NEW i \in DOMAIN logs, logs[i].quotable,
                      NEW arm \in (IF logs[i].topology = "cross_worker"
                                   THEN {"B"} ELSE {"A", "B", "C"}),
                      logs[i].arms[arm].measured
               PROVE  logs[i].arms[arm].launch[2] = arm
    BY DEF ArmsKeepApart
  <2>1. arm \in ArmNames
    BY DEF ArmNames
  <2>2. LogOK(logs[i])
    BY DEF RunInv, LogsOK
  <2>3. OnItsOwn(logs[i].arms[arm], arm, logs[i].topology)
    BY <2>1, <2>2 DEF LogOK, BlockOK
  <2>4. CASE logs[i].topology = "cross_worker"
    <3>1. arm = "B" /\ ColdRead(logs[i].arms[arm].prefix)
      BY <2>2, <2>4 DEF LogOK
    <3> QED
      BY <2>3, <2>4, <3>1 DEF OnItsOwn
  <2>5. CASE logs[i].topology # "cross_worker"
    BY <2>2, <2>3, <2>5 DEF OnItsOwn, LogOK, Topologies
  <2> QED
    BY <2>4, <2>5
<1> QED
  BY <1>1, RunInvHolds, PTL

\* What is analysed is logs that were written.
LEMMA AnalysedAreLogs ==
    ASSUME RunInv, NEW ls \in Analysed
    PROVE  /\ \A i \in DOMAIN ls : LogOK(ls[i])
           /\ Len(ls) \in DOMAIN ls
<1>1. ls \in SetToAllKPermutations(Range(logs)) /\ ls # << >>
  BY DEF Analysed
<1>2. PICK S \in SUBSET Range(logs) : ls \in SetToSeqs(S)
  BY <1>1 DEF SetToAllKPermutations
<1> DEFINE n == Cardinality(S)
<1>3. ls \in [1..n -> S]
  BY <1>2 DEF SetToSeqs
<1>4. \A i \in DOMAIN ls : ls[i] \in Range(logs)
  BY <1>3
<1>5. \A i \in DOMAIN ls : LogOK(ls[i])
  <2> SUFFICES ASSUME NEW i \in DOMAIN ls PROVE LogOK(ls[i])
    OBVIOUS
  <2>1. PICK k \in DOMAIN logs : ls[i] = logs[k]
    BY <1>4 DEF Range
  <2>2. k \in 1..Len(logs)
    BY DEF RunInv, LogsOK
  <2> QED
    BY <2>1, <2>2 DEF RunInv, LogsOK
<1>6. n \in Nat
  <2>1. logs \in Surjection(1..Len(logs), Range(logs)) /\ Len(logs) \in Nat
    <3>1. DOMAIN logs = 1..Len(logs) /\ Len(logs) \in Nat
      BY DEF RunInv, LogsOK
    <3>2. logs \in [1..Len(logs) -> Range(logs)]
      BY <3>1 DEF RunInv, LogsOK, Range
    <3> QED
      BY <3>1, <3>2 DEF Surjection, Range
  <2>2. IsFiniteSet(1..Len(logs))
    BY <2>1, FS_Interval
  <2>3. IsFiniteSet(Range(logs))
    BY <2>1, <2>2, FS_Surjection
  <2>4. IsFiniteSet(S)
    BY <2>3, FS_Subset
  <2> QED
    BY <2>4, FS_CardinalityType
<1> HIDE DEF n
<1>7. ls \in Seq(S) /\ Len(ls) = n
  BY <1>3, <1>6
<1>8. n # 0
  <2> SUFFICES ASSUME n = 0 PROVE FALSE
    OBVIOUS
  <2>1. ls = << >>
    BY <1>7
  <2> QED
    BY <1>1, <2>1
<1> QED
  BY <1>3, <1>5, <1>6, <1>7, <1>8

\* What Decided says of the logs and of the arms it compares
LEMMA DecidedMeans ==
    ASSUME RunInv, NEW ls \in Analysed, NEW primary \in Primaries, Decided(ls, primary)
    PROVE  /\ \A i \in DOMAIN ls : ls[i].quotable
           /\ \A arm \in {"A", "B"} :
                LET block == Merged(ls).arms[arm]
                IN  /\ block.measured /\ TrueToCache(block)
                    /\ ArmMetric(Merged(ls), arm, primary).valid
           /\ Cuts(Merged(ls), primary) =
                Classify(ArmMetric(Merged(ls), "A", primary).value,
                         ArmMetric(Merged(ls), "B", primary).value)
<1> DEFINE run == Merged(ls)
<1>1. ~ Indecisive(run, ArmMetric(run, "A", primary), ArmMetric(run, "B", primary))
  BY DEF Decided, Cuts
<1>2. run.quotable /\ \A arm \in {"A", "B"} : ArmMetric(run, arm, primary).valid
  BY <1>1 DEF Indecisive
<1>3. \A i \in DOMAIN ls : ls[i].quotable
  BY <1>2 DEF Merged
<1>4. \A arm \in {"A", "B"} : run.arms[arm] = ls[Len(ls)].arms[arm]
  BY DEF Merged
<1> HIDE DEF run
<1>5. \A arm \in {"A", "B"} : run.arms[arm].measured
  BY <1>2 DEF ArmMetric
<1>6. LogOK(ls[Len(ls)])
  BY AnalysedAreLogs
<1>7. \A arm \in {"A", "B"} : TrueToCache(run.arms[arm])
  BY <1>4, <1>5, <1>6 DEF LogOK, BlockOK, ArmNames
<1>8. Cuts(run, primary) = Classify(ArmMetric(run, "A", primary).value,
                                    ArmMetric(run, "B", primary).value)
  BY <1>1 DEF Cuts
<1> QED
  BY <1>2, <1>3, <1>5, <1>7, <1>8 DEF run

\* No decision rests on a dry run, a contaminated control, an arm that was not
\* measured or memory from no real source, however many logs are merged and in
\* whatever order (analyze.py).
THEOREM DecisionsAreSound == RunSpec => []DecidedOnSoundEvidence
<1>1. RunInv => DecidedOnSoundEvidence
  <2> SUFFICES ASSUME RunInv, NEW ls \in Analysed, NEW primary \in Primaries,
                      Decided(ls, primary)
               PROVE  /\ \A i \in DOMAIN ls :
                            ls[i].live /\ ControlClean(ls[i].arms["C"].prefix)
                      /\ \A arm \in {"A", "B"} :
                            LET block == Merged(ls).arms[arm] IN
                            /\ block.measured
                            /\ primary = "kv_footprint" =>
                                  block.kv.hbm.source \in HonestSources
    BY DEF DecidedOnSoundEvidence
  <2>1. \A i \in DOMAIN ls : ls[i].live /\ ControlClean(ls[i].arms["C"].prefix)
    BY DecidedMeans, AnalysedAreLogs DEF LogOK
  <2>2. ASSUME NEW arm \in {"A", "B"}
        PROVE  LET block == Merged(ls).arms[arm] IN
               /\ block.measured
               /\ primary = "kv_footprint" => block.kv.hbm.source \in HonestSources
    <3> DEFINE run == Merged(ls)
    <3>1. /\ run.arms[arm].measured /\ TrueToCache(run.arms[arm])
          /\ ArmMetric(run, arm, primary).valid
      BY DecidedMeans
    <3> HIDE DEF run
    <3>2. primary = "kv_footprint" => run.arms[arm].kv.hbm.source \notin DishonestSources
      BY <3>1 DEF ArmMetric
    <3>3. run.arms[arm].kv.hbm.source \in Sources
      BY <3>1 DEF TrueToCache
    <3> QED
      BY <3>1, <3>2, <3>3 DEF run, Sources
  <2> QED
    BY <2>1, <2>2
<1> QED
  BY <1>1, RunInvHolds, PTL

\* The gauge's share, and the footprint where the gauges gave it, is what the arm
\* held.
LEMMA MetricIsUse ==
    ASSUME NEW run, NEW arm \in {"A", "B"}, NEW primary \in Primaries,
           TrueToCache(run.arms[arm]),
           primary = "kv_cache_util" \/ run.arms[arm].kv.method \in Isolating,
           ArmMetric(run, arm, primary).valid
    PROVE  ArmMetric(run, arm, primary).value = run.arms[arm].used
<1> DEFINE block == run.arms[arm]
           value == Reading(block, primary)
<1>1. ArmMetric(run, arm, primary).value = value /\ value # Null
  BY DEF ArmMetric
<1>2. block.kv # Null
  BY <1>1 DEF Reading
<1>3. CASE primary = "kv_footprint"
  BY <1>1, <1>2, <1>3 DEF Reading, TrueToCache
<1>4. CASE primary = "kv_cache_util"
  <2>1. value = block.kv.usage
    BY <1>2, <1>4 DEF Reading
  <2> QED
    BY <1>1, <2>1 DEF TrueToCache
<1> QED
  BY <1>3, <1>4 DEF Primaries

\* No cut that the analysis may come to is wrong of what the arms' own traffic held
\* in the cache, on either side of a threshold that the doubles of _classify fall:
\* INVEST is of at least 15% less, ABANDON of at most 5% less (analyze.py).
THEOREM CutsAreTrue == RunSpec => []CutsFollowTruth
<1>1. RunInv => CutsFollowTruth
  <2> SUFFICES ASSUME RunInv, NEW ls \in Analysed, NEW primary \in Primaries,
                      Decided(ls, primary),
                      \/ primary = "kv_cache_util"
                      \/ {Merged(ls).arms["A"].kv.method,
                          Merged(ls).arms["B"].kv.method} \subseteq Isolating
               PROVE  LET a == Merged(ls).arms["A"]
                          b == Merged(ls).arms["B"]
                          cuts == Cuts(Merged(ls), primary)
                      IN /\ "INVEST" \in cuts    => 100 * b.used <= 85 * a.used
                         /\ "ABANDON" \in cuts   => 100 * b.used >= 95 * a.used
                         /\ "GREY_ZONE" \in cuts => /\ 100 * b.used >= 85 * a.used
                                                    /\ 100 * b.used <= 95 * a.used
    BY DEF CutsFollowTruth
  <2> DEFINE run == Merged(ls)
             a == run.arms["A"].used
             b == run.arms["B"].used
             cuts == Cuts(run, primary)
  <2>1. /\ \A arm \in {"A", "B"} : /\ TrueToCache(run.arms[arm])
                                   /\ ArmMetric(run, arm, primary).valid
        /\ cuts = Classify(ArmMetric(run, "A", primary).value,
                           ArmMetric(run, "B", primary).value)
    BY DecidedMeans
  <2>2. \A arm \in {"A", "B"} :
            primary = "kv_cache_util" \/ run.arms[arm].kv.method \in Isolating
    OBVIOUS
  <2> HIDE DEF run
  <2>3. ArmMetric(run, "A", primary).value = a /\ ArmMetric(run, "B", primary).value = b
    BY <2>1, <2>2, MetricIsUse
  <2>4. a \in Nat /\ b \in Nat
    BY <2>1 DEF TrueToCache
  <2> HIDE DEF a, b
  <2>5. cuts = Classify(a, b)
    BY <2>1, <2>3
  <2> HIDE DEF cuts
  <2>6. /\ "INVEST" \in cuts    => 100 * b <= 85 * a
        /\ "ABANDON" \in cuts   => 100 * b >= 95 * a
        /\ "GREY_ZONE" \in cuts => 100 * b >= 85 * a /\ 100 * b <= 95 * a
    BY <2>4, <2>5 DEF Classify
  <2> QED
    BY <2>6 DEF run, a, b, cuts
<1> QED
  BY <1>1, RunInvHolds, PTL
=============================================================================
