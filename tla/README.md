# Apohara ContextForge in TLA+

TLA+ models of the parts of Apohara ContextForge (`src/apohara_context_forge`,
`src/agents`, `src/operator`, `src/scripts/gate0`) that keep state across suspensions,
processes or failures, the TLC runs that check them on small instances, and TLAPS proofs of their main
properties for every instance. `PROJECT.json` maps each definition to the
lines it models.

    tlc -workers 2 -config <run>.cfg <module>.tla       # a run, with its module of PROJECT.json
    tlapm <module>Proofs.tla                            # a proof module

## 1. The system

ContextForge lets agents that share prompt text share KV-cache blocks. It is
an asyncio program: one event loop runs every coroutine, and a coroutine gives
way only at an `await` that really waits. Those are the executor jobs
(tokenizing, hashing, FAISS appends and searches), a lock that somebody holds
across such a job, and sleeps. An `asyncio.Lock` that nobody holds across a
suspension never makes anyone wait. Which awaits really wait decides the
atomicity of every action here, and each module says so in its header.

| Component (source) | State | Operations | Talks to | What is hard | What makes it correct |
|---|---|---|---|---|---|
| VRAM-aware cache (`registry/vram_aware_cache.py`) | entries, token total, mode, block | `set`, `get`, `delete`, `clear`, `start`, `stop`, the monitor loop | the VRAM monitor; called by the registry | the policy runs on a mode change only and from `set`; a stale mode; two code paths lift the block, one of them dead | the total is the sum; blocked exactly in EMERGENCY; evictions are those the mode allows; the block ends |
| FAISS index (`dedup/faiss_index.py`) | FAISS vectors, two dictionaries, `_next_id`, a lock | `add`, `search`, `remove`, `get_embedding`, `upgrade_to_ivf`, `reset` | executor threads | reads without the lock, state read before a job and used after it, cancellation | positions and dictionaries agree; answers name the vector read |
| LSH index (`dedup/lsh_engine.py`) | block hash → owners, owner → hashes | `index_prompt`, `find_reusable_blocks`, `clear_agent` | executor threads | re-indexing, shared blocks, overlapping calls | the two dictionaries agree; an agent never matches itself |
| Context registry (`registry/context_registry.py`) | `_agents`, and all of the above | `register_agent`, `clear_agent` | LSH index, anchor pool, cache, FAISS index | five stores written with suspensions between; overlapping calls; a step that fails | registered exactly when in FAISS; a cleared agent leaves nothing; a registered one is listed with its text |
| Anchor pool (`kv_offset/anchor_pool.py`) | anchors, agent → hashes | `update_pool`, pruning | embedding engine | an index filled in one place and emptied in another; the limit | the index names live anchors; each has one creator |
| JCR gate and certifier (`safety/`) | gate log | `gate_decision`, `certify_decision` | recorders | the same rule written twice, in doubles and in rationals; a strict threshold | both decide alike |
| Salt planner (`serving/prefix_salt_planner.py`) | none | `plan` | the gate | what the salt must tell apart | a dense judge shares its salt with nobody |
| Ledger, recorders, audit log (`observability/`) | a file of hash-chained lines, a second file | `append`, `verify`, recording | all processes that share the path | no lock between reading the head and writing; torn lines; swallowed errors | what `verify()` accepts is complete and unedited; the audit log does not run ahead |
| Agent pipeline (`src/agents/pipeline.py`) | step of `run()` | `run` | planner, registry | request ids repeat | every request is made, whatever the recorders meet |
| Monitor tasks (`vram_aware_cache.py`, `context_registry.py`, lifespan of `mcp/server.py`) | the task handle, `_started` | `start`, `stop` | the cache's loop, the server | `stop()` suspends between `cancel()` and the end of the task | one loop while started, none after |
| Gate-0 measurement (`src/scripts/gate0`) | server processes, Redis, raw logs | a run of three arms, on one worker or two; the decision over its logs | vLLM, LMCache, the card | any call may fail, a server may outlive its kill, logs are merged by hand | nothing left running; a decision rests on what the arms it names did |
| Tool server, compression coordinator (`mcp/server.py`, `compression/`) | `_simple_entries`, the compressor's model, counters | `register_context`, `get_optimized_context` | registry | several waits in a request; a 503 half way | an answer is whole, or none |
| Shared-context query (`ContextRegistry.get_shared_context`) | a task per agent | one fan-out | cache, LSH index, FAISS index, pool | what each task read is old when the others end | what is named as shared is shared |
| Queueing controller, step graph, PBKV predictor (`scheduling/`) | rates and sums; a DAG; a history and its log file | arrivals, completions, eviction targets; depths; logging and training | visual cache, router | estimates that move; torn lines and restarts | evictions are an interval apart and not put off for longer; nothing remembered is lost |
| KV-aware router (`routing/`) | workers, homes of anchors | `select_worker`, registration, load reports | step graph | old loads and homes | a request goes to a worker that is there |
| Visual cache (`multimodal/`) | embeddings by hash, counts | `lookup`, `store`, `clear` | queueing controller | two nested loops that rely on an eviction that may refuse | a store returns |
| Speculative coordinator (`decoding/`), TokenDance (`storage/`) | a queue of drafts; a master and its mirrors | submit, verify; register, reuse, reconstruct | none | a verification that raises; a master replaced | no draft is lost; what is rebuilt is what was stored |
| Embedding engine, retrieval (`embeddings/`, `retrieval/`) | a singleton, an LRU cache; vectors by position, ids, texts | `encode`, `add`, `search`, `save`, `load` | executor threads | one load for many callers, cancelled; a rebuilt copy | one vector per text; a search sees every vector |
| LMCache connector, ROMY plugin (`serving/`) | counters, an engine several connectors share; flags | store, retrieve, prefetch, close; two hooks | LMCache, the gate | the engine loses, evicts, raises, is closed | counts are right; a hit is real if its mask could be tested |
| VRAM monitors (`metrics/`, `serving/vram_monitor.py`) | the source label; a peak | reads; `reset`, `peak_gb`, `delta_gb` | pyrsmi, NVML, nvidia-smi, torch, DRM | readers fail one call at a time; reads outside the lock | a CUDA host is never guessed |
| Kubernetes operator (`src/operator`) | none of its own; a resource's Secret, Deployments, Service and status in the API server | `Reconcile` | API server through lagging caches | every read may be old and every request may fail; the resource changes under a pass | one password; objects and status come to what is asked and what is there; nothing outlives the resource |
| Normalizer, exporters, codecs, kernels, evaluation, demos | | | | | not modelled, see section 8 |

## 2. The modules

    CacheContract <--implements-- VRAMCache           LSHStore <-- LSHIndex
         ^                                               ^
         +--INSTANCE-- ContextRegistry --EXTENDS---------+

    FaissIndex    MonitorTasks    Operator    LedgerFile, JCRGate <-- SafetyPipeline
                                                          ^
                      Gate0Workload --EXTENDS-------------+
                            ^--- Gate0Readings <--- Gate0Run <--- Gate0Analysis
    StepGraph <--- WorkflowPredictor

    MCServing --EXTENDS--> LSHIndex, AnchorPool, MonitorTasks, VisualKVCache, QueueingController,
        KVAwareRouter, WorkflowPredictor, SpeculativeCoordinator, TokenDance, EmbeddingEngine,
        RetrievalEngine, LMCacheConnector, VRAMReadings, ToolServer, ROMYPlugin, SharedContext

`MCServing` puts components that share no state side by side: `part` names the
one a behaviour is about, and the others stand still, so the states add up and
do not multiply. `MCx` gives `x` small constants; `xProofs` holds its theorems. A definition
marked `(fault)` is a plausible bug, written just before the definition it
would replace. Nothing uses it. With the fault in the definition's place TLC
finds the property named for it in `PROJECT.json` ("mutants") violated, which
shows that the property depends on that piece of the code.

**VRAMCache.** One action per coroutine, since none suspends. `MonitorStep` is
an iteration of `_vram_monitor_loop` that finds a new mode (one that finds the
old mode changes nothing). `ApplyPolicy` is `_apply_eviction_policy` and is
part of `MonitorStep` and of `Set`. The trouble with `Set` is kept: it applies
the policy of the mode of the last iteration, to a store with the new entry.
`EvictionJustified` judges both: what a mode change throws out, and that a `set()`
evicts under PRESSURE only, within the share and no lighter entry than one that
stays; that it does so by an old mode is `SetEvictsByPressureNow` of section 4. A
`set()` that is refused, and a `get()` that misses, change nothing: they are
stutters. Idle time is counted in ticks up to one above the longer threshold.
`WORKFLOW_AWARE` is left out because `_pressure_to_mode` never returns it.
`CacheContract` says what the registry may rely on; `ImplementsContract` is
the refinement (`held` is the keys, `refusing` the block).

**FaissIndex.** A task's `pc` says which suspension it is in: `waiting` for the
lock, `adding`/`training` (its executor job has not run), `added` (the job is
done, the loop has not resumed it), `searching`/`scored`, `reading`. Jobs are
actions of their own, because they run on threads. `orphans` are jobs whose
`add()` was cancelled: the lock is released, the thread goes on. A search
chooses any position, so every score and threshold is covered.

**LSHStore, LSHIndex.** A prompt is the set of its blocks' hashes, and an owner
is an agent with a part, `"full"` for `a` and `"system"` for `a:system`. All
changes of the dictionaries happen after the tokenizer's job, in one step.
`Distance` and `Threshold` are constants, so that matching by Hamming distance
is covered for any hash.

**ContextRegistry.** A registration is `Register`, `SystemIndexed`,
`FullIndexed`, `Embedded` (anchor pool, cache and the request for the FAISS
lock in one step), perhaps a wait, and `Added`. A clear is `Clear`, which runs
to the end unless the FAISS lock is held, and `Granted` otherwise. LSH is the
real store. The cache is its contract, so the results hold of any cache that
keeps it, which `VRAMCache` is shown to do. Of the pool only that an update may
add the agent's anchor and prune any: none of the properties rests on what stays. `VectorsFit = FALSE` makes every FAISS append raise;
`OneCallPerAgent` says whether callers keep to one call at a time per agent.

**AnchorPool.** An update hashes and embeds first and touches the pool after
its last suspension, pruning included: one action, in arbitrary order. The sets of
hashes are filled by an anchor's creator and emptied by whichever update prunes;
`IndexIsLive` and `CreatedByOne` say that the two places agree. The offsets' values
do not matter to any property and are left out.

**LedgerFile.** The lines of the file and how its last line ended. SHA-256 is
taken to be injective, so an entry's hash is the sequence of the payloads up
to it. A line cut `within` does not parse; text written after it joins it, and
neither then parses. A line cut just `before` its newline parses until
something joins it.

**JCRGate.** Risk sums in hundredths; the gate's rule and the certifier's
constraints are two definitions, as they are two pieces of code. At the default
threshold the doubles decide as the exact sums do: the values that meet 0.7
(0.6 + 0.1) are the same double, and no other sum is within rounding of it.

**SafetyPipeline.** Pipelines are processes that share the ledger file. A step
of `run()` is `Decide` (gate, certificate, head of the chain read), `Write` or
`WriteCut`, and `Finish` (audit log, salt, the agent's request). `Alter` is
somebody's edit of the file. `Settings` says which faults one behaviour may
meet, so that each property is stated under the faults it is meant for.

**MonitorTasks.** `VRAMCache` says what an iteration of the loop does to the
cache; here the loop is only where a cancellation finds it: new, asleep in the
interval, asleep in the backoff, cancelled, ended. `RegistryStop` is `stop()` up
to its `await`, `StopResumes` the rest. `Boot` and `Shutdown` are the server's
lifespan before and after its `yield`; `RegistryStart` and `OtherStop` are other
callers. `StopsOverlap` says whether a `stop()` may begin during another.

**Gate0Workload, Gate0Readings, Gate0Run, Gate0Analysis.** The measurement that
decides the project. `Gate0Workload`: the request list all arms replay, and the
salts and launches by which they differ. `Gate0Readings`: memory, gauges, prefix
counters, and the nine validity checks. `Gate0Run`: the harness as one process
(`task`) over server processes (`card`). A server listens at a port and has a
fate (loads, serves, hangs, dies, survives a kill). `Spawn`, `PollAgain`,
`Drive`, `TornDown`, `Interrupt` are the steps of an arm, and `WriteRawLog` ends
a run. Each deviation takes from `faults`. `Gate0Analysis`: the logs the operator
names, merged arm by arm, the guards that make a comparison indecisive, and the
three cuts. The code divides doubles, and of a reduction of exactly 15 % or 5 % the
quotient may fall on either side of the threshold, depending on the amounts:
`Classify` is the set of cuts it may come to. Readings are in the units they are
rounded to. An interrupt inside `teardown`, between the terminate and the kill, is
not modelled: `Interrupt` comes while a server is polled or driven, and the
teardown that follows runs to its end.

**ToolServer, SharedContext.** Requests as processes that stop where the code
awaits. Both take `register_agent`, `clear_agent` and evictions from outside,
as what they do to the structures that are read; `ContextRegistry` has them in
full.

**VRAMReadings.** A call is told which readers answer it (`Answering`), so each
may fail at any call. The meter's threads read in one step and record in
another, since the code reads before it takes the lock.

**QueueingController.** The clock starts an interval after the time the controller
begins with, as a monotonic clock does; `evictedAt` remembers when an answer last
evicted, which the code keeps only in `_last_eviction_time`. Rates, sums and counts are exact integers; the moving
average's new value is any between the old one and the instantaneous rate.
`VisualKVCache` asks a controller for its floor, which moves between calls.
Its two loops are one action where they end; `Spin` is the turn of the outer
loop that finds nothing evicted. `KVAwareRouter` holds its lock from end to end:
one action a method. `StepGraph` keeps the visited set that the code's depth
search shares between branches; `WorkflowPredictor` has the log file, with torn
lines and restarts, and the tables counted as the code counts them.

**SpeculativeCoordinator, TokenDance.** A draft's position is "sure", "less" or
"none" by how the target's probability compares, so every draw is covered. A
KV block is a number and the norm of a difference its magnitude.

**EmbeddingEngine, RetrievalEngine, LMCacheConnector, ROMYPlugin.** Two vector
spaces (the model's and the hash's) stand for vectors. A load's thread goes on
when its call is cancelled. Nearness in a search is left open. The engine behind
the connectors is external: a store lands later or never, blocks are evicted,
any call may raise, and a mask may come back whose `any()` raises, which the code
takes for a hit. The plugin's collaborators may be missing or raise.

**Operator.** A pass of `Reconcile` for one resource, one step per request to
the API server: `Begin`, `EnsureSecret`, `NameSecret`, `EnsureRedis`,
`EnsureService`, `CreateWorkers` or `UpdateWorkers`, `UpdateStatus`. Every `Get`
and `List` reads `cached`, which the watches bring up to date type by type at
any later time, so a step may miss an object that exists (the server then
refuses the creation, and the pass ends) or rely on one that is gone. An update
of a Deployment that has changed since it was cached is refused. A patch of the
status is a merge patch: it holds the fields that differ from the pass's copy,
and a successful one replaces that copy by the server's, specification
included. `Fail` ends a pass before any request: an error or a restart. An
object is represented by the uid of its owner; `Collect` is the garbage
collector, which takes an object and its pods in one step. The API server,
kubelet and users are the environment. What the environment may do is bounded
by the scenario of the behaviour (`left`). Replicas, image and Redis choice
stand for the Deployment; model and GPU type behave as the Redis choice does
(set at creation only).

## 3. The runs

Most runs end within a minute on two workers. `VRAMCache_safety`, `Gate0_safety`,
`Serving_safety` and `ContextRegistry_safety` take two to four.

| Run | Instance | What it shows |
|---|---|---|
| `VRAMCache_safety` | 3 keys, token counts 1 and 3, a reading in each band, thresholds of 0 and 1 ticks, a share of 2/3 | The counter, what a mode change and a `set()` may evict, the contract, and that an emergency's block ends |
| `FaissIndex_safety` | 3 tasks, 2 agents, 2 vectors, IVF from 2 vectors on; no reset, no cancellation | Positions and answers in every interleaving |
| `FaissIndex_faults` | 2 tasks, 1 agent, with reset and cancellation | Every call returns |
| `FaissIndex_cancel` | 2 tasks, cancellation | **Violation**: a cancelled `add` shifts all later positions |
| `ContextRegistry_safety` | 3 tasks, 2 agents, callers overlap freely | Registry and FAISS agree; nothing is left behind |
| `ContextRegistry_live` | 2 tasks, 2 agents, 2 texts, one call per agent | A registration is whole when it ends, and every call ends |
| `ContextRegistry_listed` | 2 tasks, callers overlap | **Violation**: a registered agent without its LSH blocks |
| `SafetyPipeline_safety` | 2 pipelines, one `run()` each, five teams with their faults | Ledger, audit log, certificates, salts, requests |
| `SafetyPipeline_judges` | the same | **Violation**: two requests of a judge share a salt |
| `Operator_live` | 1 or 2 workers, 2 images, 3 passwords; per behaviour one edit, or one failure, or a deletion, or a deletion and a new resource with its own Redis; 1 or 2 changes of the pods | Passwords, convergence of objects and status, no leftovers |
| `Gate0_safety` | 2 runs, of each topology, dry or live, one fault, 3 requests of 2 roles, KV use of B 20, 19, 17 or 16 units against 20 of A and C | Teardown, arms apart, sound evidence, true cuts, every run ends |
| `Serving_safety` | the rest of this list | One property for each of the components below |

What `Serving_safety` asks of each part:

| Part | Instance | Property |
|---|---|---|
| block index | 2 tasks, 2 agents, 2 hashes one bit apart, prompts of 1 and 2 blocks | `StoreMatchesLists`, `SharedBlocksSurvive` |
| anchor pool | 2 agents, 4 sequences, room for 3, a share of 1/2, 2 accesses | `IndexIsLive`, `CreatedByOne` |
| monitor tasks | 3 tasks, the lifespan and another stopper, no overlapping stops | `OneLoopWhileStarted` |
| visual cache | 3 images of 2 sizes, room for 2 and 3 units, floors 0 to 2 | `StoresReturn` |
| queueing controller | 3 ticks, 2 completions, blocks 0 and 3, a gap of 2 ticks | `EvictionsSpaced` |
| router | 2 workers, loads 10, 85, 120 %, a group, an anchor | `RoutedToTheLiving` |
| predictor | a history of 2, 3 logged steps, torn lines and restarts | `HistoryIsLogged` |
| drafts | 3 drafts of 2 targets, drafts sure, less, missing | `NoDraftLost` |
| TokenDance | 2 agents, block values 0, 1, 3, a threshold of 1 | `MirrorsReconstruct` |
| embeddings | 2 encoders, 3 texts, an LRU of 2, one cancellation | `SameTextSameVector` |
| retrieval | 2 documents, batches of 1 and 2, k of 1 and 3, both modes | `SearchSeesEveryVector` |
| connectors | 2 connectors, one chunk, 2 calls each | `HitsAreReal` |
| readings, meter, tools, plugin, sharing | 3 hosts; 2 threads, 3 levels; 2 requests; 2 wirings and feature sets; 2 agents of one and two like blocks | explored; their properties are those of section 4 |

Why these bounds are enough to meet the cases. Three FAISS or registry tasks
are a holder, a waiter and somebody who comes between; the counterexamples
found need two or three. Three cache keys make the heaviest share more than one
and less than all. A pool of three with four sequences overflows, and prunes two
anchors at once, perhaps the new one. Two pipelines make a fork of the chain,
and a torn line with an entry glued to it. Three agents put a judge exactly at
the threshold, four above it. Two workers of the operator give all three phases,
and one edit between any two steps of two passes is where stale copies matter;
recreating a resource that has a sidecar (1.2 million states) was checked once
with `MCRecreations`. Two Gate-0 runs are enough for a server of the first to
meet the second and for a merge; the uses of B lie
beyond the upper threshold, at it, at the lower one, and at A's own; a scrape that
fails in one arm makes its reading of another method than the other arm's. Three monitor tasks are one that is
ending, its successor and a third. Where the proofs of section 5 exist, the
bounds do not matter.

Bounds: `MaxAccesses` caps access counts (a call that would exceed it is not
taken); `MaxVectors`, `MaxHeld`, `MaxEncodes`, `MaxCalls`, `MaxDrafts`,
`MaxLogged`, `MaxCompletions`, `MaxTicks`, `MaxHookCalls` and `MaxLookups` cap
calls; `MaxRuns` caps runs, `MaxPolls` polls, `MaxFaults` and `MaxCancels` what
goes wrong; ages saturate (`MaxAge`), which is exact since the code compares them
only with smaller thresholds. `SYMMETRY` is used in safety runs only.
`CHECK_DEADLOCK FALSE` is set where the system really stops: SafetyPipeline and
Gate0 after their runs, Operator when its resource is gone, and the parts of
Serving when their bounds are used up.

### Fairness

- `VRAMCache`: `WF(MonitorStep)`, since the loop wakes every 2 s while its
  task lives; `WF(Tick)`, since time passes. Nothing is assumed of callers;
  `EmergencyEnds` has "the monitor stays alive, the pressure stays below 96 %"
  as its hypothesis.
- `FaissIndex`, `ContextRegistry`: executor jobs end and the loop resumes
  whoever can go on. `asyncio.Lock` wakes waiters first come first served,
  which is the `queue`; weak fairness of `Granted` is enough.
- `SafetyPipeline`: a call of `run()` that is not interrupted goes on. No
  fairness for `Start`, `Crash` or `Alter`.
- `Gate0Run`: the harness goes on, since it is one sequential program whose every
  wait has a timeout. Nothing is assumed of the servers.
- `Operator`: passes are requeued after 30 s and after every error, watches
  deliver, the garbage collector runs, a pod whose Secret exists starts. None
  for users, failures or the readiness of pods, which the scenario bounds: the
  `<>[]` properties speak of what follows when these stop.

## 4. Where the code and its text disagree

Runs of the project:

- **`FaissIndex_cancel`.** A task cancelled inside `add()` (a timeout around
  `register_agent` is enough) releases the lock without advancing `_next_id`
  while its thread still appends. From then on every recorded position is one
  too low: searches name the wrong agent.
- **`ContextRegistry_listed`.** A clear empties the LSH lists and waits for
  the FAISS lock; a registration of the same agent passes; the agent ends up
  registered without blocks, and shares nothing until it registers again.
- **`SafetyPipeline_judges`.** `isolated_salt` promises no reuse between two
  judge requests, but `pipeline.py:144` builds the request id from the agent
  and its position, so it is the same in every `run()`.

Stated in the modules, and run by hand: take the run's cfg, change what the table
says, and put the property in the place of the cfg's own (a cfg without SYMMETRY
for temporal ones). Each ends in a counterexample.

| Property | Run's cfg, and changes | Text | Code |
|---|---|---|---|
| `WithinTokenBudget` (VRAMCache) | VRAMCache_safety, a `MaxTokenBudget` of 2 | "Maximum tokens to hold in cache" (constructor) | `_max_token_budget` is never read |
| `IdleLeaveInEmergency` | VRAMCache_safety | EMERGENCY: "Hard evict all idle > 30s" | the policy runs when the mode is entered; what becomes idle later stays |
| `SetStoresWhatItAccepts` | VRAMCache_safety | `set`: "True if stored" | the eviction it triggers may take the new entry, and it returns True |
| `SetEvictsByPressureNow` | VRAMCache_safety | `_apply_eviction_policy` without an override "uses the actual VRAM pressure reading" (192) | it uses the mode the monitor found last: up to 2 s after the end of PRESSURE a `set()` still throws entries out, the new one perhaps among them |
| `RemovedIsNotReturned` (FaissIndex) | FaissIndex_cancel, `WithCancel = FALSE` | `remove`: "the vector stays but won't be returned" | earlier positions of a re-added agent stay mapped, and are returned |
| `AnswersNameTheVectorRead` | the same, `WithReset = TRUE` | answers name the vector read | with `reset()` between read and lookup they may not |
| `ClearedOwnNothing` (LSHIndex) | Serving_safety | `clear_agent` removes the agent's blocks | blocks of a prompt indexed before the last one keep their owner |
| `ClearNeverRaises` (ContextRegistry) | ContextRegistry_listed, `Tasks <- MCTasks3` | clearing an unregistered agent returns False | the second of two overlapping clears raises `KeyError` |
| `ClearedEverywhere` | ContextRegistry_listed | "Clear an agent's context from all stores" | the anchor pool is not cleared |
| `RefusedIsNotRegistered` | ContextRegistry_listed | EMERGENCY: "block new registrations" | the registration goes on without the cache |
| `FailedBootLeavesNothing` (MonitorTasks) | Serving_safety | a server that did not come up leaves nothing running | a constructor that raises after `registry.start()` leaves the loop running |
| `OneLoopWhileStarted` | Serving_safety, `StopsOverlap = TRUE` | a stopped registry has no loop, a started one has one | the `stop()` that ends last drops the handle of a task started in between |
| `WorkersFollowUrl` (Operator) | Operator_live, `MCEdits` | workers are "created or updated" with `LMCACHE_REDIS_URL` (operator/README.md:66) | an update sets replicas and image only |
| `AvailableFollowsPhase` | Operator_live, `MCEditsBack` | a status update patches count, phase "and the `Available` condition" (operator/README.md:67) | the condition is written only when count or phase differ from the pass's copy |
| `WorkersCanAuthenticate` | Operator_live, `MCRecreations` | workers can authenticate against Redis (controller, 326-330) | Redis or workers of a resource recreated at once may have read the Secret of the old one |
| `ThresholdIsGrey` (Gate0Analysis) | Gate0_safety | "``5 <= delta_pct <= 15`` -> GREY_ZONE" (analyze.py:15) | in doubles a reduction from 2.0 to 1.7, exactly 15 %, is 15.000000000000002 and INVEST, and from 20 to 17 it is 15.0 and GREY_ZONE (analyze.py:403, 517) |
| `DecisionsAreIsolated` | Gate0_safety, `Exposures = {{}}` | the footprint is to be isolated from what the card holds as a whole (metrics.py:282) | a server that exposes no gauge is decided on by the whole card's use |
| `DecidedOnEnoughRequests` | Gate0_safety | arms below the floor of requests are not decided on (validity.py:735) | the check looks at the workload, not at how many requests an arm answered |
| `ArmsMeasuredOnTheirOwn` | Gate0_safety | each arm starts from an empty card | a server that outlived its kill is measured with the next arm |
| `DepthIsLongestPath` (StepGraph) | Serving_safety, `StepAgents` of `"s1"` to `"s4"`, `Dependencies <- MCShared`, `MaxSteps = 4` | steps to execution are the longest path | a step reached a second time counts as depth zero |
| `GraphOrderKept` (WorkflowPredictor) | Serving_safety, `Dependencies <- MCChain`, `MaxSteps = 3` | first in the list is evicted first | the blend weighs the list the other way |
| `NoSpeculationUnderLoad` | Serving_safety | "don't run speculative if rho > 0.8" | the coordinator asks for `current_rho`, which QueueingController lacks, so the test passes |
| `FloorAfterEveryCall` (QueueingController) | Serving_safety | "The result guarantees free_blocks_after_eviction >= minimum_stable_blocks. This is asserted in this method and never violated" (313-314), "after every get_eviction_target_blocks() call" (tests/test_queueing_controller.py:154) | within `min_eviction_interval_ms` of the last eviction the answer is 0, before the assertion is reached (348-355), whatever is missing |
| `OverloadIsUnstable` | Serving_safety, services of 1 and 3 | "utilization < 1 AND ..." | the utilisation is capped at 0.9999 before it is compared |
| `LoadsCoalesce` (EmbeddingEngine) | Serving_safety | "concurrent encode() calls coalesce" | when the loading call is cancelled its thread goes on, and a waiter starts a second |
| `IdsNameTheirVectors`, `HitsNameTheirTexts` | Serving_safety | `get_id` gives the id of a position, an engine the text of a hit | `add` inserts before it checks the ids' length, and a loaded store has no ids |
| `HitsWereStored` (LMCacheConnector) | Serving_safety | "Returns ``(kv_tensors, mask)`` on hit, ``None`` on miss" (268) | a mask whose `any()` raises is a hit if it is not `None` (292-293): counted and returned for a chunk that was never stored |
| `ActiveIsReady` | Serving_safety | `is_active`: "State, not intent" | `close()` closes the engine that another connector goes on using as active |
| `LabelIsHonest` (VRAMReadings) | Serving_safety | the label is that of the backend that produced the last reading | an unreadable DRM file is 0 bytes "from drm", and `get_pressure` hides the guessed total |
| `OneReaderPerPressure` | Serving_safety | a pressure is used by total | its halves may come from different readers |
| `DeltaWithinPeak` | Serving_safety | "so callers that do delta <= peak hold" | `delta_gb` does not raise the peak |
| `PeakIsSinceReset` | Serving_safety | the peak since the last `reset()` | a reading taken before a reset may be recorded after it |
| `LastSentStands`, `ReusedIsThere` (ToolServer) | Serving_safety | a registration replaces the one before; what is reused is there | token counts end in any order; the peer may have been cleared since |
| `FlagsAreHonest` (ROMYPlugin) | Serving_safety | the flags "describe what this hook actually did" | `cla_injected` repeats the configuration |
| `SavedWithinPrompt`, `AnswerIsCurrent` (SharedContext) | Serving_safety | tokens saved by sharing | a block counts once per agent that holds it; agents may have left since |

By hand, and holding: `OverBudgetOnlyAtFloor` and `EvictionsKeepFloor`
(VisualKVCache), `AnchorsMoveUnderPressure`
(KVAwareRouter), the last two of which are proved; `DepthIsAPath` (StepGraph with
`GraphSpec`, four agents, the dependencies of `MCShared`, four steps), `AnswersAreWhole` (ToolServer), and
in the runs of their modules the invariants that section 5 proves.

Met while reading and visible in the definitions, without a property of their own:

- `VisualKVCache` asks its controller for `get_minimum_stable_blocks`, which
  `QueueingController` does not have; with a floor as large as the cache the
  store's loop does not end (`StoresReturn` names that case).
- `PBKVPredictor` counts, under a pair of agents, the second of the pair itself, and
  its first-order table begins with the third record of a sequence.
- Contexts sent to `register_context` are never found by `get_optimized_context`:
  the index is filled by `register_agent`, which no tool calls.
- A failed launch (`Popen` raises) leaves `run_gate` altogether, where a comment
  has it recorded as an unmeasured arm (`_lifecycle.py:91`).
- `_scrape_kv_gauges` never takes a block size from the scalar gauge, and
  `save` of the store writes no `.meta.npy`, which `load` requires.

Two limits of the ledger are by design and not violations. A ledger that has
lost its last lines is a shorter valid chain, which `verify()` cannot tell; the
edits of the model leave the tail alone. A gate with a threshold other than 0.7
is certified against 0.7 (`z3_inv15_proof.py:77`), so its certificates may say
"not satisfied"; `CertificatesAttest` therefore assumes the default threshold.

## 5. The proofs

Theorems hold for every value of the constants that the named `ASSUME`s of the
modules allow: any agents, tasks, keys, pipelines, sizes and faults. What a
theorem assumes beyond them is in its statement.

- **VRAMCacheProofs** — `TypeCorrect`, `BlockMatchesMode`
  from one inductive invariant, their conjunction. `BlockedIffEmergency` is inductive because
  every path that changes the mode runs the policy of the new mode in the same
  step. `EmergencyFreezesGrowth` and `ContractImplemented` follow step by step.
  `CounterIsExact`: the tokens of a store are counted as a set of pairs (key,
  number up to its tokens), so that one entry more or fewer changes the count by
  that entry's tokens (`Counted` adds that the store is finite), a put over an
  old entry and an eviction of many included. `EvictionsAreJustified`: a
  mode change drops exactly one victim set of the new mode, and under PRESSURE
  that is as many of the heaviest entries as the share of a finite store,
  rounded down and at least one, comes to (`TargetIsShare`, `PolicyIsJustified`). A
  `set()` applies the mode last found to the store with the new entry; in the other
  modes nothing goes, since it is refused in EMERGENCY and the rest evict nothing
  outside a mode change.
- **FaissIndexProofs** — `PositionsCorrect` is not inductive: between the job
  and the return `ntotal` is one ahead of `_next_id`. The invariant adds
  `HolderInv` (what the lock's holder read before its job is still so:
  `at = nextId`, and `ntotal` is `nextId` or one more), `MapsInv` (recorded
  positions are below `nextId <= ntotal`), `QueueInv` and `OneHolder`. It
  assumes no cancellation, exactly what `FaissIndex_cancel` shows to be needed.
  `AnswersCorrect` adds `ReadersInv`: with no reset, vectors stay where they
  are, so what a reader picked up stays true until it is used.
- **LSHIndexProofs** — `TypeCorrect`, `StoreCorrect`, `AnswersCorrect` by the
  conjunction of the three; `ClearsSpareOthers` per step. `StableOwnersListed`
  is the positive side of `ClearedOwnNothing`: in a behaviour in which no owner is
  re-indexed under another prompt before it was cleared, `clear_agent` misses nothing.
  Its assumption is an action property of the behaviour (`SamePrompt`), not of the
  constants: owners may share blocks, differ in their prompts and overlap.
- **ContextRegistryProofs** — `RegistryMatchesIndex` holds by itself, failing
  appends included. `NothingIsLeft` needs the order of the FAISS lock: what an
  unregistered agent has in the stores belongs to a registration under way
  (`Pending`), and what was listed while a clear waits belongs to a registration
  that is behind that clear (`Overtaken`), so that it is registered after the
  clear and not left behind. It assumes `VectorsFit`, without which a failed
  registration does leave its blocks. `RegistrationsAreWhole` assumes one call at
  a time per agent. Its invariant (`WholeInv`) says of every step of a
  registration which parts of its text the LSH lists hold; a step of another
  agent's call touches neither (`OwnStep`), which is all that the interleaving
  of calls needs.
- **SafetyPipelineProofs** — `GateAgrees` (the two statements of the rule are
  one), `DensePrefillMandated` (what `prove_inv15` states, of the gate itself
  and for every threshold below 1), `AuditFollowsLedger`, `JudgesKeepApart`,
  and `CertificatesAttest`, whose invariant says that every line that parses
  carries a certificate that holds, through torn and glued lines. `TypeCorrect`
  (`Typed`): a hash is a sequence of payloads, and a pipeline's `prev` is one.
  `ValidIsComplete` needs `Recorded`: while every line parses, each acknowledged
  decision is on some line, since a line that is glued to another leaves one
  that does not parse. `ValidIsUntouched` needs `Untouched`: the file is as it
  was written and a chain, or some line does not follow from the one before it,
  and appending never repairs that; `EditBreaks` shows it of each kind of edit.
  `VerifiedStays`: where lines are cut within, the line a later write may change
  is one that does not parse (`CutIsGarbage`).
- **Gate0Proofs** — one inductive invariant (`RunInv`): what servers are alive
  at each step of an arm (`TaskOK`, `ServersOK`), what each result was measured
  on (`ResultsOK`), and what every log says of its run (`LogsOK`).
  `NoServerOutlives` and `ArmsStayApart` read it off. `DecisionsAreSound` and
  `CutsAreTrue` go from the logs to the analysis: whichever logs are merged, in
  any order, the measurement picked for an arm is one of a log's own, so that it
  is sound and, where the gauges isolate, equal to what the arm held (`MetricIsUse`).
  `CutsAreTrue` is of every cut the doubles may come to at a threshold.
- **OperatorProofs** — `TypeCorrect`, and `PasswordsStayEqual` for a resource
  that has not been deleted. The invariant (`FirstLife`) says that the uid of
  everything is 1, so that the collector has nothing to take; that what the
  cache shows is there; and that a pass which has seen to the Secret, or whose
  copy needs it, runs beside it. The last is what the order of the code's
  steps is for, and the refresh of the copy by `NameSecret` does not break it,
  since it happens after the Secret.

- **ServingProofs** — twelve components of the serving layer, each by its own
  specification. `MonitorHasOneLoop` needs `OneStop`: the
  task a `stop()` waits for is the one behind the handle, no other task is alive,
  and no two calls wait; it assumes that stops do not overlap, without which TLC
  finds the loop that nobody can stop. `RetrievesAreCounted`: what the engine
  holds was stored (`CountsAreReal`), so a hit after any losses is real
  whose mask could be tested; of the others `HitsWereStored` fails.
  `DraftsKeepTheirTurn` (`DraftsInTurn`, with the sequences typed).
  `EvictionsAreSpaced` needs `ThrottleSound` (what the controller remembers as its last
  eviction is the last answer that evicted, or the start) and that below the floor the
  blocks needed are more than none, for which the estimates must be numbers with
  non-zero divisors (`Estimates`, `MinimumIsWhole`). `CudaIsNeverGuessed`: no
  path of a CUDA host leads to the default of 192 GB.
  `RequestsReachTheLiving` needs `MeshOfWorkers` and that a set of loads has a
  least (`LeastExists`); loads are taken to be natural numbers. `AnchorsStay`
  follows from the same invariant.
  `SearchesSeeEveryVector`: a search's copy is what is held (`CopyIsCurrent`).
  `OneTextOneVector`: while no load has been cancelled, a thread runs exactly when
  a call holds the lock and the outcome is open (`OneLoad`), so no vector is made
  before it is settled in which space; the cache holds only what was returned.
  `IndexStaysLive`: a hash is in an agent's set only while the anchor has an
  offset of that agent, so that walking the anchor's agents finds every set to
  prune. `AnchorsHaveOneCreator` adds that the set is the creator's alone: a hash is
  added only with its anchor, and pruning takes it out of every set (`PruningKeepsOwned`).
  `StoresComeBack` and
  `FloorIsKept` rest on one block per image (`VisualSound`): only then does
  removing a hash leave room for it, and both of the store's loops stop at the
  floor.
  `MirrorsGiveBack` (`MirrorsAgree`): a mirror, the master's blocks and what the
  agent gave keep agreeing up to the threshold (`Rebuilds`) through a collective
  step, which makes the master's blocks longer and, for the agents named, what
  they gave; another master drops the mirrors, and the same one with new blocks
  leaves them outdated.
  `RememberedIsLogged` (`LogSound`): one record more in the file moves every
  remembered step one place from the end, in the history as in the file, unless
  the write was lost, and then nothing is claimed until the next restart.

Some invariants are proved and no longer in a run's cfg: the types of VRAMCache,
FaissIndex, LSHIndex and Operator, `BlockedIffEmergency`,
`NoGrowthInEmergency`, `OneHolder`, `AnswersAreOthers`, `NoGuessOnCuda`,
`VerifiedOnlyGrows`, `EvictionsKeepFloor`,
`AnchorsMoveUnderPressure` and the type of VisualKVCache.

Every invariant and action property of the passing runs is stated by a theorem,
and so is the refinement. Only model-checked is liveness (`EmergencyEnds`,
`CallsReturn`, `RequestsAreSent`, `Settles`, `StatusFollowsPods`,
`NothingOutlivesCluster`, `RunsEnd`), which needs fairness and ENABLED, out of
this prover's reach; and, by hand, what section 4 lists as holding without a
theorem. The depths of the step graph are recursive functions: what they compute
for every graph would need induction over data, so `DepthIsAPath` is checked on
four agents.

## 6. Hazards

`PROJECT.json` lists what is hardest to test in this code at its lines, with the
properties that would notice. Those without a property have a note. Others are
known by their counterexamples and stand in section 4: a re-added agent's old
positions (`faiss_index.py:104`), membership checked before the waits of a clear
(`context_registry.py:487`), an EMERGENCY that looks at idle entries once
(`vram_aware_cache.py:101`), a budget nobody reads (154), readings of the peak
meter recorded after a reset (`serving/vram_monitor.py`), the registration of a
vector that FAISS refuses (`context_registry.py:222`), and a ledger that lost its
last lines (`ledger.py:43`).

## 7. Plan

Done, in this order: the cache and its contract; the FAISS index; the LSH
index; the registry on top of them; the ledger, gate and salts with the
pipelines that use them; the anchor pool; the operator; the
Gate-0 measurement; the serving layer with its schedulers, caches, engines,
connectors and monitors.

Next, most important first:

1. The visual cache with the queueing controller as its floor, in place of a floor
   that moves freely, once the code gives the controller the method.
2. `SharedContext` over the real registry instead of its effects, and the
   composition of `ToolServer` with `MonitorTasks` at shutdown.
3. Acceptance of a prefix as refinement of decoding without speculation; TokenDance
   as refinement of a map from agents to blocks.
4. A registry that is one set of registered agents, and an append-only log that
   `LedgerFile` refines without edits.
5. An interrupt inside `teardown` (`_lifecycle.py:146`), which may leave a server
   that was asked to end and not killed.
6. Proofs: the refinements above step by step, and `OverBudgetOnlyAtFloor`, once
   the bytes of a sequence are counted as a set, as the tokens of a store are.

## 8. Not modelled

The prefix normalizer (text), metrics endpoints and exporters (no influence on
decisions), the quantization codecs, the FWHT and the GPU kernels (numeric),
similarity, token counting and evaluation (pure functions of floats and text), the
demonstration agents and dashboards, the deprecated modules, packaging, the
reports of Gate-0 and the other scripts and benchmarks, the HTTP client of vLLM.
`PROJECT.json` has each with its reason.
