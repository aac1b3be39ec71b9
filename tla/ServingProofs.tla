---------------------------- MODULE ServingProofs ----------------------------
(***************************************************************************)
(* Proofs about components of the serving layer that share no state:       *)
(* MonitorTasks, LMCacheConnector, VRAMReadings, SpeculativeCoordinator,   *)
(* QueueingController, KVAwareRouter, RetrievalEngine, EmbeddingEngine,    *)
(* AnchorPool, VisualKVCache, TokenDance and WorkflowPredictor.  Each      *)
(* keeps the specification of its own module.                              *)
(***************************************************************************)
EXTENDS MonitorTasks, LMCacheConnector, VRAMReadings, SpeculativeCoordinator,
        QueueingController, KVAwareRouter, RetrievalEngine, EmbeddingEngine,
        AnchorPool, VisualKVCache, TokenDance, WorkflowPredictor,
        SequenceTheorems, FiniteSetTheorems, WellFoundedInduction, TLAPS

-----------------------------------------------------------------------------
(* MonitorTasks: one loop while the registry is started, if stop() calls do *)
(* not overlap.                                                             *)

MonitorResting == {"new", "asleep", "backoff"}

\* What OneLoopWhileStarted rests on: the task a stop() waits for is still the
\* one behind the handle, and no other task is alive.
OneStop ==
    /\ MonitorTypeOK
    /\ started <=> handle # NoLoop
    /\ \A l \in Loops : l # handle => loop[l] \in {"none", "ended"}
    /\ \A c \in Stoppers : stopping[c] # NoLoop =>
          stopping[c] = handle /\ loop[handle] \in {"cancelled", "ended"}
    /\ \A c, d \in Stoppers : stopping[c] # NoLoop /\ stopping[d] # NoLoop => c = d
    /\ handle # NoLoop /\ Quiet => loop[handle] \in MonitorResting

LEMMA OneStopInit == MonitorInit => OneStop
BY NoLoopAssumption, StoppersAssumption
   DEF MonitorInit, OneStop, MonitorTypeOK, LoopStates, Quiet, MonitorResting

\* A stop() that begins alone leaves the inductive invariant as it is.
LEMMA StopBegins ==
    ASSUME OneStop, ~ StopsOverlap, NEW c \in Stoppers, RegistryStop(c), lifespan' \in
           {"down", "up", "closing", "failed"}
    PROVE  OneStop'
<1>1. stopping[c] = NoLoop /\ Quiet
  BY DEF RegistryStop
<1>2. CASE started /\ handle # NoLoop
  <2>1. /\ loop' = [loop EXCEPT ![handle] = IF @ = "ended" THEN @ ELSE "cancelled"]
        /\ stopping' = [stopping EXCEPT ![c] = handle]
        /\ started' = started /\ handle' = handle
    BY <1>2 DEF RegistryStop, CacheStop
  <2>2. handle \in Loops
    BY <1>2 DEF OneStop, MonitorTypeOK
  <2> QED
    BY <1>1, <1>2, <2>1, <2>2, NoLoopAssumption
       DEF OneStop, MonitorTypeOK, LoopStates, Quiet, MonitorResting
<1>3. CASE ~ (started /\ handle # NoLoop)
  <2>1. ~ started /\ handle = NoLoop
    BY <1>3 DEF OneStop
  <2>2. started' = FALSE /\ UNCHANGED <<loop, stopping, handle>>
    BY <1>3 DEF RegistryStop
  <2> QED
    BY <2>1, <2>2 DEF OneStop, MonitorTypeOK, Quiet
<1> QED
  BY <1>2, <1>3

LEMMA OneStopStep ==
    ASSUME ~ StopsOverlap
    PROVE  OneStop /\ [MonitorNext]_monitorVars => OneStop'
<1> SUFFICES ASSUME OneStop, [MonitorNext]_monitorVars PROVE OneStop'
  OBVIOUS
<1>0. StoppersAssumption /\ NoLoopAssumption
  BY StoppersAssumption, NoLoopAssumption
<1>1. CASE RegistryStart
  <2>1. handle = NoLoop /\ ~ started /\ CreateLoop
    BY <1>1 DEF RegistryStart, CacheStart, OneStop
  <2>2. PICK l \in Loops : loop[l] = "none" /\ loop' = [loop EXCEPT ![l] = "new"] /\ handle' = l
    BY <2>1 DEF CreateLoop
  <2> QED
    BY <1>1, <2>1, <2>2, NoLoopAssumption
       DEF RegistryStart, OneStop, MonitorTypeOK, LoopStates, Quiet, MonitorResting
<1>2. CASE Shutdown
  BY <1>2, StopBegins, StoppersAssumption DEF Shutdown
<1>3. CASE LifespanEnds
  BY <1>3 DEF LifespanEnds, OneStop, MonitorTypeOK, Quiet
<1>4. ASSUME NEW c \in Stoppers, StopResumes(c) PROVE OneStop'
  <2>1. /\ stopping[c] # NoLoop /\ loop[stopping[c]] = "ended" /\ stopping[c] = handle
        /\ \A d \in Stoppers : d # c => stopping[d] = NoLoop
    BY <1>4 DEF StopResumes, Awaited, OneStop
  <2> QED
    BY <1>4, <2>1, NoLoopAssumption DEF StopResumes, OneStop, MonitorTypeOK, LoopStates, Quiet
<1>5. ASSUME NEW c \in Stoppers, OtherStop(c) PROVE OneStop'
  BY <1>5, StopBegins DEF OtherStop, OneStop, MonitorTypeOK
<1>6. ASSUME NEW l \in Loops, LoopEnds(l) PROVE OneStop'
  <2>1. l = handle /\ ~ Quiet
    BY <1>6, NoLoopAssumption DEF LoopEnds, OneStop, MonitorResting
  <2> QED
    BY <1>6, <2>1, NoLoopAssumption DEF LoopEnds, OneStop, MonitorTypeOK, LoopStates, Quiet
<1>7. ASSUME NEW raises \in BOOLEAN, Boot(raises) PROVE OneStop'
  <2>1. PICK l \in Loops : loop[l] = "none" /\ loop' = [loop EXCEPT ![l] = "new"] /\ handle' = l
    BY <1>7 DEF Boot, CreateLoop
  <2>2. handle = NoLoop
    BY <1>7 DEF Boot, OneStop
  <2> QED
    BY <1>7, <2>1, <2>2, NoLoopAssumption
       DEF Boot, OneStop, MonitorTypeOK, LoopStates, Quiet, MonitorResting
<1>8. ASSUME NEW l \in Loops, NEW raises \in BOOLEAN, LoopTurn(l, raises) PROVE OneStop'
  <2>1. l = handle /\ Quiet
    BY <1>8 DEF LoopTurn, OneStop, Quiet
  <2> QED
    BY <1>8, <2>1, NoLoopAssumption
       DEF LoopTurn, OneStop, MonitorTypeOK, LoopStates, Quiet, MonitorResting
<1>9. CASE UNCHANGED monitorVars
  BY <1>9 DEF monitorVars, OneStop, MonitorTypeOK, Quiet
<1> QED
  BY <1>1, <1>2, <1>3, <1>4, <1>5, <1>6, <1>7, <1>8, <1>9 DEF MonitorNext

\* If stop() calls do not overlap, a registry that no stop() is working on has one
\* live loop when it is started and none otherwise (start, stop, lifespan).
THEOREM MonitorHasOneLoop ==
    ASSUME ~ StopsOverlap
    PROVE  MonitorSpec => []OneLoopWhileStarted
<1>1. OneStop => OneLoopWhileStarted
  BY NoLoopAssumption
     DEF OneStop, OneLoopWhileStarted, MonitorTypeOK, LoopStates, Alive, MonitorResting
<1> QED
  BY OneStopInit, OneStopStep, <1>1, PTL DEF MonitorSpec

-----------------------------------------------------------------------------
(* LMCacheConnector: what a connector counts and reports is what happened.  *)

Reports == [hit : BOOLEAN, chunk : Chunks \cup {"none"}, tested : BOOLEAN]
Counts  == [stores : Nat, hits : Nat, misses : Nat, lookups : Nat]

\* What HitsAreReal rests on: a block is held only after it was stored, and a
\* block looked up for a prefetch was held then.
CountsAreReal ==
    /\ stats \in [Connectors -> Counts]
    /\ prefetching \in [Connectors -> SUBSET Chunks]
    /\ asked \in [Connectors -> Nat]
    /\ reported \in [Connectors -> Reports]
    /\ inEngine \subseteq everStored
    /\ HitsAreReal

\* One call of the engine's retrieve: counted once, and a hit only of a block
\* that is there.
LEMMA FetchIsCounted ==
    ASSUME CountsAreReal, NEW c \in Connectors, NEW chunk \in Chunks, Fetch(c, chunk),
           everStored' = everStored, inEngine' = inEngine,
           prefetching' \in [Connectors -> SUBSET Chunks]
    PROVE  CountsAreReal'
<1>1. PICK mask \in Masks(chunk) :
          /\ stats' = [stats EXCEPT ![c] = CountedAsAsked(stats[c], mask)]
          /\ reported' = [reported EXCEPT ![c] = [hit |-> HasHit(mask), chunk |-> chunk,
                                                  tested |-> mask # "unreadable"]]
  BY DEF Fetch
<1>2. asked' = [asked EXCEPT ![c] = asked[c] + 1]
  BY DEF Fetch
<1>3. /\ HasHit(mask) \in BOOLEAN
      /\ HasHit(mask) /\ mask # "unreadable" => chunk \in everStored
  BY <1>1 DEF HasHit, Masks, CountsAreReal
<1>4. ASSUME NEW s \in Counts
      PROVE  /\ CountedAsAsked(s, mask) \in Counts
             /\ CountedAsAsked(s, mask).hits + CountedAsAsked(s, mask).misses
                    = s.hits + s.misses + 1
  <2>1. CASE HasHit(mask)
    BY <1>4, <2>1 DEF CountedAsAsked, Counts
  <2>2. CASE ~ HasHit(mask)
    BY <1>4, <2>2 DEF CountedAsAsked, Counts
  <2> QED
    BY <2>1, <2>2
<1>5. stats[c] \in Counts /\ asked[c] \in Nat /\ stats[c].hits + stats[c].misses = asked[c]
  BY DEF CountsAreReal, HitsAreReal
<1>6. stats' \in [Connectors -> Counts] /\ asked' \in [Connectors -> Nat]
  BY <1>1, <1>2, <1>4, <1>5 DEF CountsAreReal
<1>7. reported' \in [Connectors -> Reports]
  BY <1>1, <1>3 DEF CountsAreReal, Reports
<1>8. ASSUME NEW d \in Connectors
      PROVE  /\ stats'[d].hits + stats'[d].misses = asked'[d]
             /\ reported'[d].hit /\ reported'[d].tested => reported'[d].chunk \in everStored
  <2>1. CASE d = c
    BY <1>1, <1>2, <1>3, <1>4, <1>5, <2>1 DEF CountsAreReal
  <2>2. CASE d # c
    BY <1>1, <1>2, <1>8, <2>2 DEF CountsAreReal, HitsAreReal
  <2> QED
    BY <2>1, <2>2
<1> QED
  BY <1>6, <1>7, <1>8 DEF CountsAreReal, HitsAreReal

\* A lookup touches no more than the count of lookups.
LEMMA LookupIsNoRetrieve ==
    ASSUME CountsAreReal, NEW c \in Connectors, NEW chunk \in Chunks, NEW found \in BOOLEAN,
           LookupChunk(c, chunk, found),
           UNCHANGED <<everStored, inEngine, asked>>,
           prefetching' \in [Connectors -> SUBSET Chunks],
           \/ reported' = reported
           \/ reported' = [reported EXCEPT ![c] = [NoReport EXCEPT !.chunk = chunk]]
    PROVE  CountsAreReal'
<1> DEFINE s == [stats[c] EXCEPT !.lookups = @ + 1]
<1>1. stats' = [stats EXCEPT ![c] = s] \/ stats' = stats
  BY DEF LookupChunk
<1>2. stats[c] \in Counts
  BY DEF CountsAreReal
<1>3. s \in Counts /\ s.hits = stats[c].hits /\ s.misses = stats[c].misses
  BY <1>2 DEF Counts
<1>4. /\ stats' \in [Connectors -> Counts]
      /\ \A d \in Connectors : stats'[d].hits = stats[d].hits /\ stats'[d].misses = stats[d].misses
  <2> HIDE DEF s
  <2> QED
    BY <1>1, <1>3 DEF CountsAreReal
<1>5. reported' \in [Connectors -> Reports]
  <2>1. [NoReport EXCEPT !.chunk = chunk] \in Reports
    BY DEF NoReport, Reports
  <2>2. CASE reported' = [reported EXCEPT ![c] = [NoReport EXCEPT !.chunk = chunk]]
    BY <2>1, <2>2 DEF CountsAreReal
  <2>3. CASE reported' = reported
    BY <2>3 DEF CountsAreReal
  <2> QED
    BY <2>2, <2>3
<1>6. ASSUME NEW d \in Connectors, reported'[d].hit PROVE reported'[d] = reported[d]
  <2>1. CASE reported' = [reported EXCEPT ![c] = [NoReport EXCEPT !.chunk = chunk]]
    BY <1>6, <2>1 DEF CountsAreReal, NoReport
  <2> QED
    BY <2>1
<1> QED
  BY <1>4, <1>5, <1>6 DEF CountsAreReal, HitsAreReal

LEMMA CountsAreRealStep == CountsAreReal /\ [ConnectorNext]_cacheConnVars => CountsAreReal'
<1> SUFFICES ASSUME CountsAreReal, [ConnectorNext]_cacheConnVars PROVE CountsAreReal'
  OBVIOUS
<1>1. ASSUME NEW c \in Connectors,
             NEW how \in {"cuda", "non_cuda", "handed over", "none"}, Build(c, how)
      PROVE  CountsAreReal'
  BY <1>1 DEF Build, engineVars, CountsAreReal, HitsAreReal
<1>2. ASSUME NEW c \in Connectors, PrefetchFetches(c) PROVE CountsAreReal'
  BY <1>2, FetchIsCounted DEF PrefetchFetches, engineVars, CountsAreReal
<1>3. ASSUME NEW c \in Connectors, ConnectorClose(c) PROVE CountsAreReal'
  BY <1>3 DEF ConnectorClose, CountsAreReal, HitsAreReal
<1>4. ASSUME NEW c \in Connectors, NEW chunk \in Chunks, NEW blocking \in BOOLEAN,
             ConnectorStore(c, chunk, blocking)
      PROVE  CountsAreReal'
  BY <1>4 DEF ConnectorStore, CountsAreReal, HitsAreReal, Counts
<1>5. ASSUME NEW c \in Connectors, NEW chunk \in Chunks, ConnectorRetrieve(c, chunk)
      PROVE  CountsAreReal'
  BY <1>5, FetchIsCounted DEF ConnectorRetrieve, engineVars, CountsAreReal
<1>6. ASSUME NEW c \in Connectors, NEW chunk \in Chunks, NEW found \in BOOLEAN,
             ConnectorLookup(c, chunk, found) \/ PrefetchLooks(c, chunk, found)
      PROVE  CountsAreReal'
  BY <1>6, LookupIsNoRetrieve
     DEF ConnectorLookup, PrefetchLooks, engineVars, CountsAreReal
<1>7. ASSUME NEW chunk \in Chunks, Land(chunk) \/ Lose(chunk) PROVE CountsAreReal'
  BY <1>7 DEF Land, Lose, CountsAreReal, HitsAreReal
<1>8. CASE UNCHANGED cacheConnVars
  BY <1>8 DEF cacheConnVars, CountsAreReal, HitsAreReal
<1> QED
  BY <1>1, <1>2, <1>3, <1>4, <1>5, <1>6, <1>7, <1>8 DEF ConnectorNext

\* Every retrieve asked of the engine is counted once, as a hit or as a miss, one
\* whose mask cannot be tested included, and a hit whose mask was tested is of
\* blocks the engine once had: for any number of connectors of one engine,
\* whatever it loses, evicts or raises (retrieve, prefetch, close).
THEOREM RetrievesAreCounted == ConnectorSpec => []HitsAreReal
<1>1. ConnectorInit => CountsAreReal
  BY DEF ConnectorInit, CountsAreReal, HitsAreReal, Counts, Reports, NoCalls, NoReport
<1>2. CountsAreReal => HitsAreReal
  BY DEF CountsAreReal
<1> QED
  BY <1>1, <1>2, CountsAreRealStep, PTL DEF ConnectorSpec

-----------------------------------------------------------------------------
(* SpeculativeCoordinator: the queue of drafts.                             *)

Draft == [target : Targets, tokens : DraftTokens]

DraftsInTurn ==
    /\ submitted \in Seq(Draft) /\ draftQueue \in Seq(Draft) /\ handedOut \in Seq(Draft)
    /\ NoDraftLost

\* Reading the next draft moves it from the queue to those handed out.
LEMMA FetchKeepsTurn ==
    ASSUME DraftsInTurn, FetchOverlappedNext, submitted' = submitted
    PROVE  DraftsInTurn'
<1>1. CASE Overlapped /\ draftQueue # << >>
  <2>1. draftQueue' = Tail(draftQueue) /\ handedOut' = Append(handedOut, Head(draftQueue))
    BY <1>1 DEF FetchOverlappedNext
  <2>2. Head(draftQueue) \in Draft /\ Tail(draftQueue) \in Seq(Draft)
    BY <1>1 DEF DraftsInTurn
  <2>3. handedOut \o draftQueue = Append(handedOut, Head(draftQueue)) \o Tail(draftQueue)
    BY <1>1, <2>2, HeadTailAppend DEF DraftsInTurn
  <2> QED
    BY <2>1, <2>2, <2>3 DEF DraftsInTurn, NoDraftLost
<1>2. CASE ~ (Overlapped /\ draftQueue # << >>)
  BY <1>2 DEF FetchOverlappedNext, DraftsInTurn, NoDraftLost
<1> QED
  BY <1>1, <1>2

LEMMA DraftsInTurnStep == DraftsInTurn /\ [SpecNext]_specVars => DraftsInTurn'
<1> SUFFICES ASSUME DraftsInTurn, [SpecNext]_specVars PROVE DraftsInTurn'
  OBVIOUS
<1>1. ASSUME NEW fit \in BOOLEAN, NEW c \in Controllers, NEW rho \in Rhos,
             IsSpeculativeViable(fit, c, rho)
      PROVE  DraftsInTurn'
  BY <1>1 DEF IsSpeculativeViable, DraftsInTurn, NoDraftLost
<1>2. ASSUME NEW t \in Targets, NEW tokens \in DraftTokens, SubmitDraft(t, tokens)
      PROVE  DraftsInTurn'
  <2> DEFINE entry == [target |-> t, tokens |-> tokens]
  <2>1. handedOut' = handedOut
    BY <1>2 DEF SubmitDraft
  <2>2. CASE Overlapped
    <3>1. draftQueue' = Append(draftQueue, entry) /\ submitted' = Append(submitted, entry)
      BY <1>2, <2>2 DEF SubmitDraft
    <3>2. entry \in Draft
      BY DEF Draft
    <3>3. /\ handedOut \in Seq(Draft) /\ draftQueue \in Seq(Draft)
          /\ submitted \in Seq(Draft) /\ submitted = handedOut \o draftQueue
      BY DEF DraftsInTurn, NoDraftLost
    <3>4. Append(submitted, entry) = handedOut \o Append(draftQueue, entry)
      <4> HIDE DEF entry
      <4> QED
        BY <3>2, <3>3
    <3>5. Append(draftQueue, entry) \in Seq(Draft) /\ Append(submitted, entry) \in Seq(Draft)
      BY <3>2, <3>3, AppendProperties
    <3> HIDE DEF entry
    <3> QED
      BY <2>1, <3>1, <3>3, <3>4, <3>5 DEF DraftsInTurn, NoDraftLost
  <2>3. CASE ~ Overlapped
    BY <1>2, <2>1, <2>3 DEF SubmitDraft, DraftsInTurn, NoDraftLost
  <2> QED
    BY <2>2, <2>3
<1>3. ASSUME NEW odds \in Odds, NEW n \in 0 .. Len(odds), NEW wrong \in BOOLEAN,
             VerifyAndCommit(odds, n, wrong)
      PROVE  DraftsInTurn'
  <2>1. submitted' = submitted /\ (FetchOverlappedNext \/ UNCHANGED <<draftQueue, handedOut>>)
    BY <1>3 DEF VerifyAndCommit
  <2> QED
    BY <2>1, FetchKeepsTurn DEF DraftsInTurn, NoDraftLost
<1>4. CASE UNCHANGED specVars
  BY <1>4 DEF specVars, DraftsInTurn, NoDraftLost
<1> QED
  BY <1>1, <1>2, <1>3, <1>4 DEF SpecNext

\* No queued draft is lost, handed out twice or out of turn, however many drafts
\* are queued and whatever verifications raise (submit_draft, verify_and_commit).
THEOREM DraftsKeepTheirTurn == SpecSpec => []NoDraftLost
<1>1. SpecInit => DraftsInTurn
  BY DEF SpecInit, DraftsInTurn, NoDraftLost
<1>2. DraftsInTurn => NoDraftLost
  BY DEF DraftsInTurn
<1> QED
  BY <1>1, <1>2, DraftsInTurnStep, PTL DEF SpecSpec

-----------------------------------------------------------------------------
(* QueueingController: the throttle.                                        *)

\* The clock and the estimates are numbers.
Estimates ==
    /\ rate \in Nat /\ tick \in Nat /\ lastEviction \in Nat
    /\ completed \in [n : Nat, time : Nat, m : Nat, blocks : Nat]

\* The floor is a whole number, whatever was observed.
LEMMA MinimumIsWhole == Estimates => MinimumStable \in Int
<1> SUFFICES ASSUME Estimates PROVE MinimumStable \in Int
  OBVIOUS
<1>1. ASSUME NEW a \in Nat, NEW b \in Nat \ {0} PROVE CeilDiv(a, b) \in Int
  BY <1>1 DEF CeilDiv
<1>2. Lambda[1] \in Nat /\ Lambda[2] \in Nat \ {0}
  BY QueueAssumption DEF Lambda, Estimates
<1>3. MeanBlocks[1] \in Nat /\ MeanBlocks[2] \in Nat \ {0}
  BY DEF MeanBlocks, Estimates
<1>4. CASE Estimable
  <2>1. completed.n \in Nat \ {0} /\ completed.time \in Nat
    BY <1>4, QueueAssumption DEF Estimable, Estimates
  <2>2. Lambda[1] * completed.time * MeanBlocks[1] * MarginNum \in Nat
    BY <1>2, <1>3, <2>1, QueueAssumption
  <2>3. ASSUME NEW a \in Nat \ {0}, NEW b \in Nat \ {0} PROVE a * b \in Nat \ {0}
    BY <2>3
  <2>4. Lambda[2] * completed.n \in Nat \ {0}
    BY <1>2, <2>1, <2>3
  <2>5. Lambda[2] * completed.n * MeanBlocks[2] \in Nat \ {0}
    BY <1>3, <2>3, <2>4
  <2>6. Lambda[2] * completed.n * MeanBlocks[2] * MarginDen \in Nat \ {0}
    BY <2>3, <2>5, QueueAssumption
  <2> QED
    BY <1>1, <1>4, <2>2, <2>6 DEF MinimumStable
<1>5. CASE ~ Estimable
  BY <1>5, QueueAssumption DEF MinimumStable
<1> QED
  BY <1>4, <1>5

\* What EvictionsSpaced rests on: the controller's time of the last eviction is the
\* time an answer last evicted.
ThrottleSound ==
    /\ Estimates /\ evictedAt = lastEviction
    /\ EvictionsSpaced

LEMMA ThrottleStep == ThrottleSound /\ [QueueNext]_queueVars => ThrottleSound'
<1> SUFFICES ASSUME ThrottleSound, [QueueNext]_queueVars PROVE ThrottleSound'
  OBVIOUS
<1>1. ASSUME NEW t \in {tick, tick - 1} \cap Nat, Arrive(t) PROVE ThrottleSound'
  BY <1>1, QueueAssumption DEF Arrive, Blends, ThrottleSound, Estimates, EvictionsSpaced
<1>2. ASSUME NEW time \in Services, NEW blocks \in Blocks, Complete(time, blocks)
      PROVE  ThrottleSound'
  BY <1>2, QueueAssumption DEF Complete, ThrottleSound, Estimates, EvictionsSpaced
<1>3. ASSUME NEW free \in FreeBlocks, NEW requested \in Requested,
             GetEvictionTarget(free, requested)
      PROVE  ThrottleSound'
  <2>1. /\ free \in Nat /\ requested \in Nat /\ MinimumStable \in Int
        /\ tick \in Nat /\ EvictionGap \in Nat /\ lastEviction \in Nat
        /\ evictedAt = lastEviction
    BY QueueAssumption, MinimumIsWhole DEF ThrottleSound, Estimates
  <2>2. rate' = rate /\ tick' = tick /\ completed' = completed
    BY <1>3 DEF GetEvictionTarget
  <2>3. EvictNeeded(free, requested) > 0 <=> free - requested < MinimumStable
    BY <2>1 DEF EvictNeeded
  <2>4. CASE /\ free - requested >= MinimumStable \/ (Throttled /\ EvictNeeded(free, requested) > 0)
             /\ Answered(free, requested, 0)
             /\ lastEviction' = Stamped(FALSE)
    <3>1. /\ lastEviction' = lastEviction /\ evictedAt' = evictedAt
          /\ target'.evict = 0 /\ target'.at = tick /\ target'.before = evictedAt
          /\ target'.free = free /\ target'.requested = requested
          /\ target'.minimum = MinimumStable
      BY <2>4 DEF Answered, Stamped
    <3>2. free - requested >= MinimumStable \/ tick - evictedAt < EvictionGap
      BY <2>1, <2>4 DEF Throttled
    <3>3. EvictionsSpaced'
      BY <2>1, <3>1, <3>2 DEF EvictionsSpaced
    <3> QED
      BY <2>1, <2>2, <3>1, <3>3 DEF ThrottleSound, Estimates
  <2>5. CASE /\ free - requested < MinimumStable /\ ~ (Throttled /\ EvictNeeded(free, requested) > 0)
             /\ Answered(free, requested, EvictNeeded(free, requested))
             /\ lastEviction' = Stamped(TRUE)
    <3> DEFINE n == EvictNeeded(free, requested)
    <3>0. n \in Int /\ n > 0
      BY <2>1, <2>3, <2>5 DEF EvictNeeded
    <3>1. /\ lastEviction' = tick /\ evictedAt' = tick
          /\ target'.evict = n /\ target'.at = tick /\ target'.before = evictedAt
      BY <2>5, <3>0 DEF Answered, Stamped
    <3>2. tick - evictedAt >= EvictionGap
      BY <2>1, <2>5, <3>0 DEF Throttled
    <3> HIDE DEF n
    <3>3. EvictionsSpaced'
      BY <2>1, <3>0, <3>1, <3>2 DEF EvictionsSpaced
    <3> QED
      BY <2>1, <2>2, <3>1, <3>3 DEF ThrottleSound, Estimates
  <2> QED
    BY <1>3, <2>4, <2>5 DEF GetEvictionTarget
<1>4. CASE Tick
  BY <1>4 DEF Tick, ThrottleSound, Estimates, EvictionsSpaced
<1>5. CASE UNCHANGED queueVars
  BY <1>5 DEF queueVars, ThrottleSound, Estimates, EvictionsSpaced
<1> QED
  BY <1>1, <1>2, <1>3, <1>4, <1>5 DEF QueueNext

\* Two answers that evict are an interval apart, and an interval after the last one
\* nobody is put off below the floor, for any gaps, rates and estimates: below the
\* floor the blocks needed are never zero, so the throttle always applies, and only
\* an eviction starts the interval anew (get_eviction_target_blocks, 334-356).
THEOREM EvictionsAreSpaced == QueueSpec => []EvictionsSpaced
<1>1. QueueInit => ThrottleSound
  BY QueueAssumption
     DEF QueueInit, ThrottleSound, Estimates, EvictionsSpaced, Unasked
<1>2. ThrottleSound => EvictionsSpaced
  BY DEF ThrottleSound
<1> QED
  BY <1>1, <1>2, ThrottleStep, PTL DEF QueueSpec

-----------------------------------------------------------------------------
(* VRAMReadings: the total that is guessed is guessed on AMD hosts only.    *)

\* What NoGuessOnCuda rests on: a host is found once, and before that nothing was
\* read.
ReadByHost ==
    /\ host = "unknown" => source = "unknown" /\ readFrom = "unread"
                           /\ pressureOf = <<"unread", "unread">>
    /\ NoGuessOnCuda

\* "On NVIDIA ... NEVER amd_default": neither the label nor the bytes of a reading
\* of a CUDA host, whichever readers fail and in the middle of whichever call
\* (get_used_bytes, get_total_bytes, get_pressure, get_vram_source).
THEOREM CudaIsNeverGuessed == VRAMSpec => []NoGuessOnCuda
<1>1. ReadingsInit => ReadByHost
  BY DEF ReadingsInit, ReadByHost, NoGuessOnCuda
<1>2. ReadByHost /\ [VRAMNext]_<<readingVars, meterVars>> => ReadByHost'
  <2> SUFFICES ASSUME ReadByHost, ReadingsNext \/ UNCHANGED readingVars PROVE ReadByHost'
    BY DEF VRAMNext
  <2>1. ASSUME NEW h \in Hosts, Probe(h) PROVE ReadByHost'
    BY <2>1 DEF Probe, ReadByHost, NoGuessOnCuda
  <2>2. ASSUME NEW ok \in Answering, GetUsed(ok) \/ GetTotal(ok) PROVE ReadByHost'
    BY <2>2 DEF GetUsed, GetTotal, UsedFrom, TotalFrom, CudaReader, CudaLabel, Labelled,
                ReadByHost, NoGuessOnCuda
  <2>3. ASSUME NEW ok \in Answering, NEW okUsed \in Answering, GetPressure(ok, okUsed)
        PROVE  ReadByHost'
    BY <2>3 DEF GetPressure, UsedFrom, TotalFrom, CudaReader, CudaLabel, Labelled,
                ReadByHost, NoGuessOnCuda
  <2>4. CASE UNCHANGED readingVars
    BY <2>4 DEF readingVars, ReadByHost, NoGuessOnCuda
  <2> QED
    BY <2>1, <2>2, <2>3, <2>4 DEF ReadingsNext
<1>3. ReadByHost => NoGuessOnCuda
  BY DEF ReadByHost
<1> QED
  BY <1>1, <1>2, <1>3, PTL DEF VRAMSpec

-----------------------------------------------------------------------------
(* KVAwareRouter: every answer is a registered worker below its limit, if   *)
(* there is one.                                                            *)

\* What the answers rest on: the mesh holds workers, and every load is a number.
MeshOfWorkers ==
    /\ mesh \in Seq(Workers)
    /\ workload \in [Workers -> Nat]
    /\ home \in [Anchors -> Workers \cup {NoWorker}]

LEMMA LeastExists ==
    ASSUME NEW S \in SUBSET Nat, S # {}
    PROVE  \E x \in S : \A y \in S : x <= y
<1>1. PICK x \in S : \A y \in S : ~ (<<y, x>> \in OpToRel(<, Nat))
  BY NatLessThanWellFounded, WFMin
<1>2. ASSUME NEW y \in S, ~ (x <= y) PROVE FALSE
  <2>1. y < x /\ x \in Nat /\ y \in Nat
    BY <1>2
  <2>2. <<y, x>> \in OpToRel(<, Nat)
    BY <2>1 DEF OpToRel
  <2> QED BY <1>1, <2>2
<1> QED BY <1>2

LEMMA RegisteredAreWorkers ==
    ASSUME MeshOfWorkers
    PROVE  /\ Registered \subseteq Workers
           /\ mesh = << >> <=> Registered = {}
           /\ \A w \in Registered : Place(w) \in DOMAIN mesh /\ mesh[Place(w)] = w
<1>1. \A w \in Registered : \E i \in DOMAIN mesh : mesh[i] = w
  BY DEF Registered, ToSet
<1>2. mesh # << >> => Len(mesh) \in Nat /\ 1 \in DOMAIN mesh
  BY DEF MeshOfWorkers
<1>3. mesh # << >> => mesh[1] \in Registered
  BY <1>2 DEF Registered, ToSet
<1>4. Registered \subseteq Workers
  BY DEF MeshOfWorkers, Registered, ToSet
<1>5. mesh = << >> => Registered = {}
  BY DEF Registered, ToSet
<1>6. \A w \in Registered : Place(w) \in DOMAIN mesh /\ mesh[Place(w)] = w
  BY <1>1 DEF Place
<1> QED BY <1>3, <1>4, <1>5, <1>6

\* The first of some registered workers is one of them.
LEMMA FirstIsOne ==
    ASSUME MeshOfWorkers, NEW S \in SUBSET Registered, S # {}
    PROVE  First(S) \in S
<1> DEFINE P == {Place(w) : w \in S}
<1>1. \A w \in S : Place(w) \in Nat
  BY RegisteredAreWorkers DEF MeshOfWorkers
<1>2. P \in SUBSET Nat /\ P # {}
  BY <1>1
<1> HIDE DEF P
<1>3. PICK x \in P : \A y \in P : x <= y
  BY <1>2, LeastExists
<1>4. PICK w \in S : x = Place(w)
  BY DEF P
<1>5. \A v \in S : Place(w) <= Place(v)
  BY <1>3, <1>4 DEF P
<1>6. \E u \in S : \A v \in S : Place(u) <= Place(v)
  BY <1>5
<1> QED BY <1>6 DEF First

\* A mesh has a worker no more loaded than any other.
LEMMA SomeLeastLoaded ==
    ASSUME MeshOfWorkers, mesh # << >>
    PROVE  LeastLoaded # {}
<1> DEFINE P == {workload[w] : w \in Registered}
<1>1. P \in SUBSET Nat /\ P # {}
  BY RegisteredAreWorkers DEF MeshOfWorkers
<1> HIDE DEF P
<1>2. PICK x \in P : \A y \in P : x <= y
  BY <1>1, LeastExists
<1>3. PICK w \in Registered : x = workload[w]
  BY DEF P
<1>4. \A v \in Registered : workload[w] <= workload[v]
  BY <1>2, <1>3 DEF P
<1> QED BY <1>4 DEF LeastLoaded

LEMMA JoinedInMesh ==
    ASSUME MeshOfWorkers, NEW w \in Workers
    PROVE  Joined(w) \in Seq(Workers)
BY DEF MeshOfWorkers, Joined

\* One answer of select_worker: from a home, from kin or from the least loaded.
LEMMA SelectionIsLiving ==
    ASSUME MeshOfWorkers, NEW a \in Anchors, NEW g, SelectWorker(a, g)
    PROVE  /\ routed'.worker = NoWorker <=> mesh = << >>
           /\ mesh # << >> =>
                /\ routed'.worker \in Registered
                /\ workload[routed'.worker] < 95 \/ \A w \in Registered : workload[w] >= 95
           /\ home' \in [Anchors -> Workers \cup {NoWorker}]
<1>0. Registered \subseteq Workers /\ (mesh = << >> <=> Registered = {}) /\ NoWorker \notin Workers
  BY RegisteredAreWorkers, RouterAssumption
<1>1. CASE Local(a)
  <2>1. routed'.worker = home[a] /\ home' = home
    BY <1>1 DEF SelectWorker, RouteTo
  <2> QED BY <1>0, <1>1, <2>1 DEF Local, MeshOfWorkers
<1>2. CASE ~ Local(a) /\ Akin(g) # {}
  <2>1. First(Akin(g)) \in Akin(g)
    BY <1>2, FirstIsOne DEF Akin
  <2> DEFINE best == First(Akin(g))
  <2>a. mesh # << >>
    BY <1>0, <1>2 DEF Akin
  <2>b. RouteTo(a, g, best, 75) /\ Rehome(a, best, 8)
    BY <1>2, <2>a DEF SelectWorker
  <2>2. routed'.worker = best /\ home' = [home EXCEPT ![a] = best]
    BY <2>b DEF RouteTo, Rehome
  <2>3. First(Akin(g)) \in Registered /\ workload[First(Akin(g))] < 80
    BY <2>1 DEF Akin
  <2>4. workload[First(Akin(g))] < 95
    BY <1>0, <2>3 DEF MeshOfWorkers
  <2> QED BY <1>0, <2>2, <2>3, <2>4 DEF MeshOfWorkers
<1>3. CASE ~ Local(a) /\ Akin(g) = {} /\ mesh # << >>
  <2> DEFINE best == First(LeastLoaded)
  <2>1. best \in LeastLoaded
    BY <1>3, SomeLeastLoaded, FirstIsOne DEF LeastLoaded
  <2>2. routed'.worker = best /\ home' = [home EXCEPT ![a] = best]
    BY <1>3 DEF SelectWorker, RouteTo, Rehome
  <2>3. best \in Registered /\ \A v \in Registered : workload[best] <= workload[v]
    BY <2>1 DEF LeastLoaded
  <2> HIDE DEF best
  <2>4. workload[best] < 95 \/ \A v \in Registered : workload[v] >= 95
    BY <1>0, <2>3 DEF MeshOfWorkers
  <2> QED BY <1>0, <1>3, <2>2, <2>3, <2>4 DEF MeshOfWorkers
<1>4. CASE ~ Local(a) /\ mesh = << >>
  <2>1. routed'.worker = NoWorker /\ home' = home
    BY <1>0, <1>4 DEF SelectWorker, NoDecision, Akin
  <2> QED BY <1>4, <2>1 DEF MeshOfWorkers
<1> QED BY <1>1, <1>2, <1>3, <1>4

LEMMA MeshStep == MeshOfWorkers /\ [RouterNext]_routerVars => MeshOfWorkers'
<1> SUFFICES ASSUME MeshOfWorkers, [RouterNext]_routerVars PROVE MeshOfWorkers'
  OBVIOUS
<1>1. ASSUME NEW w \in Workers, RegisterWorker(w) PROVE MeshOfWorkers'
  BY <1>1, JoinedInMesh DEF RegisterWorker, MeshOfWorkers
<1>2. ASSUME NEW a \in Anchors, NEW g, SelectWorker(a, g) PROVE MeshOfWorkers'
  <2>1. UNCHANGED <<mesh, workload>>
    BY <1>2 DEF SelectWorker
  <2> QED BY <1>2, <2>1, SelectionIsLiving DEF MeshOfWorkers
<1>3. ASSUME NEW w \in Workers, NEW l \in Loads, NEW g, UpdateWorkerState(w, l, g)
      PROVE  MeshOfWorkers'
  <2>1. mesh' \in Seq(Workers) /\ home' = home
    BY <1>3, JoinedInMesh DEF UpdateWorkerState
  <2>2. (IF l <= 100 THEN l ELSE 100) \in Nat
    BY RouterAssumption
  <2>3. workload' \in [Workers -> Nat]
    BY <1>3, <2>2 DEF UpdateWorkerState, MeshOfWorkers
  <2> QED BY <2>1, <2>3 DEF MeshOfWorkers
<1>4. ASSUME NEW a \in Anchors, NEW w \in Workers, BroadcastNewBlocks(a, w) PROVE MeshOfWorkers'
  BY <1>4 DEF BroadcastNewBlocks, MeshOfWorkers
<1>5. CASE UNCHANGED routerVars
  BY <1>5 DEF routerVars, MeshOfWorkers
<1> QED
  BY <1>1, <1>2, <1>3, <1>4, <1>5 DEF RouterNext

\* A request is turned away by an empty mesh only, and every other answer is a
\* registered worker, below its limit if any is: whatever the mesh, the order
\* of registration, the loads and the groups.
THEOREM RequestsReachTheLiving == RouterSpec => RoutedToTheLiving
<1>1. RouterInit => MeshOfWorkers
  BY DEF RouterInit, MeshOfWorkers
<1>2. MeshOfWorkers /\ [RouterNext]_routerVars =>
        [routed' # routed =>
          /\ routed'.worker = NoWorker <=> mesh = << >>
          /\ mesh # << >> =>
               /\ routed'.worker \in Registered
               /\ workload[routed'.worker] < 95
                    \/ \A w \in Registered : workload[w] >= 95]_routerVars
  <2> SUFFICES ASSUME MeshOfWorkers, RouterNext, routed' # routed
               PROVE  /\ routed'.worker = NoWorker <=> mesh = << >>
                      /\ mesh # << >> =>
                           /\ routed'.worker \in Registered
                           /\ workload[routed'.worker] < 95
                                \/ \A w \in Registered : workload[w] >= 95
    BY DEF routerVars
  <2>1. PICK a \in Anchors, g \in Groups \cup {NoGroup} : SelectWorker(a, g)
    BY DEF RouterNext, RegisterWorker, UpdateWorkerState, BroadcastNewBlocks
  <2> QED BY <2>1, SelectionIsLiving
<1> QED
  BY <1>1, <1>2, MeshStep, PTL DEF RouterSpec, RoutedToTheLiving

\* Routing leaves an anchor at the worker that has its blocks until that worker
\* is at its limit or unknown, whatever the mesh, the loads and the reports.
THEOREM AnchorsStay == RouterSpec => AnchorsMoveUnderPressure
<1> DEFINE Stays ==
             \A a \in Anchors :
                /\ AnchorLocality /\ home[a] # NoWorker /\ home'[a] # home[a]
                /\ routed' # routed
                => home[a] \notin Registered \/ workload[home[a]] >= 95
<1>1. MeshOfWorkers /\ [RouterNext]_routerVars => Stays
  <2> SUFFICES ASSUME MeshOfWorkers, [RouterNext]_routerVars, NEW a \in Anchors,
                      AnchorLocality, home'[a] # home[a], routed' # routed,
                      home[a] \in Registered
               PROVE  workload[home[a]] >= 95
    OBVIOUS
  <2>1. PICK b \in Anchors, g \in Groups \cup {NoGroup} : SelectWorker(b, g)
    BY DEF RouterNext, routerVars, RegisterWorker, UpdateWorkerState, BroadcastNewBlocks
  <2>2. ~ Local(b) /\ \E w : home' = [home EXCEPT ![b] = w]
    BY <2>1 DEF SelectWorker, Rehome
  <2>3. a = b
    BY <2>2 DEF MeshOfWorkers
  <2>4. ~ (workload[home[a]] < 95)
    BY <2>2, <2>3 DEF Local
  <2>5. workload[home[a]] \in Nat
    BY RegisteredAreWorkers DEF MeshOfWorkers
  <2> QED BY <2>4, <2>5
<1>2. RouterInit => MeshOfWorkers
  BY DEF RouterInit, MeshOfWorkers
<1>3. MeshOfWorkers /\ [RouterNext]_routerVars => [Stays]_routerVars
  BY <1>1
<1> QED
  BY <1>2, <1>3, MeshStep, PTL DEF RouterSpec, AnchorsMoveUnderPressure

-----------------------------------------------------------------------------
(* RetrievalEngine: a search sees every vector held.                        *)

\* The copy a search made is what is held: every change of it drops the copy.
CopyIsCurrent ==
    /\ rebuilt.there => rebuilt.of = held
    /\ SearchSeesEveryVector

LEMMA PermutationsAreInjective ==
    ASSUME NEW S, NEW p \in SetToAllKPermutations(S)
    PROVE  IsInjective(p) /\ ToSet(p) \subseteq S
<1>1. PICK s \in SUBSET S : p \in SetToSeqs(s)
  BY DEF SetToAllKPermutations
<1>2. /\ p \in [1 .. Cardinality(s) -> s]
      /\ \A i, j \in 1 .. Cardinality(s) : i # j => p[i] # p[j]
  BY <1>1 DEF SetToSeqs
<1> QED BY <1>2 DEF IsInjective, ToSet

\* Every vector that was added is seen by the next search, whatever the storage,
\* the batches and the searches before it.
THEOREM SearchesSeeEveryVector == RetrievalSpec => []SearchSeesEveryVector
<1>1. RetrievalInit => CopyIsCurrent
  BY DEF RetrievalInit, CopyIsCurrent, SearchSeesEveryVector, Absent
<1>2. CopyIsCurrent /\ [RetrievalNext]_retrievalVars => CopyIsCurrent'
  <2> SUFFICES ASSUME CopyIsCurrent, [RetrievalNext]_retrievalVars PROVE CopyIsCurrent'
    OBVIOUS
  <2>1. ASSUME NEW k, Search(k) PROVE CopyIsCurrent'
    <3>1. Searched = held
      BY DEF Searched, CopyIsCurrent
    <3>2. PICK p \in SetToAllKPermutations(DOMAIN held) :
             Len(p) = Lower(k, Len(held)) /\ hits' = [k |-> k, positions |-> p]
      BY <2>1, <3>1 DEF Search
    <3>3. IsInjective(p) /\ ToSet(p) \subseteq DOMAIN held
      BY PermutationsAreInjective
    <3>4. held' = held /\ (rebuilt'.there => rebuilt'.of = held)
      BY <2>1, <3>1 DEF Search, CopyIsCurrent
    <3> QED BY <3>2, <3>3, <3>4 DEF CopyIsCurrent, SearchSeesEveryVector
  <2>2. ASSUME NEW batch, NEW given, Add(batch, given) \/ AddRefused(batch)
        PROVE  CopyIsCurrent'
    BY <2>2 DEF Add, AddRefused, Insert, CopyIsCurrent, SearchSeesEveryVector, Absent
  <2>3. ASSUME NEW m, NewStore(m) PROVE CopyIsCurrent'
    BY <2>3 DEF NewStore, CopyIsCurrent, SearchSeesEveryVector
  <2>4. CASE Save
    BY <2>4 DEF Save, CopyIsCurrent, SearchSeesEveryVector
  <2>5. CASE Load
    BY <2>5 DEF Load, CopyIsCurrent, SearchSeesEveryVector, Absent
  <2>6. CASE UNCHANGED retrievalVars
    BY <2>6 DEF retrievalVars, CopyIsCurrent, SearchSeesEveryVector
  <2> QED
    BY <2>1, <2>2, <2>3, <2>4, <2>5, <2>6 DEF RetrievalNext, AddVectors, IndexTexts
<1>3. CopyIsCurrent => SearchSeesEveryVector
  BY DEF CopyIsCurrent
<1> QED
  BY <1>1, <1>2, <1>3, PTL DEF RetrievalSpec

-----------------------------------------------------------------------------
(* EmbeddingEngine: until a load is cancelled, one text has one vector.     *)

Spaces == {"model", "hash", "xorshift"}
Stages == {"load", "wait", "embed"}
EncodeCalls == {Resting} \cup [at : Stages, text : Passages]

EmbedTyped ==
    /\ singleton \in [made : BOOLEAN, onnx : BOOLEAN]
    /\ loaded \in BOOLEAN /\ failed \in BOOLEAN /\ cancels \in Nat
    /\ threads \subseteq Encoders
    /\ encodes \in [Encoders -> EncodeCalls]
    /\ encoded \subseteq [text : Passages, space : Spaces]

\* What the cache holds is what some call returned.
CacheWasEncoded == lru \in Seq(encoded)

\* What may be returned now: by whom the vector is made is settled.
Settled(space) ==
    \/ singleton.onnx /\ space = "xorshift"
    \/ ~ singleton.onnx /\ loaded /\ space = "model"
    \/ ~ singleton.onnx /\ failed /\ space = "hash"

\* A thread runs for the one call that holds the lock, and only while the outcome
\* is open; no call has a vector before it is known, and then all have one space.
OneLoad ==
    /\ ~ singleton.made => singleton.onnx = FALSE /\ \A e \in Encoders : encodes[e].at = "idle"
    /\ singleton.onnx => \A e \in Encoders : encodes[e].at = "idle"
    /\ ~ (loaded /\ failed)
    /\ \A e \in Encoders : e \in lockHolder <=> encodes[e].at = "load"
    /\ \A e, f \in Encoders : encodes[e].at = "load" /\ encodes[f].at = "load" => e = f
    /\ \A e \in Encoders : encodes[e].at = "load" => (e \in threads <=> ~ loaded /\ ~ failed)
    /\ \A e \in threads : encodes[e].at = "load"
    /\ lockHolder \subseteq Encoders
    /\ \A e \in Encoders : encodes[e].at = "embed" => loaded
    /\ ~ singleton.made => encoded = {}
    /\ \A v \in encoded : Settled(v.space)

VectorsAgree ==
    /\ EmbedTyped /\ CacheWasEncoded
    /\ cancels = 0 => OneLoad

LEMMA InsertedKeeps ==
    ASSUME NEW T, lru \in Seq(T), NEW entry \in T
    PROVE  Inserted(entry) \in Seq(T)
<1> DEFINE kept == IF Len(lru) >= LRUMaxSize THEN Tail(lru) ELSE lru
           same == {i \in DOMAIN kept : kept[i].text = entry.text}
<1>1. kept \in Seq(T)
  <2>1. CASE Len(lru) >= LRUMaxSize
    <3>1. lru # << >>
      BY <2>1, EmbedAssumption
    <3> QED BY <2>1, <3>1
  <2> QED BY <2>1
<1> HIDE DEF kept
<1>2. Append(kept, entry) \in Seq(T)
  BY <1>1
<1>3. [i \in DOMAIN kept |-> IF i \in same THEN entry ELSE kept[i]] \in Seq(T)
  <2>1. DOMAIN kept = 1 .. Len(kept) /\ Len(kept) \in Nat /\ \A i \in DOMAIN kept : kept[i] \in T
    BY <1>1
  <2> HIDE DEF same
  <2> QED BY <2>1, IsASeq
<1> QED BY <1>2, <1>3 DEF Inserted, kept

LEMMA SeqGrows ==
    ASSUME NEW S, NEW T, S \subseteq T, NEW s \in Seq(S)
    PROVE  s \in Seq(T)
<1>1. DOMAIN s = 1 .. Len(s) /\ Len(s) \in Nat /\ \A i \in 1 .. Len(s) : s[i] \in T
  OBVIOUS
<1>2. s = [i \in 1 .. Len(s) |-> s[i]]
  BY <1>1
<1> QED BY <1>1, <1>2, IsASeq

\* What a return does to the cache, and to the spaces if its own is settled.
LEMMA ReturnKeeps ==
    ASSUME VectorsAgree, NEW e \in Encoders, NEW text \in Passages, NEW space \in Spaces,
           Return(e, text, space)
    PROVE  /\ encodes' = [encodes EXCEPT ![e] = Resting]
           /\ encodes' \in [Encoders -> EncodeCalls]
           /\ encoded' = encoded \cup {[text |-> text, space |-> space]}
           /\ encoded' \subseteq [text : Passages, space : Spaces]
           /\ lru' \in Seq(encoded')
<1> DEFINE v == [text |-> text, space |-> space]
<1>1. /\ encodes' = [encodes EXCEPT ![e] = Resting]
      /\ encoded' = encoded \cup {v} /\ lru' = Inserted(v)
  BY DEF Return
<1>2. encodes' \in [Encoders -> EncodeCalls]
  BY <1>1 DEF VectorsAgree, EmbedTyped, EncodeCalls
<1>3. encoded' \subseteq [text : Passages, space : Spaces]
  BY <1>1 DEF VectorsAgree, EmbedTyped
<1>4. lru' \in Seq(encoded')
  <2>1. lru \in Seq(encoded')
    BY <1>1, SeqGrows DEF VectorsAgree, CacheWasEncoded
  <2>2. v \in encoded'
    BY <1>1
  <2> HIDE DEF v
  <2> QED BY <1>1, <2>1, <2>2, InsertedKeeps
<1> QED BY <1>1, <1>2, <1>3, <1>4

\* A call that has a settled vector, or moves on to the model, gives up the lock.
LEMMA EmbeddingKeepsOneLoad ==
    ASSUME VectorsAgree, OneLoad, singleton.made,
           NEW e \in Encoders, NEW text \in Passages, NEW space \in Spaces,
           e \notin threads, UNCHANGED <<singleton, loaded, failed, threads>>,
           lockHolder' = lockHolder \ {e},
           \/ Return(e, text, space) /\ Settled(space)
           \/ MoveTo(e, "embed", text) /\ loaded /\ ~ singleton.onnx
    PROVE  OneLoad'
<1>0. /\ singleton' = singleton /\ loaded' = loaded /\ failed' = failed /\ threads' = threads
      /\ encodes \in [Encoders -> EncodeCalls]
      /\ threads \subseteq Encoders
  BY DEF VectorsAgree, EmbedTyped
<1>1. CASE Return(e, text, space) /\ Settled(space)
  <2>1. encodes' = [encodes EXCEPT ![e] = Resting]
    BY <1>1 DEF Return
  <2>2. \A d \in Encoders : encodes'[d].at = IF d = e THEN "idle" ELSE encodes[d].at
    BY <1>0, <2>1 DEF Resting
  <2>3. encoded' = encoded \cup {[text |-> text, space |-> space]}
    BY <1>1 DEF Return
  <2>4. \A v \in encoded' : Settled(v.space)
    BY <1>1, <2>3 DEF OneLoad
  <2>5. \A v \in encoded' : Settled(v.space)'
    BY <1>0, <2>4 DEF Settled
  <2> QED BY <1>0, <2>2, <2>5 DEF OneLoad
<1>2. CASE MoveTo(e, "embed", text) /\ loaded /\ ~ singleton.onnx
  <2>1. encodes' = [encodes EXCEPT ![e] = [at |-> "embed", text |-> text]] /\ encoded' = encoded
    BY <1>2 DEF MoveTo
  <2>2. \A d \in Encoders : encodes'[d].at = IF d = e THEN "embed" ELSE encodes[d].at
    BY <1>0, <2>1
  <2> QED BY <1>0, <1>2, <2>1, <2>2 DEF OneLoad, Settled
<1> QED BY <1>1, <1>2

\* The lock is taken for a load whose outcome is open, or waited for.
LEMMA AwaitKeepsOneLoad ==
    ASSUME VectorsAgree, OneLoad, singleton.made, ~ singleton.onnx,
           ~ loaded, ~ failed,
           NEW e \in Encoders, NEW text \in Passages, encodes[e].at \in {"idle", "wait"},
           UNCHANGED <<singleton, loaded, failed>>, AwaitLoad(e, text)
    PROVE  OneLoad'
<1>1. CASE lockHolder = {}
  <2>1. /\ lockHolder' = {e} /\ threads' = threads \cup {e} /\ encoded' = encoded
        /\ \A d \in Encoders :
              encodes'[d] = IF d = e THEN [at |-> "load", text |-> text] ELSE encodes[d]
    BY <1>1 DEF AwaitLoad, MoveTo, VectorsAgree, EmbedTyped
  <2> QED BY <1>1, <2>1 DEF OneLoad, Settled, VectorsAgree, EmbedTyped
<1>2. CASE lockHolder # {}
  <2>1. /\ UNCHANGED <<lockHolder, threads>> /\ encoded' = encoded
        /\ \A d \in Encoders :
              encodes'[d] = IF d = e THEN [at |-> "wait", text |-> text] ELSE encodes[d]
    BY <1>2 DEF AwaitLoad, MoveTo, VectorsAgree, EmbedTyped
  <2> QED BY <1>2, <2>1 DEF OneLoad, Settled, VectorsAgree, EmbedTyped
<1> QED BY <1>1, <1>2

\* The state keeps its types when a call moves on, or returns.
LEMMA MovesAreTyped ==
    ASSUME VectorsAgree, NEW e \in Encoders, NEW text \in Passages, NEW space \in Spaces,
           \/ Return(e, text, space)
           \/ \E at \in Stages : MoveTo(e, at, text)
    PROVE  /\ encodes' \in [Encoders -> EncodeCalls]
           /\ encoded' \subseteq [text : Passages, space : Spaces]
           /\ CacheWasEncoded'
<1>1. CASE Return(e, text, space)
  BY <1>1, ReturnKeeps DEF CacheWasEncoded
<1>2. ASSUME NEW at \in Stages, MoveTo(e, at, text)
      PROVE  /\ encodes' \in [Encoders -> EncodeCalls]
             /\ UNCHANGED <<encoded, lru>>
  BY <1>2 DEF MoveTo, VectorsAgree, EmbedTyped, EncodeCalls, Stages, Resting
<1> QED BY <1>1, <1>2 DEF CacheWasEncoded, VectorsAgree, EmbedTyped

LEMMA NewCallAgrees ==
    ASSUME VectorsAgree, NEW e \in Encoders, NEW text \in Passages, EncodeNew(e, text)
    PROVE  VectorsAgree'
<1>0. /\ singleton.made /\ encodes[e].at = "idle"
      /\ UNCHANGED <<singleton, loaded, failed, cancels>>
  BY DEF EncodeNew
<1>1. CASE singleton.onnx
  <2>1. Return(e, text, "xorshift") /\ UNCHANGED <<lockHolder, threads>>
    BY <1>1 DEF EncodeNew
  <2>2. EmbedTyped' /\ CacheWasEncoded'
    BY <1>0, <2>1, MovesAreTyped DEF Spaces, VectorsAgree, EmbedTyped
  <2>3. ASSUME OneLoad PROVE OneLoad'
    <3>1. e \notin threads /\ lockHolder' = lockHolder \ {e}
      BY <1>0, <2>1, <2>3 DEF OneLoad
    <3> QED BY <1>0, <1>1, <2>1, <2>3, <3>1, EmbeddingKeepsOneLoad DEF Spaces, Settled
  <2> QED BY <1>0, <2>2, <2>3 DEF VectorsAgree
<1>2. CASE ~ singleton.onnx /\ (loaded \/ failed)
  <2>1. Embed(e, text) /\ UNCHANGED <<lockHolder, threads>>
    BY <1>2 DEF EncodeNew
  <2>2. EmbedTyped' /\ CacheWasEncoded'
    BY <1>0, <2>1, MovesAreTyped DEF Embed, Spaces, Stages, VectorsAgree, EmbedTyped
  <2>3. ASSUME OneLoad PROVE OneLoad'
    <3>1. e \notin threads /\ lockHolder' = lockHolder \ {e}
      BY <1>0, <2>1, <2>3 DEF OneLoad
    <3> QED
      BY <1>0, <1>2, <2>1, <2>3, <3>1, EmbeddingKeepsOneLoad DEF Embed, Spaces, Settled
  <2> QED BY <1>0, <2>2, <2>3 DEF VectorsAgree
<1>3. CASE ~ singleton.onnx /\ ~ loaded /\ ~ failed
  <2>1. AwaitLoad(e, text)
    BY <1>3 DEF EncodeNew
  <2>2. threads' \subseteq Encoders
    BY <2>1 DEF AwaitLoad, VectorsAgree, EmbedTyped
  <2>3. EmbedTyped' /\ CacheWasEncoded'
    BY <1>0, <2>1, <2>2, MovesAreTyped DEF AwaitLoad, Spaces, Stages, VectorsAgree, EmbedTyped
  <2>4. OneLoad => OneLoad'
    BY <1>0, <1>3, <2>1, AwaitKeepsOneLoad
  <2> QED BY <1>0, <2>3, <2>4 DEF VectorsAgree
<1> QED BY <1>1, <1>2, <1>3

LEMMA CachedCallAgrees ==
    ASSUME VectorsAgree, NEW e, NEW text, EncodeCached(e, text)
    PROVE  VectorsAgree'
<1>1. PICK i \in DOMAIN lru :
        /\ lru' = SubSeq(lru, 1, i - 1) \o SubSeq(lru, i + 1, Len(lru)) \o <<lru[i]>>
        /\ encoded' = encoded \cup {lru[i]}
  BY DEF EncodeCached, CachedAt
<1>2. /\ UNCHANGED <<singleton, loaded, failed, threads, lockHolder, encodes, cancels>>
      /\ lru \in Seq(encoded)
  BY DEF EncodeCached, VectorsAgree, CacheWasEncoded
<1>3. lru[i] \in encoded /\ encoded' = encoded
  BY <1>1, <1>2
<1>4. lru' \in Seq(encoded)
  <2>1. i \in 1 .. Len(lru) /\ Len(lru) \in Nat
    BY <1>2
  <2>2. SubSeq(lru, 1, i - 1) \in Seq(encoded) /\ SubSeq(lru, i + 1, Len(lru)) \in Seq(encoded)
    BY <1>2, <2>1
  <2> QED BY <1>1, <1>3, <2>2
<1> QED
  BY <1>2, <1>3, <1>4 DEF VectorsAgree, EmbedTyped, CacheWasEncoded, OneLoad, Settled

\* The end of the wait for the load, one's own or another's.
LEMMA LoadedCallAgrees ==
    ASSUME VectorsAgree, NEW e \in Encoders, LoadAnswered(e) \/ LockGranted(e)
    PROVE  VectorsAgree'
<1> DEFINE text == encodes[e].text
<1>0. /\ UNCHANGED <<singleton, loaded, failed, cancels>>
      /\ encodes[e].at \in {"load", "wait"}
      /\ \/ /\ Embed(e, text) /\ threads' = threads
            /\ LoadAnswered(e) \/ (LockGranted(e) /\ (loaded \/ failed))
         \/ ~ (loaded \/ failed) /\ encodes[e].at = "wait" /\ AwaitLoad(e, text)
  BY DEF LoadAnswered, LockGranted
<1>1. text \in Passages
  BY <1>0 DEF VectorsAgree, EmbedTyped, EncodeCalls, Resting
<1> HIDE DEF text
<1>2. EmbedTyped' /\ CacheWasEncoded'
  <2>1. threads' \subseteq Encoders
    BY <1>0 DEF AwaitLoad, VectorsAgree, EmbedTyped
  <2> QED
    BY <1>0, <1>1, <2>1, MovesAreTyped
       DEF AwaitLoad, Embed, Spaces, Stages, VectorsAgree, EmbedTyped
<1>3. ASSUME OneLoad PROVE OneLoad'
  <2>1. singleton.made /\ ~ singleton.onnx
    BY <1>0, <1>3 DEF OneLoad
  <2>2. CASE ~ (loaded \/ failed) /\ encodes[e].at = "wait" /\ AwaitLoad(e, text)
    BY <1>0, <1>1, <1>3, <2>1, <2>2, AwaitKeepsOneLoad
  <2>3. CASE /\ Embed(e, text) /\ threads' = threads
             /\ LoadAnswered(e) \/ (LockGranted(e) /\ (loaded \/ failed))
    <3>1. (loaded \/ failed) /\ e \notin threads /\ lockHolder' = lockHolder \ {e}
      BY <1>3, <2>3 DEF LoadAnswered, LockGranted, OneLoad
    <3> QED
      BY <1>0, <1>1, <1>3, <2>1, <2>3, <3>1, EmbeddingKeepsOneLoad DEF Embed, Spaces, Settled
  <2> QED BY <1>0, <2>2, <2>3
<1> QED BY <1>0, <1>2, <1>3 DEF VectorsAgree

LEMMA EmbedStep == VectorsAgree /\ [EmbedNext]_embedVars => VectorsAgree'
<1> SUFFICES ASSUME VectorsAgree, [EmbedNext]_embedVars PROVE VectorsAgree'
  OBVIOUS
<1>1. ASSUME NEW onnx \in BOOLEAN, GetInstance(onnx) PROVE VectorsAgree'
  BY <1>1 DEF GetInstance, VectorsAgree, EmbedTyped, CacheWasEncoded, OneLoad, Settled
<1>2. ASSUME NEW e \in Encoders, NEW succeeds \in BOOLEAN, ThreadEnds(e, succeeds)
      PROVE  VectorsAgree'
  <2>1. /\ UNCHANGED <<singleton, lockHolder, encodes, lru, encoded, cancels>>
        /\ e \in threads /\ threads' = threads \ {e}
        /\ \/ loaded' = TRUE /\ failed' = failed
           \/ loaded' = loaded /\ failed' = TRUE
    BY <1>2 DEF ThreadEnds
  <2>2. EmbedTyped' /\ CacheWasEncoded'
    BY <2>1 DEF VectorsAgree, EmbedTyped, CacheWasEncoded
  <2>3. ASSUME OneLoad PROVE OneLoad'
    <3>1. encodes[e].at = "load" /\ ~ loaded /\ ~ failed /\ e \in Encoders
      BY <2>1, <2>3 DEF OneLoad
    <3>2. encoded = {}
      BY <2>3, <3>1 DEF OneLoad, Settled
    <3> QED BY <2>1, <2>3, <3>1, <3>2 DEF OneLoad
  <2> QED BY <2>1, <2>2, <2>3 DEF VectorsAgree
<1>3. ASSUME NEW e \in Encoders, ModelAnswers(e) PROVE VectorsAgree'
  <2> DEFINE text == encodes[e].text
  <2>1. /\ encodes[e].at = "embed" /\ Return(e, text, "model")
        /\ UNCHANGED <<singleton, loaded, failed, threads, lockHolder, cancels>>
    BY <1>3 DEF ModelAnswers
  <2>2. text \in Passages
    BY <2>1 DEF VectorsAgree, EmbedTyped, EncodeCalls, Resting
  <2> HIDE DEF text
  <2>3. EmbedTyped' /\ CacheWasEncoded'
    BY <2>1, <2>2, MovesAreTyped DEF Spaces, VectorsAgree, EmbedTyped
  <2>4. ASSUME OneLoad PROVE OneLoad'
    <3>1. /\ singleton.made /\ ~ singleton.onnx /\ loaded
          /\ e \notin threads /\ lockHolder' = lockHolder \ {e}
      BY <2>1, <2>4 DEF OneLoad
    <3> QED BY <2>1, <2>2, <2>4, <3>1, EmbeddingKeepsOneLoad DEF Spaces, Settled
  <2> QED BY <2>1, <2>3, <2>4 DEF VectorsAgree
<1>4. ASSUME NEW e \in Encoders, ModelRaises(e) PROVE VectorsAgree'
  <2>1. /\ UNCHANGED <<singleton, loaded, failed, threads, lockHolder, lru, encoded, cancels>>
        /\ encodes' = [encodes EXCEPT ![e] = Resting] /\ encodes[e].at = "embed"
    BY <1>4 DEF ModelRaises
  <2>2. EmbedTyped' /\ CacheWasEncoded'
    BY <2>1 DEF VectorsAgree, EmbedTyped, CacheWasEncoded, EncodeCalls
  <2>3. \A d \in Encoders : encodes'[d].at = IF d = e THEN "idle" ELSE encodes[d].at
    BY <2>1 DEF VectorsAgree, EmbedTyped, Resting
  <2>4. OneLoad => OneLoad'
    BY <2>1, <2>3 DEF OneLoad, Settled, VectorsAgree, EmbedTyped
  <2> QED BY <2>1, <2>2, <2>4 DEF VectorsAgree
<1>5. ASSUME NEW e \in Encoders, CancelLoad(e) PROVE VectorsAgree'
  <2>1. EmbedTyped' /\ CacheWasEncoded'
    BY <1>5 DEF CancelLoad, VectorsAgree, EmbedTyped, CacheWasEncoded, EncodeCalls
  <2>2. cancels' # 0
    BY <1>5 DEF CancelLoad, VectorsAgree, EmbedTyped
  <2> QED BY <2>1, <2>2 DEF VectorsAgree
<1>6. CASE ClearCache
  BY <1>6 DEF ClearCache, VectorsAgree, EmbedTyped, CacheWasEncoded, OneLoad, Settled
<1>7. CASE UNCHANGED embedVars
  BY <1>7 DEF embedVars, VectorsAgree, EmbedTyped, CacheWasEncoded, OneLoad, Settled
<1> QED
  BY <1>1, <1>2, <1>3, <1>4, <1>5, <1>6, <1>7, CachedCallAgrees, NewCallAgrees, LoadedCallAgrees
     DEF EmbedNext

\* Until a loading call has been cancelled, calls that encode the same text, in
\* any order and over any evictions, have vectors of the same space: for any
\* number of callers, texts and places of the cache.
THEOREM OneTextOneVector == EmbedSpec => []SameTextSameVector
<1>1. EmbedInit => VectorsAgree
  <2> SUFFICES ASSUME EmbedInit PROVE VectorsAgree
    OBVIOUS
  <2>1. EmbedTyped
    BY DEF EmbedInit, EmbedTyped, EncodeCalls
  <2>2. CacheWasEncoded
    BY DEF EmbedInit, CacheWasEncoded
  <2>3. \A e \in Encoders : encodes[e].at = "idle"
    BY DEF EmbedInit, Resting
  <2>4. OneLoad
    BY <2>3 DEF EmbedInit, OneLoad
  <2> QED BY <2>1, <2>2, <2>4 DEF VectorsAgree
<1>2. VectorsAgree => SameTextSameVector
  BY DEF VectorsAgree, OneLoad, Settled, SameTextSameVector
<1> QED
  BY <1>1, <1>2, EmbedStep, PTL DEF EmbedSpec

-----------------------------------------------------------------------------
(* AnchorPool: the agents' sets name live anchors only, and every anchor is *)
(* in one of them.  Neither depends on which anchors are pruned.            *)

\* IndexIsLive of dictionaries that need not be the current ones
Live(dict, index) ==
    \A a \in DOMAIN index : \A h \in index[a] : h \in DOMAIN dict /\ a \in dict[h].agents

\* Pruning keeps what it is given live.
LEMMA PruningKeepsLive ==
    ASSUME NEW seq, NEW dict, NEW index, Live(dict, index), PruneInto(seq, dict, index)
    PROVE  IndexIsLive'
<1> DEFINE V == Pruned(seq, dict)
<1>1. /\ anchors' = [h \in DOMAIN dict \ V |-> dict[h]]
      /\ agentAnchors' = [a \in DOMAIN index |-> index[a] \ {h \in V : a \in dict[h].agents}]
  BY DEF PruneInto, Forgotten
<1> HIDE DEF V
<1> SUFFICES ASSUME NEW a \in DOMAIN agentAnchors', NEW h \in agentAnchors'[a]
             PROVE  h \in DOMAIN anchors' /\ a \in anchors'[h].agents
  BY DEF IndexIsLive
<1>2. a \in DOMAIN index /\ h \in index[a] /\ ~ (h \in V /\ a \in dict[h].agents)
  BY <1>1
<1>3. h \in DOMAIN dict /\ a \in dict[h].agents
  BY <1>2 DEF Live
<1> QED
  BY <1>1, <1>2, <1>3

\* What the agents' sets name is in the pool with an offset of that agent, under
\* any updates and any pruning (anchor_pool.py, 107-125 and 266-287).
THEOREM IndexStaysLive == PoolSpec => []IndexIsLive
<1>1. PoolInit => IndexIsLive
  BY DEF PoolInit, IndexIsLive, NoAnchors
<1>2. ASSUME IndexIsLive, [PoolNext]_poolVars PROVE IndexIsLive'
  <2>1. ASSUME NEW h \in PoolHashes, NEW a \in PoolAgents, UpdateKnown(h, a) PROVE IndexIsLive'
    <3> DEFINE dict == [anchors EXCEPT ![h] =
                          [accesses |-> @.accesses + 1, agents |-> @.agents \cup {a}]]
    <3>1. PruneInto(order, dict, agentAnchors) /\ h \in DOMAIN anchors
      BY <2>1 DEF UpdateKnown
    <3>2. /\ DOMAIN dict = DOMAIN anchors
          /\ \A k \in DOMAIN anchors : anchors[k].agents \subseteq dict[k].agents
      BY <3>1
    <3> HIDE DEF dict
    <3>3. Live(dict, agentAnchors)
      BY <1>2, <3>2 DEF Live, IndexIsLive
    <3> QED
      BY <3>1, <3>3, PruningKeepsLive
  <2>2. ASSUME NEW h \in PoolHashes, NEW a \in PoolAgents, UpdateNew(h, a) PROVE IndexIsLive'
    <3> DEFINE dict == [k \in DOMAIN anchors \cup {h} |->
                          IF k = h THEN NewAnchor(a) ELSE anchors[k]]
               index == Indexed(a, h)
    <3>1. PruneInto(Append(order, h), dict, index) /\ h \notin DOMAIN anchors
      BY <2>2 DEF UpdateNew
    <3>2. /\ DOMAIN dict = DOMAIN anchors \cup {h}
          /\ dict[h].agents = {a}
          /\ \A k \in DOMAIN anchors : dict[k] = anchors[k]
      BY <3>1 DEF NewAnchor
    <3>3. \A b \in DOMAIN index : \A k \in index[b] :
            (b = a /\ k = h) \/ (b \in DOMAIN agentAnchors /\ k \in agentAnchors[b])
      BY DEF Indexed
    <3> HIDE DEF dict, index
    <3>4. Live(dict, index)
      BY <1>2, <3>2, <3>3 DEF Live, IndexIsLive
    <3> QED
      BY <3>1, <3>4, PruningKeepsLive
  <2>3. CASE UNCHANGED poolVars
    BY <1>2, <2>3 DEF poolVars, IndexIsLive
  <2> QED
    BY <1>2, <2>1, <2>2, <2>3 DEF PoolNext
<1> QED
  BY <1>1, <1>2, PTL DEF PoolSpec

-----------------------------------------------------------------------------
\* CreatedByOne of dictionaries that need not be the current ones
Owned(dict, index) ==
    \A h \in DOMAIN dict :
        \E a \in dict[h].agents \cap DOMAIN index :
            \A b \in DOMAIN index : h \in index[b] <=> b = a

\* Pruning leaves what stays in the pool to its one owner.
LEMMA PruningKeepsOwned ==
    ASSUME NEW seq, NEW dict, NEW index, Owned(dict, index), PruneInto(seq, dict, index)
    PROVE  CreatedByOne'
<1> DEFINE V == Pruned(seq, dict)
<1>1. /\ anchors' = [h \in DOMAIN dict \ V |-> dict[h]]
      /\ agentAnchors' = [a \in DOMAIN index |-> index[a] \ {h \in V : a \in dict[h].agents}]
  BY DEF PruneInto, Forgotten
<1> HIDE DEF V
<1> SUFFICES ASSUME NEW h \in DOMAIN anchors'
             PROVE  \E a \in anchors'[h].agents \cap DOMAIN agentAnchors' :
                       \A b \in DOMAIN agentAnchors' : h \in agentAnchors'[b] <=> b = a
  BY DEF CreatedByOne
<1>2. h \in DOMAIN dict /\ h \notin V /\ anchors'[h] = dict[h]
  BY <1>1
<1>3. /\ DOMAIN agentAnchors' = DOMAIN index
      /\ \A b \in DOMAIN index : h \in agentAnchors'[b] <=> h \in index[b]
  BY <1>1, <1>2
<1>4. PICK a \in dict[h].agents \cap DOMAIN index :
         \A b \in DOMAIN index : h \in index[b] <=> b = a
  BY <1>2 DEF Owned
<1> QED
  BY <1>2, <1>3, <1>4

\* Every anchor in the pool is in the set of one agent that has an offset there,
\* under any updates and any pruning (anchor_pool.py, 101-125 and 266-287).
THEOREM AnchorsHaveOneCreator == PoolSpec => []CreatedByOne
<1>1. PoolInit => CreatedByOne
  BY DEF PoolInit, CreatedByOne, NoAnchors
<1>2. ASSUME IndexIsLive, CreatedByOne, [PoolNext]_poolVars PROVE CreatedByOne'
  <2>1. ASSUME NEW h \in PoolHashes, NEW a \in PoolAgents, UpdateKnown(h, a) PROVE CreatedByOne'
    <3> DEFINE dict == [anchors EXCEPT ![h] =
                          [accesses |-> @.accesses + 1, agents |-> @.agents \cup {a}]]
    <3>1. PruneInto(order, dict, agentAnchors) /\ h \in DOMAIN anchors
      BY <2>1 DEF UpdateKnown
    <3>2. /\ DOMAIN dict = DOMAIN anchors
          /\ \A k \in DOMAIN anchors : anchors[k].agents \subseteq dict[k].agents
      BY <3>1
    <3> HIDE DEF dict
    <3>3. Owned(dict, agentAnchors)
      BY <1>2, <3>2 DEF Owned, CreatedByOne
    <3> QED
      BY <3>1, <3>3, PruningKeepsOwned
  <2>2. ASSUME NEW h \in PoolHashes, NEW a \in PoolAgents, UpdateNew(h, a) PROVE CreatedByOne'
    <3> DEFINE dict == [k \in DOMAIN anchors \cup {h} |->
                          IF k = h THEN NewAnchor(a) ELSE anchors[k]]
               index == Indexed(a, h)
    <3>1. PruneInto(Append(order, h), dict, index) /\ h \notin DOMAIN anchors
      BY <2>2 DEF UpdateNew
    <3>2. /\ DOMAIN dict = DOMAIN anchors \cup {h}
          /\ dict[h].agents = {a}
          /\ \A k \in DOMAIN anchors : dict[k] = anchors[k]
      BY <3>1 DEF NewAnchor
    <3>3. /\ DOMAIN index = DOMAIN agentAnchors \cup {a}
          /\ \A b \in DOMAIN index : \A k :
                k \in index[b] <=> \/ b \in DOMAIN agentAnchors /\ k \in agentAnchors[b]
                                   \/ b = a /\ k = h
      BY DEF Indexed
    <3> HIDE DEF dict, index
    <3>4. \A b \in DOMAIN agentAnchors : h \notin agentAnchors[b]
      BY <1>2, <3>1 DEF IndexIsLive
    <3>5. ASSUME NEW k \in DOMAIN dict
          PROVE  \E c \in dict[k].agents \cap DOMAIN index :
                    \A b \in DOMAIN index : k \in index[b] <=> b = c
      <4>1. CASE k = h
        BY <3>2, <3>3, <3>4, <4>1
      <4>2. CASE k # h
        <5>1. PICK c \in anchors[k].agents \cap DOMAIN agentAnchors :
                 \A b \in DOMAIN agentAnchors : k \in agentAnchors[b] <=> b = c
          BY <1>2, <3>2, <4>2 DEF CreatedByOne
        <5> QED
          BY <3>2, <3>3, <4>2, <5>1
      <4> QED
        BY <4>1, <4>2
    <3>6. Owned(dict, index)
      BY <3>5 DEF Owned
    <3> QED
      BY <3>1, <3>6, PruningKeepsOwned
  <2>3. CASE UNCHANGED poolVars
    BY <1>2, <2>3 DEF poolVars, CreatedByOne
  <2> QED
    BY <1>2, <2>1, <2>2, <2>3 DEF PoolNext
<1> QED
  BY <1>1, <1>2, IndexStaysLive, PTL DEF PoolSpec

-----------------------------------------------------------------------------
(* VisualKVCache: the size of the cache, the floor, and the stores that     *)
(* return.                                                                  *)

LEMMA RemoveAtSequence ==
    ASSUME NEW S, NEW s \in Seq(S), NEW i \in 1..Len(s)
    PROVE  /\ RemoveAt(s, i) \in Seq(S)
           /\ Len(RemoveAt(s, i)) = Len(s) - 1
           /\ \A k \in 1..(Len(s) - 1) :
                RemoveAt(s, i)[k] = IF k < i THEN s[k] ELSE s[k + 1]
<1> DEFINE n == Len(s)
           j == i - 1
           l == i + 1
           a == SubSeq(s, 1, j)
           b == SubSeq(s, l, n)
<1>1. /\ n \in Nat /\ i \in 1..n /\ j \in Int /\ l \in Int
      /\ \A k \in 1..n : s[k] \in S
  OBVIOUS
<1>0. j = i - 1 /\ l = i + 1
  OBVIOUS
<1>4. RemoveAt(s, i) = a \o b
  BY DEF RemoveAt
<1> HIDE DEF n, j, l
<1>2. /\ a \in Seq(S)
      /\ Len(a) = IF 1 <= j THEN j - 1 + 1 ELSE 0
      /\ \A k \in 1..(j - 1 + 1) : a[k] = s[1 + k - 1]
  <2>1. 1 \in Int /\ \A k \in 1..j : s[k] \in S
    BY <1>0, <1>1
  <2> QED
    BY <1>1, <2>1, SubSeqProperties
<1>3. /\ b \in Seq(S)
      /\ Len(b) = IF l <= n THEN n - l + 1 ELSE 0
      /\ \A k \in 1..(n - l + 1) : b[k] = s[l + k - 1]
  <2>1. n \in Int /\ \A k \in l..n : s[k] \in S
    BY <1>0, <1>1
  <2> QED
    BY <1>1, <2>1, SubSeqProperties
<1> HIDE DEF a, b
<1>5. Len(a) = i - 1 /\ \A k \in 1..(i - 1) : a[k] = s[k]
  <2>1. Len(a) = i - 1
    BY <1>0, <1>1, <1>2
  <2>2. ASSUME NEW k \in 1..(i - 1) PROVE a[k] = s[k]
    <3>1. k \in 1..(j - 1 + 1) /\ 1 + k - 1 = k
      BY <1>0, <1>1
    <3> QED
      BY <1>2, <3>1
  <2> QED
    BY <2>1, <2>2
<1>6. Len(b) = n - i /\ \A k \in 1..(n - i) : b[k] = s[k + i]
  <2>1. Len(b) = n - i
    BY <1>0, <1>1, <1>3
  <2>2. ASSUME NEW k \in 1..(n - i) PROVE b[k] = s[k + i]
    <3>1. k \in 1..(n - l + 1) /\ l + k - 1 = k + i
      BY <1>0, <1>1
    <3> QED
      BY <1>3, <3>1
  <2> QED
    BY <2>1, <2>2
<1>7. /\ a \o b \in Seq(S)
      /\ Len(a \o b) = Len(a) + Len(b)
      /\ \A k \in 1..(Len(a) + Len(b)) :
            (a \o b)[k] = IF k <= Len(a) THEN a[k] ELSE b[k - Len(a)]
  BY <1>2, <1>3, ConcatProperties
<1> DEFINE c == a \o b
<1> HIDE DEF c
<1>8. Len(c) = n - 1
  BY <1>1, <1>5, <1>6, <1>7 DEF c
<1>9. ASSUME NEW k \in 1..(n - 1) PROVE c[k] = IF k < i THEN s[k] ELSE s[k + 1]
  <2>1. c[k] = IF k <= i - 1 THEN a[k] ELSE b[k - (i - 1)]
    <3>1. k \in 1..(Len(a) + Len(b))
      BY <1>1, <1>5, <1>6
    <3> QED
      BY <1>5, <1>7, <3>1, Zenon DEF c
  <2>2. CASE k < i
    BY <1>1, <1>5, <2>1, <2>2
  <2>3. CASE ~ (k < i)
    <3>1. k - (i - 1) \in 1..(n - i) /\ (k - (i - 1)) + i = k + 1 /\ ~ (k <= i - 1)
      BY <1>1, <2>3
    <3> QED
      BY <1>6, <2>1, <2>3, <3>1
  <2> QED
    BY <2>2, <2>3
<1> QED
  BY <1>4, <1>7, <1>8, <1>9 DEF n, c

VisualBlocks == [hash : Images, bytes : Sizes, reads : Nat]

\* A sequence of blocks of which no two hold the same image
OneBlockPerImage(s) ==
    /\ s \in Seq(VisualBlocks)
    /\ \A i, j \in DOMAIN s : s[i].hash = s[j].hash => i = j

VisualSound ==
    /\ OneBlockPerImage(visual) /\ Len(visual) <= MaxEntries
    /\ floor \in Nat
    /\ lastStore \in [floor : Nat, returned : BOOLEAN]
    /\ StoresReturn

LEMMA DroppedIs ==
    ASSUME NEW s, OneBlockPerImage(s), NEW k \in 0 .. Len(s)
    PROVE  OneBlockPerImage(Dropped(s, k)) /\ Len(Dropped(s, k)) = Len(s) - k
<1> DEFINE n == Len(s)
           l == k + 1
           d == SubSeq(s, l, n)
<1>1. s \in Seq(VisualBlocks) /\ n \in Nat /\ k \in 0 .. n /\ DOMAIN s = 1 .. n
  BY DEF OneBlockPerImage
<1>2. \A i \in 1 .. n : s[i] \in VisualBlocks
  BY <1>1
<1>3. l = k + 1 /\ l \in Int /\ n \in Int
  BY <1>1
<1>4. Dropped(s, k) = d
  BY DEF Dropped
<1> HIDE DEF n, l
<1>5. /\ d \in Seq(VisualBlocks)
      /\ Len(d) = IF l <= n THEN n - l + 1 ELSE 0
      /\ \A i \in 1 .. n - l + 1 : d[i] = s[l + i - 1]
  <2>1. \A i \in l .. n : s[i] \in VisualBlocks
    BY <1>1, <1>2, <1>3
  <2> QED BY <1>3, <2>1, SubSeqProperties
<1> HIDE DEF d
<1>6. Len(d) = n - k /\ DOMAIN d = 1 .. n - k
  <2>1. Len(d) = n - k
    BY <1>1, <1>3, <1>5
  <2> QED BY <1>5, <2>1
<1>7. ASSUME NEW i \in DOMAIN d PROVE i + k \in DOMAIN s /\ d[i] = s[i + k]
  <2>1. i \in 1 .. n - l + 1 /\ l + i - 1 = i + k /\ i + k \in 1 .. n
    BY <1>1, <1>3, <1>6
  <2> QED BY <1>1, <1>5, <2>1
<1>8. ASSUME NEW i \in DOMAIN d, NEW j \in DOMAIN d, d[i].hash = d[j].hash PROVE i = j
  <2>1. i + k = j + k
    BY <1>7, <1>8 DEF OneBlockPerImage
  <2> QED BY <1>1, <1>6, <2>1
<1>9. OneBlockPerImage(d)
  BY <1>5, <1>8 DEF OneBlockPerImage
<1> QED BY <1>4, <1>6, <1>9 DEF n

LEMMA WithoutIs ==
    ASSUME NEW s, OneBlockPerImage(s), NEW h
    PROVE  LET w == Without(s, h) IN
           /\ OneBlockPerImage(w)
           /\ \A i \in DOMAIN w : w[i].hash # h
           /\ Len(w) = IF \E i \in DOMAIN s : s[i].hash = h THEN Len(s) - 1 ELSE Len(s)
<1> DEFINE at == {i \in DOMAIN s : s[i].hash = h}
<1>1. CASE at = {}
  BY <1>1 DEF Without
<1>2. CASE at # {}
  <2> DEFINE x == CHOOSE i \in at : TRUE
             w == RemoveAt(s, x)
             n == Len(s)
  <2>1. x \in at /\ Without(s, h) = w
    BY <1>2 DEF Without
  <2>2. s \in Seq(VisualBlocks) /\ n \in Nat /\ DOMAIN s = 1 .. n /\ x \in 1 .. n /\ s[x].hash = h
    BY <2>1 DEF OneBlockPerImage
  <2> HIDE DEF x
  <2>3. /\ w \in Seq(VisualBlocks) /\ Len(w) = n - 1
        /\ \A k \in 1 .. (n - 1) : w[k] = IF k < x THEN s[k] ELSE s[k + 1]
    BY <2>2, RemoveAtSequence
  <2> HIDE DEF w, n
  <2>4. DOMAIN w = 1 .. n - 1
    BY <2>3
  <2> DEFINE from(k) == IF k < x THEN k ELSE k + 1
  <2>5. ASSUME NEW k \in DOMAIN w
        PROVE  from(k) \in DOMAIN s /\ from(k) # x /\ w[k] = s[from(k)]
    BY <2>2, <2>3, <2>4
  <2>6. ASSUME NEW i \in DOMAIN w, NEW j \in DOMAIN w, from(i) = from(j) PROVE i = j
    BY <2>2, <2>4, <2>6
  <2> HIDE DEF from
  <2>7. \A i \in DOMAIN w : w[i].hash # h
    BY <2>2, <2>5 DEF OneBlockPerImage
  <2>8. \A i, j \in DOMAIN w : w[i].hash = w[j].hash => i = j
    BY <2>5, <2>6 DEF OneBlockPerImage
  <2>9. \E i \in DOMAIN s : s[i].hash = h
    BY <2>2
  <2> QED BY <2>1, <2>3, <2>7, <2>8, <2>9 DEF OneBlockPerImage, n
<1> QED BY <1>1, <1>2

LEMMA AppendedIs ==
    ASSUME NEW s, OneBlockPerImage(s), NEW b \in VisualBlocks,
           \A i \in DOMAIN s : s[i].hash # b.hash
    PROVE  OneBlockPerImage(Append(s, b)) /\ Len(Append(s, b)) = Len(s) + 1
<1> DEFINE t == Append(s, b)
<1>1. s \in Seq(VisualBlocks) /\ Len(s) \in Nat /\ DOMAIN s = 1 .. Len(s)
  BY DEF OneBlockPerImage
<1>2. /\ t \in Seq(VisualBlocks) /\ Len(t) = Len(s) + 1 /\ DOMAIN t = 1 .. Len(s) + 1
      /\ \A i \in 1 .. Len(s) : t[i] = s[i]
      /\ t[Len(s) + 1] = b
  BY <1>1
<1> HIDE DEF t
<1>3. ASSUME NEW i \in DOMAIN t, NEW j \in DOMAIN t, t[i].hash = t[j].hash PROVE i = j
  BY <1>1, <1>2, <1>3 DEF OneBlockPerImage
<1>4. OneBlockPerImage(t)
  BY <1>2, <1>3 DEF OneBlockPerImage
<1> QED BY <1>2, <1>4 DEF t

\* Making room drops blocks from the front, the last of them while the cache
\* still held more than the floor.
LEMMA RoomIsMade ==
    ASSUME OneBlockPerImage(visual), floor \in Nat, NEW bytes
    PROVE  /\ OneBlockPerImage(EvictIfNeeded(bytes))
           /\ Len(EvictIfNeeded(bytes)) <= Len(visual)
           /\ Len(EvictIfNeeded(bytes)) < Len(visual) => Len(EvictIfNeeded(bytes)) >= floor
<1> DEFINE n == Len(visual)
           Enough(k) == \/ k = Len(visual)
                        \/ AtFloor(Len(visual) - k)
                        \/ HasRoom(Dropped(visual, k), bytes)
           S == {k \in 0 .. Len(visual) : Enough(k)}
           k == Least(S)
<1>1. n \in Nat
  BY DEF OneBlockPerImage
<1>2. S \in SUBSET Nat /\ S # {} /\ S \subseteq 0 .. n
  BY <1>1
<1>3. k \in S /\ \A j \in S : k <= j
  <2> HIDE DEF S
  <2> QED BY <1>2, LeastExists DEF Least
<1>4. EvictIfNeeded(bytes) = Dropped(visual, k)
  BY DEF EvictIfNeeded
<1>5. ASSUME k # 0 PROVE n - (k - 1) > floor
  <2>1. k - 1 \in 0 .. n /\ ~ (k <= k - 1)
    BY <1>1, <1>2, <1>3, <1>5
  <2>2. k - 1 \notin S
    BY <1>3, <2>1
  <2>3. ~ AtFloor(n - (k - 1))
    BY <2>1, <2>2
  <2> HIDE DEF k, n
  <2> QED BY <1>1, <2>1, <2>3 DEF AtFloor
<1>6. k \in 0 .. n
  BY <1>2, <1>3
<1> HIDE DEF k
<1>7. OneBlockPerImage(Dropped(visual, k)) /\ Len(Dropped(visual, k)) = n - k
  BY <1>6, DroppedIs
<1> QED BY <1>1, <1>4, <1>5, <1>6, <1>7

\* A store leaves a cache within its size, evicts nothing below the floor,
\* and hangs only when the floor is as large as the cache.
LEMMA StoreEffect ==
    ASSUME VisualSound, NEW h \in Images, NEW bytes \in Sizes, Store(h, bytes)
    PROVE  /\ OneBlockPerImage(visual') /\ Len(visual') <= MaxEntries
           /\ Len(visual') < Len(visual) => Len(visual') >= floor
           /\ ~ lastStore'.returned => floor >= MaxEntries
           /\ lastStore'.floor = floor
<1> DEFINE block  == [hash |-> h, bytes |-> bytes, reads |-> 0]
           room   == EvictIfNeeded(bytes)
           cached == \E i \in DOMAIN room : room[i].hash = h
           excess == IF cached \/ Len(room) < MaxEntries THEN 0 ELSE Len(room) - MaxEntries + 1
           hangs  == excess > 0 /\ AtFloor(Len(room) - excess + 1)
           rest   == Dropped(room, excess)
           kept   == Without(rest, h)
<1>1. /\ visual' = IF hangs THEN room ELSE Append(kept, block)
      /\ lastStore' = [floor |-> floor, returned |-> ~ hangs]
  BY DEF Store
<1>2. /\ floor \in Nat /\ MaxEntries \in Nat \ {0}
      /\ Len(visual) \in Nat /\ Len(visual) <= MaxEntries
  BY VisualAssumption DEF VisualSound, OneBlockPerImage
<1>3. /\ OneBlockPerImage(room) /\ Len(room) <= Len(visual)
      /\ Len(room) < Len(visual) => Len(room) >= floor
  BY RoomIsMade DEF VisualSound
<1>4. block \in VisualBlocks
  BY DEF VisualBlocks
<1> HIDE DEF room
<1>5. Len(room) \in Nat
  BY <1>3 DEF OneBlockPerImage
<1>6. /\ cached \/ Len(room) < MaxEntries => excess = 0
      /\ ~ cached /\ Len(room) >= MaxEntries => excess = 1 /\ Len(room) = MaxEntries
      /\ excess \in 0 .. Len(room)
  BY <1>2, <1>3, <1>5
<1> HIDE DEF excess
<1>7. hangs => floor >= MaxEntries
  BY <1>2, <1>5, <1>6 DEF AtFloor
<1>8. OneBlockPerImage(rest) /\ Len(rest) = Len(room) - excess
  BY <1>3, <1>6, DroppedIs
<1>9. /\ OneBlockPerImage(kept)
      /\ \A i \in DOMAIN kept : kept[i].hash # h
      /\ Len(kept) = IF \E i \in DOMAIN rest : rest[i].hash = h THEN Len(rest) - 1 ELSE Len(rest)
  BY <1>8, WithoutIs
<1>10. OneBlockPerImage(Append(kept, block)) /\ Len(Append(kept, block)) = Len(kept) + 1
  <2> HIDE DEF kept
  <2>1. block.hash = h
    OBVIOUS
  <2> HIDE DEF block
  <2> QED BY <1>4, <1>9, <2>1, AppendedIs
<1>11. cached /\ excess = 0 => \E i \in DOMAIN rest : rest[i].hash = h
  <2> SUFFICES ASSUME cached, excess = 0 PROVE rest = room
    OBVIOUS
  <2>1. room \in Seq(VisualBlocks)
    BY <1>3 DEF OneBlockPerImage
  <2>2. rest = SubSeq(room, 1, Len(room))
    BY DEF Dropped
  <2> QED BY <2>1, <2>2, SubSeqFull
<1>12. Len(kept) \in Nat /\ Len(rest) \in Nat
  BY <1>8, <1>9 DEF OneBlockPerImage
<1>13. ASSUME ~ hangs
       PROVE  /\ Len(visual') <= MaxEntries
              /\ Len(visual') < Len(visual) => Len(visual') >= floor
  <2>1. Len(visual') = Len(kept) + 1
    BY <1>1, <1>10, <1>13
  <2>2. CASE cached
    <3>1. excess = 0 /\ Len(kept) = Len(room) - 1
      BY <1>5, <1>6, <1>8, <1>9, <1>11, <2>2
    <3> QED BY <1>2, <1>3, <1>5, <2>1, <3>1
  <2>3. CASE ~ cached /\ Len(room) < MaxEntries
    <3>1. excess = 0 /\ rest = room
      <4>1. room \in Seq(VisualBlocks) /\ excess = 0
        BY <1>3, <1>6, <2>3 DEF OneBlockPerImage
      <4>2. rest = SubSeq(room, 1, Len(room))
        BY <4>1 DEF Dropped
      <4> QED BY <4>1, <4>2, SubSeqFull
    <3>2. Len(kept) = Len(room)
      BY <1>9, <2>3, <3>1
    <3> QED BY <1>2, <1>3, <1>5, <2>1, <2>3, <3>2
  <2>4. CASE ~ cached /\ Len(room) >= MaxEntries
    <3>1. excess = 1 /\ Len(room) = MaxEntries /\ Len(rest) = MaxEntries - 1
      BY <1>6, <1>8, <2>4
    <3>2. ~ AtFloor(MaxEntries)
      BY <1>2, <1>13, <3>1
    <3>3. Len(kept) <= Len(rest) /\ Len(kept) >= Len(rest) - 1
      BY <1>9, <1>12
    <3>4. floor < MaxEntries
      BY <1>2, <3>2 DEF AtFloor
    <3> HIDE DEF rest, kept
    <3> QED BY <1>2, <1>3, <1>12, <2>1, <3>1, <3>3, <3>4
  <2> QED BY <1>2, <1>5, <2>2, <2>3, <2>4
<1> HIDE DEF hangs, kept, block
<1>14. CASE hangs
  BY <1>1, <1>2, <1>3, <1>5, <1>7, <1>14
<1>15. CASE ~ hangs
  BY <1>1, <1>10, <1>13, <1>15
<1> QED BY <1>14, <1>15

\* A lookup keeps the blocks and moves the one it finds to the end.
LEMMA LookupEffect ==
    ASSUME VisualSound, NEW h \in Images, Lookup(h)
    PROVE  OneBlockPerImage(visual') /\ Len(visual') = Len(visual)
<1>1. CASE Entries(h) = {}
  BY <1>1 DEF Lookup, VisualSound
<1>2. CASE Entries(h) # {}
  <2> DEFINE b == visual[CHOOSE i \in Entries(h) : TRUE]
             c == [b EXCEPT !.reads = @ + 1]
             w == Without(visual, h)
  <2>1. visual' = Append(w, c)
    BY <1>2 DEF Lookup
  <2>2. visual \in Seq(VisualBlocks) /\ OneBlockPerImage(visual)
    BY DEF VisualSound, OneBlockPerImage
  <2>3. b \in VisualBlocks /\ b.hash = h
    <3>1. (CHOOSE i \in Entries(h) : TRUE) \in Entries(h)
      BY <1>2
    <3> QED BY <2>2, <3>1 DEF Entries
  <2> HIDE DEF b
  <2>4. c \in VisualBlocks /\ c.hash = h
    BY <2>3 DEF VisualBlocks
  <2>5. \E i \in DOMAIN visual : visual[i].hash = h
    BY <1>2 DEF Entries
  <2>6. OneBlockPerImage(w) /\ (\A i \in DOMAIN w : w[i].hash # h) /\ Len(w) = Len(visual) - 1
    BY <2>2, <2>5, WithoutIs
  <2> HIDE DEF c, w
  <2>7. OneBlockPerImage(Append(w, c)) /\ Len(Append(w, c)) = Len(w) + 1
    BY <2>4, <2>6, AppendedIs
  <2>8. Len(visual) \in Nat
    BY <2>2
  <2> QED BY <2>1, <2>6, <2>7, <2>8
<1> QED BY <1>1, <1>2

LEMMA VisualStep == VisualSound /\ [VisualNext]_visualVars => VisualSound'
<1> SUFFICES ASSUME VisualSound, [VisualNext]_visualVars PROVE VisualSound'
  OBVIOUS
<1>1. CASE UNCHANGED visualVars
  BY <1>1 DEF visualVars, VisualSound, StoresReturn
<1>2. ASSUME NEW h \in Images, Lookup(h) PROVE VisualSound'
  <2>1. OneBlockPerImage(visual') /\ Len(visual') = Len(visual)
    BY <1>2, LookupEffect
  <2>2. floor' = floor /\ lastStore' = lastStore
    BY <1>2 DEF Lookup
  <2> QED BY <2>1, <2>2 DEF VisualSound, StoresReturn
<1>3. ASSUME NEW h \in Images, NEW bytes \in Sizes, Store(h, bytes) PROVE VisualSound'
  <2>1. floor' = floor /\ floor \in Nat /\ lastStore' \in [floor : Nat, returned : BOOLEAN]
    BY <1>3 DEF Store, VisualSound
  <2>2. /\ OneBlockPerImage(visual') /\ Len(visual') <= MaxEntries
        /\ ~ lastStore'.returned => lastStore'.floor >= MaxEntries
    BY <1>3, StoreEffect
  <2> QED BY <2>1, <2>2 DEF VisualSound, StoresReturn
<1>4. ASSUME NEW b \in BatchShapes, GetDPMode(b) PROVE VisualSound'
  BY <1>4 DEF GetDPMode, VisualSound, StoresReturn
<1>5. CASE Clear
  <2>1. visual' = << >> /\ floor' = floor /\ lastStore' = lastStore
    BY <1>5 DEF Clear
  <2>2. OneBlockPerImage(<< >>) /\ Len(<< >>) = 0
    BY DEF OneBlockPerImage
  <2>3. 0 <= MaxEntries
    BY VisualAssumption
  <2> QED BY <2>1, <2>2, <2>3 DEF VisualSound, StoresReturn
<1>6. ASSUME NEW n \in Floors, MoveFloor(n) PROVE VisualSound'
  BY <1>6, VisualAssumption DEF MoveFloor, VisualSound, StoresReturn
<1> QED BY <1>1, <1>2, <1>3, <1>4, <1>5, <1>6 DEF VisualNext, Spin

LEMMA VisualBegins == VisualInit => VisualSound
<1> SUFFICES ASSUME VisualInit PROVE VisualSound
  OBVIOUS
<1>1. OneBlockPerImage(<< >>) /\ Len(<< >>) = 0
  BY DEF OneBlockPerImage
<1> QED BY <1>1, VisualAssumption DEF VisualInit, VisualSound, StoresReturn

\* The cache never holds more than max_entries blocks, nor two of one image.
THEOREM VisualTypeCorrect == VisualSpec => []VisualTypeOK
<1>1. VisualSound => VisualTypeOK
  <2> SUFFICES ASSUME VisualSound PROVE VisualTypeOK
    OBVIOUS
  <2>1. \A i \in DOMAIN visual : visual[i] \in VisualBlocks
    BY DEF VisualSound, OneBlockPerImage
  <2> QED BY <2>1 DEF VisualSound, VisualTypeOK, OneBlockPerImage, VisualBlocks
<1> QED BY <1>1, VisualBegins, VisualStep, PTL DEF VisualSpec

\* A store that does not return has met a floor as large as the cache.
THEOREM StoresComeBack == VisualSpec => []StoresReturn
<1>1. VisualSound => StoresReturn
  BY DEF VisualSound
<1> QED BY <1>1, VisualBegins, VisualStep, PTL DEF VisualSpec

\* Neither loop of store() takes the cache below the controller's floor.
THEOREM FloorIsKept == VisualSpec => EvictionsKeepFloor
<1>1. VisualSound /\ [VisualNext]_visualVars
        => [Len(visual') < Len(visual) => visual' = << >> \/ Len(visual') >= floor]_visual
  <2> SUFFICES ASSUME VisualSound, VisualNext, Len(visual') < Len(visual)
               PROVE  visual' = << >> \/ Len(visual') >= floor
    BY DEF visualVars
  <2>1. ASSUME NEW h \in Images, Lookup(h) PROVE FALSE
    BY <2>1, LookupEffect DEF VisualSound, OneBlockPerImage
  <2>2. ASSUME NEW h \in Images, NEW bytes \in Sizes, Store(h, bytes) PROVE Len(visual') >= floor
    BY <2>2, StoreEffect
  <2>3. CASE Clear
    BY <2>3 DEF Clear
  <2>4. CASE visual' = visual
    BY <2>4 DEF VisualSound, OneBlockPerImage
  <2> QED
    BY <2>1, <2>2, <2>3, <2>4 DEF VisualNext, GetDPMode, MoveFloor, Spin, visualVars
<1> QED BY <1>1, VisualBegins, VisualStep, PTL DEF VisualSpec, EvictionsKeepFloor

-----------------------------------------------------------------------------
(* TokenDance: what the mirrors reconstruct.                                *)

\* An agent's blocks `given` against the master's blocks m and its mirror d:
\* no longer than the master's, the mirror within them, and each block
\* rebuilt from the two up to the threshold.
Rebuilds(m, d, given) ==
    /\ given \in Seq(Int) /\ Len(given) <= Len(m)
    /\ DOMAIN d \subseteq DOMAIN given
    /\ \A i \in DOMAIN d : d[i] \in Int
    /\ \A i \in DOMAIN given :
         Magnitude(m[i] + (IF i \in DOMAIN d THEN d[i] ELSE 0) - given[i]) <= DiffThreshold

\* What MirrorsReconstruct rests on.  The master's own mirror, if it has one,
\* agrees like the others: reconstruct() does not use it.
MirrorsAgree ==
    /\ masterBlocks \in Seq(Int)
    /\ master = NoMaster => DOMAIN mirrors = {}
    /\ DOMAIN own = DOMAIN mirrors
    /\ \A a \in DOMAIN mirrors \ outdated : Rebuilds(masterBlocks, mirrors[a], own[a])

LEMMA CachesAreSequences == Caches \subseteq Seq(Int)
<1> SUFFICES ASSUME NEW n \in CacheLengths, NEW c \in [1 .. n -> BlockValues]
             PROVE  c \in Seq(Int)
  BY DEF Caches
<1>1. n \in Nat /\ BlockValues \subseteq Int
  BY DanceAssumption
<1>2. c \in [1 .. n -> Int]
  BY <1>1
<1> QED BY <1>1, <1>2

\* The differences kept rebuild the blocks they were taken from.
LEMMA SparseDiffRebuilds ==
    ASSUME masterBlocks \in Seq(Int), NEW blocks \in Seq(Int), Len(blocks) = Len(masterBlocks)
    PROVE  Rebuilds(masterBlocks, SparseDiff(blocks), blocks)
<1> DEFINE d == SparseDiff(blocks)
<1>1. /\ DOMAIN d = {j \in DOMAIN blocks : Differs(blocks[j] - masterBlocks[j])}
      /\ \A i \in DOMAIN d : d[i] = blocks[i] - masterBlocks[i]
  BY DEF SparseDiff
<1> HIDE DEF d
<1>2. ASSUME NEW i \in DOMAIN blocks
      PROVE  blocks[i] \in Int /\ masterBlocks[i] \in Int
  <2>1. DOMAIN blocks = 1 .. Len(blocks) /\ DOMAIN masterBlocks = 1 .. Len(masterBlocks)
    OBVIOUS
  <2> QED BY <2>1
<1>3. ASSUME NEW i \in DOMAIN blocks
      PROVE  Magnitude(masterBlocks[i] + (IF i \in DOMAIN d THEN d[i] ELSE 0) - blocks[i])
               <= DiffThreshold
  <2>1. CASE i \in DOMAIN d
    <3>1. masterBlocks[i] + d[i] - blocks[i] = 0
      BY <1>1, <1>2, <2>1
    <3> QED BY <2>1, <3>1, DanceAssumption DEF Magnitude
  <2>2. CASE i \notin DOMAIN d
    <3>1. Magnitude(blocks[i] - masterBlocks[i]) <= DiffThreshold
      BY <1>1, <1>2, <2>2, DanceAssumption DEF Differs, Magnitude
    <3> QED BY <1>2, <2>2, <3>1, DanceAssumption DEF Magnitude
  <2> QED BY <2>1, <2>2
<1>4. \A i \in DOMAIN d : d[i] \in Int
  BY <1>1, <1>2
<1>5. Rebuilds(masterBlocks, d, blocks)
  BY <1>1, <1>3, <1>4 DEF Rebuilds
<1> QED BY <1>5 DEF d

\* Blocks appended to the master's leave an agent that does not adopt them as
\* it was, and are rebuilt for an agent of the master's length that does.
LEMMA AppendedRebuilds ==
    ASSUME NEW m \in Seq(Int), NEW shared \in Seq(Int), NEW d, NEW given, Rebuilds(m, d, given)
    PROVE  /\ Rebuilds(m \o shared, d, given)
           /\ Len(given) = Len(m) => Rebuilds(m \o shared, d, given \o shared)
<1>1. /\ m \o shared \in Seq(Int)
      /\ Len(m \o shared) = Len(m) + Len(shared)
      /\ \A i \in 1 .. Len(m) : (m \o shared)[i] = m[i]
      /\ Len(m) \in Nat /\ Len(shared) \in Nat
      /\ \A i \in 1 .. Len(shared) : (m \o shared)[Len(m) + i] = shared[i]
  OBVIOUS
<1>2. given \in Seq(Int) /\ Len(given) \in Nat /\ Len(given) <= Len(m) /\ DOMAIN given = 1 .. Len(given)
  BY DEF Rebuilds
<1>3. Rebuilds(m \o shared, d, given)
  BY <1>1, <1>2 DEF Rebuilds
<1>4. ASSUME Len(given) = Len(m)
      PROVE  Rebuilds(m \o shared, d, given \o shared)
  <2> DEFINE u == given \o shared
             n == m \o shared
  <2>1. /\ u \in Seq(Int) /\ Len(u) = Len(given) + Len(shared)
        /\ DOMAIN u = 1 .. Len(u)
        /\ \A i \in 1 .. Len(given) : u[i] = given[i]
        /\ \A i \in Len(given) + 1 .. Len(u) : u[i] = shared[i - Len(given)]
    BY <1>2
  <2>2. /\ \A i \in 1 .. Len(m) : n[i] = m[i]
        /\ \A i \in Len(m) + 1 .. Len(m) + Len(shared) : n[i] = shared[i - Len(m)]
    OBVIOUS
  <2>3. Len(u) <= Len(n)
    BY <1>1, <1>4, <2>1
  <2> HIDE DEF u, n
  <2>4. DOMAIN d \subseteq DOMAIN u /\ \A i \in DOMAIN d : d[i] \in Int
    BY <1>2, <1>1, <2>1 DEF Rebuilds
  <2>5. ASSUME NEW i \in DOMAIN u
        PROVE  Magnitude(n[i] + (IF i \in DOMAIN d THEN d[i] ELSE 0) - u[i]) <= DiffThreshold
    <3>1. CASE i \in DOMAIN given
      <4>1. n[i] = m[i] /\ u[i] = given[i]
        BY <1>2, <1>4, <2>1, <2>2, <3>1
      <4> QED BY <3>1, <4>1 DEF Rebuilds
    <3>2. CASE i \notin DOMAIN given
      <4>1. i \in Len(given) + 1 .. Len(u)
        BY <1>1, <1>2, <2>1, <3>2
      <4>2. n[i] = u[i] /\ u[i] \in Int
        BY <1>1, <1>2, <1>4, <2>1, <2>2, <4>1
      <4>3. i \notin DOMAIN d
        BY <3>2 DEF Rebuilds
      <4>4. n[i] + 0 - u[i] = 0
        BY <4>2
      <4> QED BY <4>3, <4>4, DanceAssumption DEF Magnitude
    <3> QED BY <3>1, <3>2
  <2>6. Rebuilds(n, d, u)
    BY <2>1, <2>3, <2>4, <2>5 DEF Rebuilds
  <2> QED BY <2>6 DEF n, u
<1> QED BY <1>3, <1>4

\* An agent taken to equal the master is rebuilt with no difference.
LEMMA EqualRebuilds ==
    ASSUME NEW m \in Seq(Int)
    PROVE  Rebuilds(m, << >>, m)
<1>1. DOMAIN << >> = {} /\ DOMAIN m = 1 .. Len(m) /\ Len(m) \in Nat
  OBVIOUS
<1>2. ASSUME NEW i \in DOMAIN m
      PROVE  Magnitude(m[i] + (IF i \in DOMAIN << >> THEN << >>[i] ELSE 0) - m[i]) <= DiffThreshold
  <2>1. m[i] \in Int
    OBVIOUS
  <2>2. m[i] + 0 - m[i] = 0
    BY <2>1
  <2> QED BY <1>1, <2>2, DanceAssumption DEF Magnitude
<1> QED BY <1>1, <1>2 DEF Rebuilds

LEMMA DanceStep == MirrorsAgree /\ [DanceNext]_danceVars => MirrorsAgree'
<1> SUFFICES ASSUME MirrorsAgree, [DanceNext]_danceVars PROVE MirrorsAgree'
  OBVIOUS
<1>1. ASSUME NEW a \in DanceAgents, NEW blocks \in Caches, RegisterMaster(a, blocks)
      PROVE  MirrorsAgree'
  <2>1. masterBlocks' \in Seq(Int) /\ master' # NoMaster
    BY <1>1, CachesAreSequences, DanceAssumption DEF RegisterMaster
  <2>2. CASE ReplacesMaster(a)
    <3>1. DOMAIN mirrors' = {} /\ DOMAIN own' = {}
      BY <1>1, <2>2 DEF RegisterMaster, Nobody
    <3> QED BY <2>1, <3>1 DEF MirrorsAgree
  <2>3. CASE ~ ReplacesMaster(a)
    <3>1. mirrors' = mirrors /\ own' = own
      BY <1>1, <2>3 DEF RegisterMaster
    <3>2. DOMAIN mirrors' \ outdated' = {}
      BY <1>1, <2>3, <3>1 DEF RegisterMaster, ReplacesMaster, MirrorsAgree
    <3> QED BY <2>1, <3>1, <3>2 DEF MirrorsAgree
  <2> QED BY <2>2, <2>3
<1>2. ASSUME NEW a \in DanceAgents, NEW blocks \in Caches, RegisterMirror(a, blocks)
      PROVE  MirrorsAgree'
  <2>1. /\ master # NoMaster /\ Len(blocks) = Len(masterBlocks)
        /\ DOMAIN mirrors' = DOMAIN mirrors \cup {a}
        /\ DOMAIN own' = DOMAIN own \cup {a}
        /\ mirrors'[a] = SparseDiff(blocks) /\ own'[a] = blocks
        /\ \A b \in DOMAIN mirrors : b # a => mirrors'[b] = mirrors[b]
        /\ \A b \in DOMAIN own : b # a => own'[b] = own[b]
        /\ outdated' = outdated \ {a}
        /\ masterBlocks' = masterBlocks /\ master' = master
    BY <1>2 DEF RegisterMirror, Bound
  <2>2. Rebuilds(masterBlocks, SparseDiff(blocks), blocks)
    BY <2>1, CachesAreSequences, SparseDiffRebuilds DEF MirrorsAgree
  <2>3. ASSUME NEW b \in DOMAIN mirrors' \ outdated'
        PROVE  Rebuilds(masterBlocks, mirrors'[b], own'[b])
    <3>1. CASE b = a
      BY <2>1, <2>2, <3>1
    <3>2. CASE b # a
      <4>1. b \in DOMAIN mirrors \ outdated /\ b \in DOMAIN own
        BY <2>1, <3>2 DEF MirrorsAgree
      <4>2. mirrors'[b] = mirrors[b] /\ own'[b] = own[b]
        BY <2>1, <3>2, <4>1
      <4> QED BY <4>1, <4>2 DEF MirrorsAgree
    <3> QED BY <3>1, <3>2
  <2>4. \A b \in DOMAIN mirrors' \ outdated' : Rebuilds(masterBlocks', mirrors'[b], own'[b])
    BY <2>1, <2>3
  <2>5. masterBlocks' \in Seq(Int) /\ DOMAIN own' = DOMAIN mirrors' /\ master' # NoMaster
    BY <2>1 DEF MirrorsAgree
  <2> QED BY <2>4, <2>5 DEF MirrorsAgree
<1>3. ASSUME NEW agents \in SUBSET DanceAgents, NEW v \in BlockValues,
             CollectiveReuseStep(agents, <<v>>)
      PROVE  MirrorsAgree'
  <2> DEFINE shared == <<v>>
             extended == masterBlocks \o shared
  <2>1. shared \in Seq(Int) /\ masterBlocks \in Seq(Int)
    BY DanceAssumption DEF MirrorsAgree
  <2> HIDE DEF shared
  <2>2. extended \in Seq(Int)
    BY <2>1
  <2>3. /\ masterBlocks' = extended /\ master' = master /\ master # NoMaster
        /\ outdated' = outdated
        /\ DOMAIN mirrors' = DOMAIN mirrors \cup (agents \ {master})
        /\ DOMAIN own' = DOMAIN own \cup (agents \ {master})
        /\ \A b \in DOMAIN mirrors' :
             mirrors'[b] = IF b \in DOMAIN mirrors THEN mirrors[b] ELSE << >>
        /\ \A b \in DOMAIN own' :
             own'[b] = IF b \notin DOMAIN own THEN extended
                       ELSE IF b \in agents /\ Len(own[b]) = Len(masterBlocks)
                       THEN own[b] \o shared ELSE own[b]
    BY <1>3 DEF CollectiveReuseStep, Extended, shared
  <2> HIDE DEF extended
  <2>4. DOMAIN own = DOMAIN mirrors
    BY DEF MirrorsAgree
  <2>5. ASSUME NEW b \in DOMAIN mirrors' \ outdated'
        PROVE  Rebuilds(extended, mirrors'[b], own'[b])
    <3>1. CASE b \notin DOMAIN mirrors
      <4>1. mirrors'[b] = << >> /\ own'[b] = extended
        BY <2>3, <2>4, <3>1
      <4> QED BY <2>2, <4>1, EqualRebuilds
    <3>2. CASE b \in DOMAIN mirrors
      <4>1. mirrors'[b] = mirrors[b] /\ Rebuilds(masterBlocks, mirrors[b], own[b])
        BY <2>3, <3>2 DEF MirrorsAgree
      <4>2. /\ Rebuilds(extended, mirrors[b], own[b])
            /\ Len(own[b]) = Len(masterBlocks) => Rebuilds(extended, mirrors[b], own[b] \o shared)
        BY <2>1, <4>1, AppendedRebuilds DEF extended
      <4>3. own'[b] = IF b \in agents /\ Len(own[b]) = Len(masterBlocks)
                      THEN own[b] \o shared ELSE own[b]
        BY <2>3, <2>4, <3>2
      <4> QED BY <4>1, <4>2, <4>3
    <3> QED BY <3>1, <3>2
  <2> QED BY <2>2, <2>3, <2>4, <2>5 DEF MirrorsAgree
<1>4. CASE UNCHANGED danceVars
  BY <1>4 DEF danceVars, MirrorsAgree
<1> QED BY <1>1, <1>2, <1>3, <1>4 DEF DanceNext

\* For every agent whose master stands, reconstruct() gives back what the
\* agent registered and adopted, up to the threshold.
THEOREM MirrorsGiveBack == DanceSpec => []MirrorsReconstruct
<1>1. DanceInit => MirrorsAgree
  BY DEF DanceInit, MirrorsAgree, Nobody
<1>2. MirrorsAgree => MirrorsReconstruct
  <2> SUFFICES ASSUME MirrorsAgree, NEW a \in DOMAIN mirrors \ (outdated \cup {master}),
                      NEW i \in DOMAIN own[a]
               PROVE  Magnitude(Reconstruct(a)[i] - own[a][i]) <= DiffThreshold
    BY DEF MirrorsReconstruct
  <2>1. Rebuilds(masterBlocks, mirrors[a], own[a]) /\ masterBlocks \in Seq(Int)
    BY DEF MirrorsAgree
  <2>2. i \in DOMAIN masterBlocks
    BY <2>1 DEF Rebuilds
  <2>3. Reconstruct(a)[i] = masterBlocks[i] + (IF i \in DOMAIN mirrors[a] THEN mirrors[a][i] ELSE 0)
    BY <2>2 DEF Reconstruct
  <2> QED BY <2>1, <2>3 DEF Rebuilds
<1> QED BY <1>1, <1>2, DanceStep, PTL DEF DanceSpec

-----------------------------------------------------------------------------
(* WorkflowPredictor: what the process remembers is at the end of the log.  *)

\* What HistoryIsLogged rests on: only agents are remembered, no agent reads
\* like a torn line, and a history is not longer than it may be.
LogSound ==
    /\ history \in Seq(StepAgents) /\ Len(history) <= MaxHistory
    /\ logFile \in Seq(StepAgents \cup {Unreadable})
    /\ unlogged \in BOOLEAN /\ torn \in BOOLEAN
    /\ HistoryIsLogged

\* The new history ends with the step, and before it has what it had, by one
\* place earlier if the oldest step was dropped.
LEMMA RememberedIs ==
    ASSUME history \in Seq(StepAgents), Len(history) <= MaxHistory, NEW a \in StepAgents
    PROVE  /\ Remembered(a) \in Seq(StepAgents) /\ Len(Remembered(a)) <= MaxHistory
           /\ Len(Remembered(a)) \in Nat \ {0}
           /\ \E shift \in {0, 1} :
                /\ Len(Remembered(a)) = Len(history) + 1 - shift
                /\ \A i \in 1 .. Len(history) - shift :
                     i + shift \in DOMAIN history /\ Remembered(a)[i] = history[i + shift]
           /\ Remembered(a)[Len(Remembered(a))] = a
<1> DEFINE all == Append(history, a)
           n == Len(history)
<1>1. /\ n \in Nat /\ n <= MaxHistory /\ MaxHistory \in Nat \ {0} /\ DOMAIN history = 1 .. n
      /\ all \in Seq(StepAgents) /\ Len(all) = n + 1 /\ all[n + 1] = a
      /\ \A i \in 1 .. n : all[i] = history[i]
      /\ all # << >>
  BY PredictorAssumption
<1>2. Tail(all) \in Seq(StepAgents) /\ Len(Tail(all)) = n + 1 - 1
      /\ \A i \in 1 .. Len(Tail(all)) : Tail(all)[i] = all[i + 1]
  BY <1>1, HeadTailProperties
<1>3. Remembered(a) = IF Len(all) > MaxHistory THEN Tail(all) ELSE all
  BY DEF Remembered
<1> HIDE DEF all, n
<1>4. CASE Len(all) > MaxHistory
  <2>1. Remembered(a) = Tail(all) /\ Len(Tail(all)) = n /\ n = MaxHistory /\ n \in Nat \ {0}
    BY <1>1, <1>2, <1>3, <1>4
  <2>2. Tail(all)[n] = a
    BY <1>1, <1>2, <2>1
  <2>3. \A i \in 1 .. n - 1 : i + 1 \in DOMAIN history /\ Tail(all)[i] = history[i + 1]
    BY <1>1, <1>2, <2>1
  <2>4. n = n + 1 - 1
    BY <2>1
  <2> QED BY <1>1, <1>2, <2>1, <2>2, <2>3, <2>4 DEF n
<1>5. CASE ~ (Len(all) > MaxHistory)
  <2>1. Remembered(a) = all /\ Len(all) = n + 1 - 0 /\ n + 1 <= MaxHistory /\ n + 1 \in Nat \ {0}
    BY <1>1, <1>3, <1>5
  <2>2. \A i \in 1 .. n - 0 : i + 0 \in DOMAIN history /\ all[i] = history[i + 0]
    BY <1>1
  <2> QED BY <1>1, <2>1, <2>2 DEF n
<1> QED BY <1>4, <1>5

\* A record written after line p is one more record after it.
LEMMA OneRecordMore ==
    ASSUME logFile \in Seq(StepAgents \cup {Unreadable}), NEW a \in StepAgents,
           logFile' = Append(logFile, a), NEW p \in 1 .. Len(logFile)
    PROVE  RecordsAfter(p)' = RecordsAfter(p) + 1 /\ RecordsAfter(p) \in Nat
<1> DEFINE n == Len(logFile)
           R == {q \in p + 1 .. n : logFile[q] # Unreadable}
           S == {q \in p + 1 .. Len(logFile') : logFile'[q] # Unreadable}
<1>1. /\ n \in Nat /\ p \in 1 .. n /\ Len(logFile') = n + 1 /\ logFile'[n + 1] = a
      /\ \A q \in 1 .. n : logFile'[q] = logFile[q]
      /\ a # Unreadable
  BY PredictorAssumption
<1>2. S = R \cup {n + 1} /\ n + 1 \notin R
  BY <1>1
<1>3. IsFiniteSet(R)
  <2>1. IsFiniteSet(p + 1 .. n)
    BY <1>1, FS_Interval
  <2> QED BY <2>1, FS_Subset
<1>4. Cardinality(S) = Cardinality(R) + 1 /\ Cardinality(R) \in Nat
  BY <1>2, <1>3, FS_AddElement, FS_CardinalityType
<1> QED BY <1>4 DEF RecordsAfter

LEMMA LastRecord ==
    ASSUME NEW f, NEW n \in Nat, Len(f) = n
    PROVE  Cardinality({q \in n + 1 .. Len(f) : f[q] # Unreadable}) = 0
<1>1. {q \in n + 1 .. n : f[q] # Unreadable} = {}
  OBVIOUS
<1> QED BY <1>1, FS_EmptySet

LEMMA LogStep == LogSound /\ [PredictorNext]_predictorVars => LogSound'
<1> SUFFICES ASSUME LogSound, [PredictorNext]_predictorVars PROVE LogSound'
  OBVIOUS
<1>1. CASE UNCHANGED <<history, logFile, torn, unlogged>>
  BY <1>1 DEF LogSound, HistoryIsLogged, RecordsAfter
<1>2. ASSUME NEW tearing \in BOOLEAN, Restart(tearing) PROVE LogSound'
  <2>1. /\ history' = << >> /\ unlogged' = FALSE /\ torn' \in BOOLEAN
        /\ logFile' = IF tearing THEN Append(logFile, Unreadable) ELSE logFile
    BY <1>2 DEF Restart
  <2>2. logFile' \in Seq(StepAgents \cup {Unreadable})
    BY <2>1 DEF LogSound
  <2>3. << >> \in Seq(StepAgents) /\ Len(<< >>) = 0 /\ DOMAIN << >> = {}
    OBVIOUS
  <2>4. 0 <= MaxHistory
    BY PredictorAssumption
  <2> QED BY <2>1, <2>2, <2>3, <2>4 DEF LogSound, HistoryIsLogged
<1>3. ASSUME NEW a \in StepAgents, NEW written \in BOOLEAN, LogWorkflowStep(a, written)
      PROVE  LogSound'
  <2>1. /\ history' = Remembered(a)
        /\ logFile' = IF ~ written \/ torn THEN logFile ELSE Append(logFile, a)
        /\ torn' = (torn /\ ~ written)
        /\ unlogged' = (unlogged \/ torn \/ ~ written)
    BY <1>3 DEF LogWorkflowStep
  <2>2. /\ history \in Seq(StepAgents) /\ Len(history) <= MaxHistory
        /\ logFile \in Seq(StepAgents \cup {Unreadable})
    BY DEF LogSound
  <2>3. /\ history' \in Seq(StepAgents) /\ Len(history') <= MaxHistory
        /\ logFile' \in Seq(StepAgents \cup {Unreadable})
        /\ unlogged' \in BOOLEAN /\ torn' \in BOOLEAN
    <3>1. history' \in Seq(StepAgents) /\ Len(history') <= MaxHistory
      BY <2>1, <2>2, RememberedIs
    <3>2. logFile' \in Seq(StepAgents \cup {Unreadable})
      BY <2>1, <2>2
    <3> QED BY <2>1, <3>1, <3>2 DEF LogSound
  <2>4. CASE unlogged \/ torn \/ ~ written
    BY <2>1, <2>3, <2>4 DEF LogSound, HistoryIsLogged
  <2>5. CASE ~ (unlogged \/ torn \/ ~ written)
    <3> DEFINE n == Len(logFile)
               m == Len(history)
    <3>1. /\ logFile' = Append(logFile, a) /\ n \in Nat /\ m \in Nat
          /\ Len(logFile') = n + 1 /\ logFile'[n + 1] = a
          /\ \A q \in 1 .. n : logFile'[q] = logFile[q]
          /\ DOMAIN logFile = 1 .. n /\ DOMAIN logFile' = 1 .. n + 1
          /\ DOMAIN history' = 1 .. Len(history')
      BY <2>1, <2>2, <2>3, <2>5
    <3>2. /\ Len(history') \in Nat \ {0}
          /\ history'[Len(history')] = a
          /\ \E shift \in {0, 1} :
               /\ Len(history') = Len(history) + 1 - shift
               /\ \A i \in 1 .. Len(history) - shift :
                    i + shift \in DOMAIN history /\ history'[i] = history[i + shift]
      <4> DEFINE r == Remembered(a)
      <4>1. /\ Len(r) \in Nat \ {0} /\ r[Len(r)] = a
            /\ \E shift \in {0, 1} :
                 /\ Len(r) = Len(history) + 1 - shift
                 /\ \A i \in 1 .. Len(history) - shift :
                      i + shift \in DOMAIN history /\ r[i] = history[i + shift]
        BY <2>2, RememberedIs
      <4>2. history' = r
        BY <2>1
      <4> HIDE DEF r
      <4> QED BY <4>1, <4>2
    <3>3. PICK shift \in {0, 1} :
             /\ Len(history') = m + 1 - shift
             /\ \A i \in 1 .. m - shift :
                  i + shift \in DOMAIN history /\ history'[i] = history[i + shift]
      BY <3>2
    <3>4. ASSUME NEW i \in DOMAIN history'
          PROVE  \E p \in DOMAIN logFile' :
                    logFile'[p] = history'[i] /\ RecordsAfter(p)' = Len(history') - i
      <4>1. CASE i = Len(history')
        <5>1. PICK k \in Nat : k = n + 1
          BY <3>1
        <5>2. RecordsAfter(k)' = 0
          BY <3>1, <5>1, LastRecord DEF RecordsAfter
        <5>3. k \in DOMAIN logFile' /\ Len(history') - i = 0 /\ logFile'[k] = history'[i]
          BY <3>1, <3>2, <4>1, <5>1
        <5> QED BY <5>2, <5>3
      <4>2. CASE i # Len(history')
        <5>1. i \in 1 .. m - shift
          BY <3>1, <3>2, <3>3, <4>2
        <5>2. i + shift \in DOMAIN history /\ history'[i] = history[i + shift]
          BY <3>3, <5>1
        <5>3. PICK p \in DOMAIN logFile :
                logFile[p] = history[i + shift] /\ RecordsAfter(p) = m - (i + shift)
          BY <2>5, <5>2 DEF LogSound, HistoryIsLogged
        <5>4. p \in 1 .. n /\ p \in DOMAIN logFile' /\ logFile'[p] = logFile[p]
          BY <3>1
        <5>5. RecordsAfter(p)' = RecordsAfter(p) + 1
          BY <2>2, <3>1, <5>4, OneRecordMore
        <5>6. RecordsAfter(p)' = Len(history') - i
          BY <3>1, <3>3, <5>1, <5>3, <5>5
        <5> QED BY <5>2, <5>3, <5>4, <5>6
      <4> QED BY <4>1, <4>2
    <3>5. HistoryIsLogged'
      BY <3>4 DEF HistoryIsLogged
    <3> QED BY <2>3, <3>5 DEF LogSound
  <2> QED BY <2>4, <2>5
<1> QED
  BY <1>1, <1>2, <1>3
     DEF PredictorNext, TrainFromJsonl, GetEvictionPriority, predictorVars

\* What a process remembers is the end of the file's records, through failed
\* writes, torn lines and restarts, unless one of its own writes was lost.
THEOREM RememberedIsLogged == PredictorSpec => []HistoryIsLogged
<1>1. PredictorInit => LogSound
  <2>1. << >> \in Seq(StepAgents) /\ << >> \in Seq(StepAgents \cup {Unreadable})
        /\ Len(<< >>) = 0 /\ DOMAIN << >> = {}
    OBVIOUS
  <2>2. 0 <= MaxHistory
    BY PredictorAssumption
  <2> QED BY <2>1, <2>2 DEF PredictorInit, LogSound, HistoryIsLogged
<1>2. LogSound => HistoryIsLogged
  BY DEF LogSound
<1> QED BY <1>1, <1>2, LogStep, PTL DEF PredictorSpec
=============================================================================
