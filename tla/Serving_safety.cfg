SPECIFICATION ServingSpec
CONSTANTS
    b1 = b1
    b2 = b2
    Agents = {a1, a2}
    Hashes = {b1, b2}
    Prompts <- MCPrompts
    Tasks = {f1, f2}
    Distance <- MCDistance
    Threshold = 0
    PoolAgents = {a3, a4}
    PoolHashes = {h1, h2, h3, h4}
    MaxSize = 3
    ShareNum = 1
    ShareDen = 2
    MaxAccesses = 2
    Images = {i1, i2, i3}
    Sizes = {1, 2}
    MaxEntries = 2
    MaxVram = 3
    Floors = {0, 1, 2}
    MaxLookups = 1
    BatchShapes <- MCBatchShapes
    RateUnit = 2
    WindowTicks = 1
    EvictionGap = 2
    MinObserved = 2
    FallbackBlocks = 2
    FallbackRho = 10
    MarginNum = 23
    MarginDen = 20
    Services = {1}
    Blocks = {0, 3}
    FreeBlocks = {1, 5}
    Requested = {2}
    MaxTicks = 3
    MaxCompletions = 2
    Workers = {w1, w2}
    Anchors = {k1}
    Groups = {g1}
    NoWorker = NoWorker
    NoGroup = NoGroup
    Loads = {10, 85, 120}
    AnchorLocality = TRUE
    ClaAffinity = TRUE
    StepAgents = {"s1", "s2", "s3"}
    Dependencies <- MCDependencies
    StepIndexes = {0}
    MaxSteps = 1
    MaxHistory = 2
    MaxLogged = 3
    GraphWeight = 6
    EvictionQueries <- MCQueries
    Unreadable = Unreadable
    Overlapped = TRUE
    Targets = {t1, t2}
    DraftTokens = {d1, d2}
    Odds <- MCOdds
    Controllers = {"none", "QueueingController", "rho"}
    MinRho = 7
    Rhos = {5, 8}
    MaxDrafts = 3
    DanceAgents = {d3, d4}
    NoMaster = NoMaster
    BlockValues = {0, 1, 3}
    CacheLengths = {1}
    DiffThreshold = 1
    MaxLength = 2
    Encoders = {e1, e2}
    Passages = {"p1", "p2", "p3"}
    LRUMaxSize = 2
    MaxEncodes = 4
    MaxCancels = 1
    Documents = {"d1", "d2"}
    BatchLengths = {1, 2}
    MaxHeld = 2
    Neighbours = {1, 3}
    Connectors = {c1, c2}
    Chunks = {"k1"}
    MaxCalls = 2
    Loops = {l1, l2, l3}
    NoLoop = NoLoop
    Stoppers = {"lifespan", "other"}
    StopsOverlap = FALSE
    Hosts = {"amd", "cuda", "bare"}
    Threads = {t3, t4}
    Levels = {0, 1, 2}
    Requests = {r1, r2}
    Clients = {"c1"}
    Peers = {p1}
    NoPeer = NoPeer
    Wirings = {{}, {"quantizer", "lsh_matcher", "jcr_gate", "metrics"}}
    Features = {{}, {"quantization", "rotate_kv", "anchors", "cla", "gate"}}
    BlockCounts = {1, 3}
    MaxQuantizeBlocks = 2
    MaxHookCalls = 2
    SharingAgents = {"n1", "n2"}
    PromptBlocks <- MCBlocks
    Near <- MCNear
SYMMETRY MCSymmetry
INVARIANTS
    StoreMatchesLists
    IndexIsLive
    CreatedByOne
    StoresReturn
    EvictionsSpaced
    HistoryIsLogged
    NoDraftLost
    MirrorsReconstruct
    SameTextSameVector
    SearchSeesEveryVector
    HitsAreReal
    OneLoopWhileStarted
PROPERTIES
    SharedBlocksSurvive
    RoutedToTheLiving
CHECK_DEADLOCK FALSE
