SPECIFICATION GatewaySpec
CONSTANTS
    \* TokenPool
    NTokens = 2
    Models = {m1, m2}
    Holders = {h1, h2}
    MaxMade = 3
    \* RunCache
    Keys = {k1, k2, k3}
    MaxEntries = 2
    Getters = {g1}
    \* RateLimit
    Accounts = {a1}
    ClientIds = {x, y}
    Requests = {r1, r2}
    Rpm <- Rates
    TicksPerMinute = 1
    MaxBuckets = 1
    IdleTicks = 1
    MaxTime = 2
    MaxAllows = 4
    \* Credentials
    Calls = {c1}
    MaxCommands = 2
    MaxSeconds = 2
    StoreWired = TRUE
    \* SearchCache
    Workers = {w1, w2}
    Ttl = 1
    MaxNow = 2
    \* ConfigReload
    MaxVersions = 3
    \* Dashboard
    Viewers = {v1}
    SubBuffer = 2
    MaxHistory = 2
    MaxProbes = 4
    \* ProxyPool
    Hosts = {p1, p2}
    Callers = {c1}
    MaxFailures = 2
    MaxRefreshes = 2
    \* Refresher
    Candidates = {"e1", "e2", "junk"}
    Parseable = {"e1", "e2"}
    Configured <- ConfiguredProxies
    MaxProbed = 2
    Concurrency = 1
    MaxProxies = 1
    MaxTurn = 1
    \* UpstreamClient
    Chats = {a, b}
    Streamed = {b}
    Timed = {a}
    ChatModels = {m1, m2}
    MaxAttempts = 2
    \* Research
    Queries = {q1, q2}
    Brief = q1
    Urls = {u1, u2}
    Backends <- SearchOrder
    Keyed = TRUE
    Searcher = FALSE
    FanOut = 2
    MaxQueries = 2
    ExtractPer = 2
    MaxEvidence = 1
    MaxHits = 2
    \* Relay
    Room = 2
    MaxFrames = 4
    \* StatusCache
    Askers = {k1, k2}
    StatusTtl = 1
    LastTick = 2
INVARIANTS
    AllTyped
    OneHolder
    EntriesCanBeEvicted
    WithinBudget
    CallsAreCurrent
    ServedWithinTtl
    
    BoundedResends
    NothingFoundIsLost
    VerdictIsTold
    StaleShields
PROPERTIES
    LastVersionLoaded
    StrictFailsClosed
    PoolKeepsServing
    CallsEnd
    PumpsEnd
CHECK_DEADLOCK FALSE
