SPECIFICATION Spec
CONSTANTS
    BatchSize = 3
    Versions = {1, 2, 3}
    Steps <- MCSteps
    Ledger <- MCLedger
    MaxLedger = 4
    PageSize = 2
    MaxEntries = 2
    BatchLimit = 1
    MaxAttempts = 2
    MaxFlushes = 2
    Fetches = {f1, f2}
    MaxSequence = 3
    Environments = {"testnet", "mainnet"}
    MaxRegistered = 2
    MaxSwitches = 2
    MaxEvents = 2
    MaxDepth = 2
    Names = {"vault", "rewards"}
    Room = 2
    MaxSessions = 3
    Caps = {1, 2, 3}
    Budgets = {2, 3}
    BaseDelay = 1
    MaxDelay = 3
    SlowestAttempt = 2
    SubscriptionIds = {"first", "second"}
    EventKinds = {"deposit", "withdraw"}
    MaxPlaces = 2
    AbiVersions = {"v1", "v2"}
    RawMethods = {"balance", "balance_of"}
    MethodSets = {{"balance"}, {"balance", "balance_of"}}
    Tags = {"none", "v1"}
    Fallbacks = {"none", "v1"}
    AbiCalls = 2
    MaxChanges = 1
    Accounts = {"alice", "bob"}
    MaxReads = 2
    MaxWalletChanges = 1
    MaxExecutions = 2
    MaxPolls = 2
    Multipliers <- MCMultipliers
    HugeFrom = 9
    FeeLimits = {0, 120, 2300}
    FeeAmounts = {0, 1, 7, 2000}
    MaxDigits = 3
    PluginIds = {"p", "q", "r"}
    MaxDependencies = 2
    Methods = {"GET", "PUT", "POST"}
    RetryableMethods = {"GET", "PUT"}
    MaxRetries = 3
    HttpBaseDelay = 1
    HttpMaxDelay = 8
    RetryAfters = {0, 2, 9}
    BufferSizes = {1, 3}
    MaxTracked = 4
    XdrInputs = {"a", "b", "c", "d", "bad"}
    Undecodable = {"bad"}
    MaxCacheSize = 3
    ReplayResults = {"map", "set"}
    ReplayErrors = {"refused"}
    Alike <- MCAlike
    MaxRecorded = 2
    MaxInteractions = 2
    MaxSpans = 2
    MaxCalls = 3
    Ledgers = {0, 1}
    PendingPolls = {1}
    MaxMockEntries = 2
    MaxInjected = 1
    FailureStatuses = {302, 401, 408, 429, 501, 503}
    InnerRetries = {0, 1}
    MaxRounds = 2
    Passphrases = {"testnet", "mainnet"}
    MaxOperations = 1
    MaxTransactions = 2
    MaxSignatures = 1
    MaxPackages = 1
    Descriptors <- MCDescriptors
    NoContractId = "none"
    Abis <- MCAbis
    CacheKeys = {"mine"}
    MaxRegistrations = 2
    MaxDetections = 2
    AdapterNames = {"x", "y"}
    MaxAdapters = 2
    FlagKeys = {"f", "g"}
    BuiltInKeys = {"f"}
INVARIANTS
    TypeOK
    OutcomesTruthful
    DependenciesResolved
    NothingLost
    TransactionInputsSound
PROPERTY OperationsEnd
CHECK_DEADLOCK FALSE
