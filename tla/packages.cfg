SPECIFICATION PackagesSpec
CONSTANTS
    Words = {"app:", "a", "b", ":lock"}
    StorageKeys <- MCStorageKeys
    StorageValues = {"v"}
    StorageTTLs <- MCStorageTTLs
    LockTTLs = {0, 1}
    StorageConfigs <- MCStorageConfigs
    Lockers = {"l1", "l2"}
    Unowned = "nobody"
    Fills = {"f1", "f2"}
    CacheTTL = 2
    MaxVersion = 2
    CallerKeys <- MCCallerKeys
    UserConfigs <- MCUserConfigs
    TokenConfigs <- MCTokenConfigs
    CallerClaims <- MCCallerClaims
    TokenTTLs = {0, 4}
    SigningKeys = {"k1", "k2"}
    Second = 3
    LastInstant = 4
    Operations <- MCOperations
    Paths <- MCPaths
    Codes = {103, 201, 404}
    MaxValues = 2
    MaxWraps = 2
    FieldLists <- MCFieldLists
    LoggerLevels <- MCLoggerLevels
    MaxLoggers = 3
    Spans = {"s1", "s2"}
    SpanCodes = {"CodeOk", "CodeError", "other"}
    AttributeTypes = {"int", "duration"}
    BatchLimit = 1
    Starters = {"t1", "t2"}
    CertManagers = {"m1", "m2"}
    Hosts <- MCHosts
    OtherHosts <- MCOtherHosts
    ToASCII <- MCToASCII
    Callers = {"c1", "c2", "c3"}
    Rate = 2
    Window = 3
    MaxDelay = 2
    MaxCount = 4
    Faults = {}
INVARIANTS
    FreshUnlessRaced
    NamesApart
    OwnTokensAccepted
    EndsInTime
    IdentityKept
    StatusAsSent
    
    EntryWhole
    FlushedAtEnd
    FirstConfigServed
    HostsKept
    CounterExpires
    AtMostTwoWindows
PROPERTIES
    
    LeaseKept
    LocksFall
    EventuallyFresh
    ImplementsQuota
    WindowEnds
CHECK_DEADLOCK FALSE
