\* A bucket without a policy, three events, each delivered once and tried once,
\* of which the breaker admits two: exposures, and the calls of apply that come
\* back as events while somebody exposes the bucket again.
CONSTANTS
    SgRules = {ssh, rdp}
    Resources = {bucket}
    NoResource = none
    Parts <- AclParts
    Benign <- AclBenign
    Calls <- S3Calls
    Idempotent = TRUE
    SelfEvents = TRUE
    Tellings = {"named", "nameless", "unheard"}
    Manual = {}
    Denied = {}
    DryRun = FALSE
    Limit = 2
    Concurrency = 2
    MaxTries = 1
    SlackUp = TRUE
    RepliesLost = FALSE
    Copies = 1
    MaxEvents = 3
    MaxWindows = 0
SPECIFICATION Spec
CHECK_DEADLOCK FALSE
PROPERTY KeepsPromise
INVARIANTS
    RollbackSource
    VerdictIsTrue
    NoSilentExposure
    EchoesInert
