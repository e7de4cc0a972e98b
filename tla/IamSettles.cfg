\* A user key and a root key, which only a human may handle, in dry-run: two
\* deliveries behind a concurrency of one, each tried twice, over two breaker
\* windows, with the fairness of Lambda.
CONSTANTS
    SgRules = {ssh, rdp}
    Resources = {userkey, rootkey}
    NoResource = none
    Parts <- IamParts
    Benign <- IamBenign
    Calls <- IamCalls
    Idempotent = TRUE
    SelfEvents = FALSE
    Tellings = {"named", "nameless", "unheard"}
    Manual = {rootkey}
    Denied = {}
    DryRun = TRUE
    Limit = 1
    Concurrency = 1
    MaxTries = 2
    SlackUp = FALSE
    RepliesLost = FALSE
    Copies = 2
    MaxEvents = 1
    MaxWindows = 1
SPECIFICATION FairSpec
INVARIANTS NoSilentExposure PlannedMeansDied
PROPERTY Settles
CHECK_DEADLOCK FALSE
