\* One event of one security group, delivered twice, each delivery tried twice:
\* every order of two invocations and their failures, with a breaker that admits
\* one attempt and claims whose replies may be lost.
CONSTANTS
    SgRules = {ssh, rdp}
    Resources = {sg}
    NoResource = none
    Parts <- SgParts
    Benign <- SgBenign
    Calls <- SgCalls
    Idempotent = FALSE
    SelfEvents = FALSE
    Tellings = {"named", "nameless"}
    Manual = {}
    Denied = {}
    DryRun = FALSE
    Limit = 1
    Concurrency = 2
    MaxTries = 2
    SlackUp = TRUE
    RepliesLost = TRUE
    Copies = 2
    MaxEvents = 1
    MaxWindows = 0
SPECIFICATION Spec
SYMMETRY RuleSymmetry
CHECK_DEADLOCK FALSE
INVARIANTS
    TypeOK
    SnapshotFirst
    RollbackUnlessRepeated
    VerdictIsTrue
    NoSilentExposure
    AlertsUnlessLost
    PlannedMeansDied
