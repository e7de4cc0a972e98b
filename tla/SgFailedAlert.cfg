\* The promise of runtime.py:152 when the invocation dies between recording a
\* failure and alerting.
CONSTANTS
    SgRules = {ssh, rdp}
    Resources = {sg}
    NoResource = none
    Parts <- SgParts
    Benign <- SgBenign
    Calls <- SgCalls
    Idempotent = FALSE
    SelfEvents = FALSE
    Tellings = {"named"}
    Manual = {}
    Denied = {}
    DryRun = FALSE
    Limit = 5
    Concurrency = 2
    MaxTries = 3
    SlackUp = TRUE
    RepliesLost = FALSE
    Copies = 1
    MaxEvents = 1
    MaxWindows = 0
SPECIFICATION Spec
SYMMETRY RuleSymmetry
CHECK_DEADLOCK FALSE
INVARIANT FailedAlerts
