\* The promise of s3_public/handler.py:212-217 when the role may not read.
CONSTANTS
    SgRules = {ssh, rdp}
    Resources = {bucket}
    NoResource = none
    Parts <- S3Parts
    Benign <- S3Benign
    Calls <- S3Calls
    Idempotent = TRUE
    SelfEvents = TRUE
    Tellings = {"named"}
    Manual = {}
    Denied = {bucket}
    DryRun = FALSE
    Limit = 5
    Concurrency = 2
    MaxTries = 3
    SlackUp = TRUE
    RepliesLost = FALSE
    Copies = 1
    MaxEvents = 1
    MaxWindows = 0
SPECIFICATION Spec
CHECK_DEADLOCK FALSE
INVARIANT DeniedIsFailed
