\* The promise of slack.py:114-117 when Slack does not answer in time.
CONSTANTS
    Containers = {c1}
    None = none
    Environments <- MCEnvironments
    Webhooks = {v1}
    MaxQueue = 1
    MaxGrants = 1
    MaxRotations = 1
SPECIFICATION Spec
INVARIANT AlertNeverRetries
CHECK_DEADLOCK FALSE
