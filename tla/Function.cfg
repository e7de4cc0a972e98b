\* Two containers over five environments, two invocations waiting, two claims
\* and three changes in Slack and of the secret.
CONSTANTS
    Containers = {c1, c2}
    None = none
    Environments <- MCEnvironments
    Webhooks = {v1, v2}
    MaxQueue = 1
    MaxGrants = 2
    MaxRotations = 3
SPECIFICATION Spec
SYMMETRY Symmetry
INVARIANTS
    ActsOnlyWhenTold
    WarmIsCold
    PostsAreClaimed
PROPERTIES
    MendedIsUsed
CHECK_DEADLOCK FALSE
