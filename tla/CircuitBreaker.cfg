\* Three invocations, a limit of one, windows of two seconds and a timeout as
\* long as a window: a write may arrive in the window after its own, and the
\* clock reaches the deletion of the first items with invocations still alive.
CONSTANTS
    Invocations = {i1, i2, i3}
    Limit = 1
    WindowSeconds = 2
    TimeoutSeconds = 2
    MaxTime = 6
    MaxSends = 2
SPECIFICATION Spec
SYMMETRY InvocationSymmetry
INVARIANTS
    TypeOK
    WindowCap
    RollingBound
PROPERTIES
    StaysOpen
CHECK_DEADLOCK FALSE
