\* Three callers over two fingerprints, windows of two seconds and a timeout
\* longer than a window, so a stalled write can meet an expired or deleted item.
CONSTANTS
    Callers = {c1, c2, c3}
    Fingerprints = {f1, f2}
    WindowSeconds = 2
    TimeoutSeconds = 3
    Mortal = {c1, c2, c3}
    MaxTime = 5
    MaxSends = 2
SPECIFICATION Spec
SYMMETRY DedupSymmetry
INVARIANTS
    TypeOK
    OneClaimPerWindow
    SuppressedInWindow
CHECK_DEADLOCK FALSE
