\* The claim of dedup.py:6-8 with nobody killed: one lost reply is enough.
CONSTANTS
    Callers = {c1, c2}
    Fingerprints = {f1}
    WindowSeconds = 2
    TimeoutSeconds = 3
    Mortal = {}
    MaxTime = 5
    MaxSends = 2
SPECIFICATION Spec
INVARIANT ClaimerSends
CHECK_DEADLOCK FALSE
