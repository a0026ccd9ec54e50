SPECIFICATION Spec
CONSTANTS
    Msg = {m1, m2}
    Poison = {m2}
    MaxDeliver = 2
    OldCaps = {0, 2}
    NakBaseDelay = 2
    NakMaxDelay = 5
    MaxFaults = 1
INVARIANT NeverSilent
CHECK_DEADLOCK FALSE
