CONSTANTS
    k1 = k1  k2 = k2  k3 = k3  k4 = k4  None = None
    Calls = {k1, k2, k3, k4}
    Capacity = 3
    MaxOutput = 4
SPECIFICATION Spec
SYMMETRY CallSymmetry
INVARIANTS RingHoldsTail ClientGapless EndsAgree
PROPERTIES ScrollbackReplayed
CHECK_DEADLOCK FALSE
