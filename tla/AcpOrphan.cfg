CONSTANTS
    s1 = s1  k1 = k1  k2 = k2  p1 = p1  None = None
    Sessions = {s1}
    Calls = {k1, k2}
    Asks = {p1}
SPECIFICATION FairSpec
PROPERTIES StoppedProcessEnds
CHECK_DEADLOCK FALSE
