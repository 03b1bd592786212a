CONSTANTS
    s1 = s1  s2 = s2  k1 = k1  k2 = k2  p1 = p1  None = None
    Sessions = {s1, s2}
    Calls = {k1, k2}
    Asks = {p1}
SPECIFICATION FairSpec
INVARIANTS SettledSeatStopped
PROPERTIES OthersAsksKept CancelSettles
CHECK_DEADLOCK FALSE
