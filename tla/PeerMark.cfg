SPECIFICATION Spec
CONSTANTS
    s1 = s1  s2 = s2  s3 = s3  worker = worker  director = director
    Seats = {s1, s2}
    Role <- TwoWorkers
    Instructions = {}
    None = None
    LegacyRole = None
    TickAfterEnter = TRUE
    MaxMessages = 1
    MaxMarkFailures = 0

CHECK_DEADLOCK FALSE
PROPERTIES DiedMidInjectNotMarked
