SPECIFICATION FairSpec
CONSTANTS
    s1 = s1  s2 = s2  s3 = s3  worker = worker  director = director
    Seats = {s1, s3}
    Role <- RolesByKind
    Instructions = {}
    None = None
    LegacyRole = director
    TickAfterEnter = TRUE
    MaxMessages = 3
    MaxMarkFailures = 1

CHECK_DEADLOCK FALSE
INVARIANTS InOrder
PROPERTIES HeldRoleDrains
