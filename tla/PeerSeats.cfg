SPECIFICATION Spec
CONSTANTS
    s1 = s1  s2 = s2  s3 = s3  worker = worker  director = director
    Seats = {s1, s2}
    Role <- TwoWorkers
    Instructions = {k1}
    None = None
    LegacyRole = None
    TickAfterEnter = FALSE
    MaxMessages = 2
    MaxMarkFailures = 1
SYMMETRY Symmetry
CHECK_DEADLOCK FALSE
INVARIANTS NeverRerouted PushedReachesSurvivor NoDuplicateWithoutFailure InstructionReachesSurvivor NothingStranded
PROPERTIES ResultsReadBeforeClose
