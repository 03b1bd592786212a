CONSTANTS
    d1 = d1  d2 = d2  w1 = w1  w2 = w2  t1 = t1  a1 = a1  x1 = x1  None = None
    Sessions = {d1, d2, w1, w2}
    Orchestrators = {d1, d2}
    MarketWorkers = {w1, w2}
    Critics = {}
    Tasks = {t1}
    MarketTasks = {t1}
    Artifacts = {}
    Attempts = {x1}
    RefusalIds = {}
    Reasons = {"provider_stream_interrupted"}
    MaxEvents = 4
    MaxStopped = 1
SYMMETRY Symmetry
SPECIFICATION Spec
INVARIANTS TypeOK OpenTaskHasSeat HandoverChain AuthorityTraceable
PROPERTIES ImplementsLedger
CHECK_DEADLOCK FALSE
