CONSTANTS
    d1 = d1  c1 = c1  t1 = t1  r1 = r1  a1 = a1  None = None
    Sessions = {d1, c1}
    Orchestrators = {d1}
    MarketWorkers = {}
    Critics = {c1}
    Tasks = {t1, r1}
    MarketTasks = {}
    Artifacts = {a1}
    Attempts = {}
    RefusalIds = {"x1"}
    Reasons = {"app_terminated"}
    MaxEvents = 4
    MaxStopped = 1
SPECIFICATION Spec
INVARIANTS FinalStaysFinal OneReceiptPerAcceptance DoneOnOwnEvidence
CHECK_DEADLOCK FALSE
