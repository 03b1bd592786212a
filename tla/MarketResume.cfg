CONSTANTS
    d1 = d1 d2 = d2  w1 = w1 w2 = w2  t1 = t1 t2 = t2  m1 = m1 m2 = m2  q1 = q1 q2 = q2
    a1 = a1  u1 = u1  x1 = x1  None = None
    Sessions = {d1, d2, w1, w2}
    Orchestrators = {d1, d2}
    Directors = {d1}
    MarketWorkers = {w1, w2}
    Critics = {}
    Tasks = {t1, t2, u1}
    MarketTasks = {t1, t2}
    Missions = {m1, m2}
    Requests = {q1, q2}
    Artifacts = {a1}
    Attempts = {x1}
    RefusalIds = {}
    Reasons = {"provider_stream_interrupted", "app_terminated", "native_tui_admission_failed", "market_resume_setup_failed", "market_resume_dispatch_failed"}
    MaxEvents = 4
    MaxStopped = 1
SYMMETRY ResearchSymmetry
SPECIFICATION ResearchSpec
INVARIANTS CoordinatorMayContinue
CHECK_DEADLOCK FALSE
