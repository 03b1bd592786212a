CONSTANTS
    d1 = d1  w1 = w1  t1 = t1  None = None
    Sessions = {d1, w1}
    Orchestrators = {d1}
    MarketWorkers = {w1}
    Critics = {}
    Tasks = {t1}
    MarketTasks = {t1}
    Artifacts = {}
    Attempts = {}
    RefusalIds = {}
    Reasons = {"provider_stream_interrupted", "provider_unavailable", "app_terminated", "native_tui_admission_failed"}
    MaxEvents = 2
    MaxStopped = 2
    Role <- RolesByKind
SPECIFICATION FairHostSpec
INVARIANTS LiveSeatNotSettled
PROPERTIES ImplementsLedger CancelNotMistakenForLoss QuitMatchesCrash DeadOwnerReleased
CHECK_DEADLOCK FALSE
