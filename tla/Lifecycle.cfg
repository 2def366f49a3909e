SPECIFICATION FairSpec
CONSTANTS
    c1 = c1
    c2 = c2
    Callers = {c1, c2}
    Optimizer = optimizer
    Updater = updater
    None = None
    Workloads <- MCWorkloads
    MaxCycles = 1
    MAX_FACTS = 2
INVARIANTS
    StoppedWhenShutDown
    SavedSessionIsCurrent
PROPERTIES
    EveryCallReturns
    EngineIsReleased
CHECK_DEADLOCK FALSE
