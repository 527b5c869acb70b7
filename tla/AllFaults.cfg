CONSTANTS
    p1 = p1
    p2 = p2
    Packs = {p1, p2}
    None = None
    Attempts = {a1}
    MachineSize <- MCSize
    Machines = {1, None}
    EvictAfterBackup = TRUE
    EmptyBeforeSwitch = 1
    IdleBeforeStop = 1
    Faults = {"crash", "sigterm", "shutdownTimeout", "javaExit", "startTimeout", "stopTimeout", "rconErr", "queryErr", "flyErr", "launchErr", "headErr", "openErr", "storeErr", "evictErr", "saveErr", "lateLogin"}
    MaxFaults = 1
    MaxGeneration = 1

SPECIFICATION Spec
INVARIANTS ProcessTracked StopExpected
PROPERTIES EvictionVerified
