CONSTANTS
    p1 = p1
    p2 = p2
    Packs = {p1, p2}
    None = None
    Attempts = {a1}
    MachineSize <- MCSize
    Machines = {1}
    EvictAfterBackup = FALSE
    EmptyBeforeSwitch = 1
    IdleBeforeStop = 1
    Faults = {"crash", "sigterm", "shutdownTimeout", "startTimeout", "stopTimeout", "rconErr", "queryErr", "flyErr", "launchErr", "headErr", "openErr", "storeErr", "saveErr"}
    MaxFaults = 1
    MaxGeneration = 2

SPECIFICATION FairSpec
PROPERTIES StartResolves DrainResolves EmptyMachineExits
