CONSTANTS
    p1 = p1
    p2 = p2
    Packs = {p1, p2}
    None = None
    Attempts = {a1, a2}
    MachineSize <- MCSize
    Machines = {1}
    EvictAfterBackup = FALSE
    EmptyBeforeSwitch = 1
    IdleBeforeStop = 2
    Faults = {"crash", "sigterm", "shutdownTimeout", "stopTimeout", "queryErr", "launchErr", "headErr", "openErr", "storeErr", "saveErr"}
    MaxFaults = 2
    MaxGeneration = 2

SPECIFICATION Spec
SYMMETRY AttemptSymmetry
INVARIANTS TypeOK OneServer NoTornBackup SizedLaunch
PROPERTIES WorldsSpec
