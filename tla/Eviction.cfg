CONSTANTS
    p1 = p1
    p2 = p2
    Packs = {p1, p2}
    None = None
    Attempts = {a1, a2}
    MachineSize <- MCSize
    Machines = {1}
    EvictAfterBackup = TRUE
    EmptyBeforeSwitch = 1
    IdleBeforeStop = 2
    Faults = {"queryErr", "launchErr", "saveErr"}
    MaxFaults = 1
    MaxGeneration = 2

SPECIFICATION Spec
SYMMETRY AttemptSymmetry
INVARIANTS PlaysLatestWorld OnePackOnVolume
