CONSTANTS
    p1 = p1
    p2 = p2
    Packs = {p1, p2}
    None = None
    Attempts = {a1}
    MachineSize <- MCSize
    Machines = {None}
    EvictAfterBackup = FALSE
    EmptyBeforeSwitch = 1
    IdleBeforeStop = 2
    Faults = {}
    MaxFaults = 0
    MaxGeneration = 2

SPECIFICATION Spec
INVARIANTS LocalSkipsResizing
