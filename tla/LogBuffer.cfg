CONSTANTS
    MaxEntries = 3
    MaxBytes = 5
    Lens = {2, 3}
    LogFaults = {"crash", "closeErr", "removeErr", "renameErr", "createErr", "shortWrite"}
    MaxLogFaults = 3
    MaxWrites = 7

SPECIFICATION Spec
INVARIANTS LogTypeOK FileCap ShowsRecent RetainsEnough
