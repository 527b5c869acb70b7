CONSTANTS
    Drain = Drain
    Other = Other
    Clients <- MCClients
    Setups <- MCSetups
    Contents = {v1, v2}
    Absent = Absent
    Partial = Partial
    MaxStoreFaults = 2
    MaxGeneration = 3

SPECIFICATION Spec
INVARIANTS StoreTypeOK ManifestLast KnownExists RestoredWhole RestoresNewest
PROPERTIES LogSpec
