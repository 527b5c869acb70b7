CONSTANTS
    Ids = {x, y}
    Identities = {v1, v2}
    None = None
    MaxEdits = 5
    MaxMishaps = 1

SPECIFICATION Spec
SYMMETRY RegistrySymmetry
INVARIANTS RegistryTypeOK WorldKeepsIdentity NoOrphans
