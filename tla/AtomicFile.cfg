CONSTANTS
    Writers = {w1, w2}
    MaxFiles = 4
    None = None

SPECIFICATION Spec
INVARIANTS AtomicFileTypeOK NeverTorn NeverBack TempsRemoved
