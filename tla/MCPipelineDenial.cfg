CONSTANTS
    Thread = {t1, t2}
    Role = {r1}
    Key = {k1, k2}
    Payload = {d1, d2}
    NoRecords = NoRecords
    Wildcard = Wildcard
    NoBlob = NoBlob
    MaxChanges = 2
    MaxCalls = 2
    Capacity = 1
SYMMETRY Symmetry
SPECIFICATION Spec
CHECK_DEADLOCK FALSE
INVARIANT NeverRaisesForDenial
