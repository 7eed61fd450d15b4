CONSTANTS
    Thread = {t1, t2, t3}
    Role = {r1, r2}
    Key = {k1, k2}
    Wildcard = Wildcard
    None = None
    MaxCalls = 4
SYMMETRY Symmetry
SPECIFICATION Spec
CHECK_DEADLOCK FALSE
INVARIANTS NoGrantOutlivesRevoke LostGrantNeedsRace
