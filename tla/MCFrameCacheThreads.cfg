CONSTANTS
    Thread = {t1, t2}
    Key = {k1, k2, k3}
    Pinnable = {k1}
    Capacity = 2
SYMMETRY Symmetry
SPECIFICATION Spec
INVARIANTS OverfillBounded
PROPERTIES PinnedStay ErrorsNeedRace
