CONSTANTS
    k1 = k1
    k2 = k2
    k3 = k3
    k4 = k4
    Key <- MCKey
    Capacity = 2
    QueryCount = 7
SPECIFICATION BenchSpec
SYMMETRY MCSymmetry
CHECK_DEADLOCK FALSE
INVARIANTS WarmStart ReferenceMatches LRUKeepsMostRecent
PROPERTIES ReferencesImplementPolicy
