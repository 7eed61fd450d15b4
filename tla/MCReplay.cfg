CONSTANTS
    i1 = i1
    i2 = i2
    Iterator <- MCIterator
    None = None
    MaxRows = 2
    MaxLog = 4
SPECIFICATION ReplaySpec
SYMMETRY MCSymmetry
CHECK_DEADLOCK FALSE
INVARIANTS EveryRowAccounted
PROPERTIES StopsForAReason
