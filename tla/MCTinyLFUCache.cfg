CONSTANTS
    k1 = k1
    k2 = k2
    k3 = k3
    Key <- MCKey
    Capacity = 2
    Row = {1, 2}
    Column = {1, 2}
    Idx <- MCIdx
    Sample = 16
VIEW View
SPECIFICATION Spec
INVARIANTS TypeOK NeverUnderestimates RowsWithinTotal
PROPERTIES HotKeysSurvive ImplementsPolicy
