CONSTANTS
    Key = {k1, k2, k3, k4, k5}
    Capacity = 2
SYMMETRY Symmetry
VIEW View
SPECIFICATION Spec
INVARIANTS TypeOK DirectoryBounded GhostsOnlyWhenFull
PROPERTIES ScanSparesT2 ImplementsPolicy
