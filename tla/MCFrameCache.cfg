CONSTANTS
    Key = {k1, k2, k3}
    Region = {r1, r2}
    None = None
    Capacity = 2
    Policies = {"LRU", "LFU", "SCADS"}
    FreqCap = 3
    MaxClock = 7
SYMMETRY Symmetry
VIEW View
SPECIFICATION Spec
INVARIANTS TypeOK RecencyDistinct
PROPERTIES FreshSpared GraceLastsOneEviction GeoMatchOutweighs ImplementsPolicy
