CONSTANTS
    Record <- MCRecord
    Line <- MCLine
    TaxiRow <- MCTaxiRow
    ByteCounts = {1000000}
    Hours = {0, 23}
    Boroughs = {5}
    Texts = {1}
    MaxBatch = 3
    MaxBatches = 2
    MaxUpdates = 3
SPECIFICATION LoadersSpec
CHECK_DEADLOCK FALSE
INVARIANT MalformedStillIngest
