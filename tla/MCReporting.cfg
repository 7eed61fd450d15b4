CONSTANTS
    MaxRuns = 3
    SweepSizes = 2
SPECIFICATION Spec
CHECK_DEADLOCK FALSE
INVARIANTS SameRun FiguresAreOneReading
