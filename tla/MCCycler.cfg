SPECIFICATION CyclerSpec
CONSTANTS
    Keep = 2
    MaxUploads = 6
    HasUrl = TRUE
    Repeats = FALSE
    Faults <- Anything
    Missing = Missing
    CutOff = CutOff
INVARIANTS
    NewestKept
    RetentionBound
\* The bound on uploads is used up in the end.
CHECK_DEADLOCK FALSE
