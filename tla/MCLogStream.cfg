SPECIFICATION FairSpec
CONSTANTS
    None = None
    Kind = {"run", "service"}
    MaxPieces = 3
    MaxFiles = 3
    MaxReadErrors = 1
INVARIANTS
    NoGapNoRepeat
PROPERTIES
    StreamEnds CatchesUp
\* A stream stops when its run is over, or when the client leaves.
CHECK_DEADLOCK FALSE
