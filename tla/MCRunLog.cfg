SPECIFICATION FairSpec
CONSTANTS
    None = None
    x1 = x1
    N = 2
    MaxRuns = 1
    MaxCrashes = 1
    Run <- MCRun
    Stragglers <- Second
    Fallible <- Second
    Reader <- OneReader
INVARIANTS
    RecordMatchesOutcome
    NoGhostRuns
    DeletedStaysDeleted
PROPERTIES
    InactiveMeansSettled
    OutcomeIsFinal
    BookkeepingReturns
CHECK_DEADLOCK FALSE
