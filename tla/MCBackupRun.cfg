SPECIFICATION FairSpec
CONSTANTS
    None = None
    j1 = j1  j2 = j2  j3 = j3
    inst = inst  db1 = db1
    nameA = nameA  nameB = nameB
    Job <- MCJob
    Configured <- MCConfigured
    Unknown <- MCUnknown
    Request <- MCRequest
INVARIANTS
    OutcomeIsTrue
    NoticeMatchesRecord
    LocksCoverTheRun
PROPERTIES
    LocksAreReleased ImplementsBackups
CHECK_DEADLOCK FALSE
