SPECIFICATION EditorSpec
CONSTANTS
    p1 = p1
    p2 = p2
    Pages = {p1, p2}
    NoConfig = NoConfig
    InitialConfigs <- BothConfigs
    Unloaded = Unloaded
    NewModels = {"b"}
    Values = {"x"}
    Topics <- EachTopic
    Offers <- Offered
    Concerns <- OfPart
    Shown <- Edited
    Noted <- AddOperation
    Overtakes <- Clobbers
    Result <- ServerApply
    Rejected <- Refused
    Same <- SameContent
INVARIANTS
    SavedIsShown FileIsRunning
PROPERTIES
    ImplementsSavedConfig
\* The pages may be left alone.
CHECK_DEADLOCK FALSE
