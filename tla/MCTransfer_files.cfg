SPECIFICATION BesideSpec
CONSTANTS
    NumFiles = 2
    Contents <- MCContents
    Old <- MCOld
    Begun <- MCBegun
    MaxNames = 2
    MaxEdits = 1
    MaxAttempts = 2
    None = None
    Scenes = {"edit", "delete", "archive", "compare"}
    MaxSaves = 2
    MissingTicks = 2
    MaxOthers = 1
    MaxTreeEdits = 1
    Entries = 2
    Nobody = Nobody
CHECK_DEADLOCK FALSE
INVARIANTS
    DoneIsWhole
    HalfIsSetAside
    
    SavedIsThere
    DeleteIsExact
    ReportsAreTrue
PROPERTIES
    AttemptEnds
