SPECIFICATION FilesSpec
CONSTANTS
    Scenes = {"delete"}
    MaxSaves = 2
    MissingTicks = 2
    MaxOthers = 2
    MaxTreeEdits = 1
    Entries = 2
    Nobody = Nobody
CHECK_DEADLOCK FALSE
INVARIANT LinkTargetStays
