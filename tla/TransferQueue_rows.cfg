SPECIFICATION Spec
CONSTANTS
    NumRows = 3
    NumBatches = 2
    MaxPending = 1
    Answers = {"overwrite", "skip"}
    None = None
CHECK_DEADLOCK FALSE
INVARIANTS
    
    AnswersHold
PROPERTY
    QueuedRuns
