SPECIFICATION Spec
CONSTANTS
    NumSessions = 2
    Callers = {c1}
    Room = 1
    NoOne = NoOne
    Kinds = {"saved", "quick", "shell"}
    Used = {"check"}
    NumLoops = 2
    Limit = 2
    MaxNow = 1
CHECK_DEADLOCK FALSE
INVARIANTS
    TabIsTrue
    NoneAbandoned
PROPERTY
    RetryEnds
