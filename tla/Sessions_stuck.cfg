SPECIFICATION SessionsSpec
CONSTANTS
    NumSessions = 2
    Callers = {c1, c2}
    Room = 1
    Used = {"input", "resize", "bytes", "record", "check"}
    NoOne = NoOne
CHECK_DEADLOCK FALSE
INVARIANTS
    NeverAllStuck
