SPECIFICATION BesideSpec
CONSTANTS
    NumSessions = 1
    Callers = {c1, c2, c3}
    Room = 1
    Used = {"input", "bytes", "record", "check"}
    NoOne = NoOne
    Plays = {"listen", "relay", "x11", "agent"}
    Guests = {g1, g2}
    Fits = 2
    MaxData = 3
    MaxRequests = 3
    Door = Door
CHECK_DEADLOCK FALSE
INVARIANTS
    BytesAreTrue
    AnswersAreTrue
PROPERTIES
    CallsEnd
    CloseEnds
    DoorShuts
    RelayGoesThrough
