SPECIFICATION BesideSpec
CONSTANTS
    Phrases = {p1, p2}
    Keks = {k1, k2}
    Platforms = {"desktop", "phone"}
    MaxErrors = 1
    MaxCrashes = 1
    Serial = {"phone"}
    PinTries = 2
    None = None
    Absent = Absent
    Torn = Torn
    Locked = Locked
    NoKeyring = NoKeyring
    Commands = {c1, c2, c3}
    Records = {r1, r2}
    MaxFails = 1
    Alone = TRUE
    NoRecord = NoRecord
INVARIANTS
    
    AskDropsRing
    GuessesCounted
    AckedKept
PROPERTIES
    AskIsAsked
    OneEditAtATime
