SPECIFICATION BesideSpec
CONSTANTS
    h1 = h1
    h2 = h2
    k1 = k1
    k2 = k2
    rsa = rsa
    c1 = c1
    c2 = c2
    None = None
    Connects = {c1, c2}
    Hosts = {h1, h2}
    Keys = {k1, k2, rsa}
    KeyType <- MCKeyType
    Offers <- MCOffers
    Requests <- MCRequests
    Theirs <- MCTheirs
    Imports <- MCImports
    ka = ka
    kb = kb
    LoginKeys = {ka, kb}
    NoKey = NoKey
    Attempts <- MCAttempts
    MaxPrompts = 3
    MaxHops = 8
    MaxRounds = 1
    MaxAsked = 1
    MaxEdits = 1
CHECK_DEADLOCK FALSE
INVARIANTS
    AcceptedIsVouched
    DialogsAgree
    LearnedStays
    GivesUpRightly
PROPERTIES
    ConnectsEnd
    LoginEnds
