SPECIFICATION BesideSpec
CONSTANTS
    Rules = {r1}
    AutoRules = {r1}
    Remote = {r1}
    Starts = {a1, a2}
    Loops = {l1, l2}
    Passes = {p1}
    User = User
    None = None
    MaxOut = 3
    MaxMoves = 2
    Mishaps = {"overtaken", "hasty", "late", "refused", "crashed"}
    Nothing = Nothing
SYMMETRY Symmetry
CHECK_DEADLOCK FALSE
INVARIANTS
    TableIsTrue
    RetryingHasLoop
    ShownOnce
