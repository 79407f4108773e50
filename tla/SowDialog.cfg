SPECIFICATION Spec
CONSTANTS
    Config = {c1, c2, c3}
    Complete = {c1, c2}
    Email = {e1, e2}
    Blank = Blank
    MaxCalls = 3
    MaxAttempts = 2
INVARIANTS
    OneEmailPerChange
    SentIsTrue
SYMMETRY Symmetry
CHECK_DEADLOCK FALSE
