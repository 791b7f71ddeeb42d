SPECIFICATION SceneSpec
SYMMETRY Interchangeable
CONSTANTS
    r1 = r1
    r2 = r2
    r3 = r3
    Requests = {r3}
    Generations = {1}
    P = 1
    AllowDegraded = FALSE
    Required = FALSE
    Skew = 1
    MaxAge = 2
    AssertionAge = 9
    Offsets = {0, 2}
    Behind = 1
    Faults = {"substrate", "longlife", "lost_set"}
    Presents = {"fresh"}
    MaxClock = 5
    MaxRevision = 2
    MaxRestarts = 1
INVARIANTS DegradedBounded RevokedOut NoRewind
PROPERTIES WindowNotCutShort
\* A bounded run ends when its clock does.
CHECK_DEADLOCK FALSE
