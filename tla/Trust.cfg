SPECIFICATION SceneSpec
CONSTANTS
    k1 = k1
    k2 = k2
    t1 = t1
    t2 = t2
    Keys = {k1}
    Threads = {}
    t_secs = 2
    negative_ttl_secs = 1
    max_entries = 1
    PRUNE_EVERY_N_WRITES = 2
    Reload = 1
    TRUST_RELOAD_FAILURE_BUDGET = 2
    Poll = 2
    ReadBudget = 3
    MaxStall = 1
    MaxEdits = 0
    MaxAdvances = 2
    Faults = {"epoch", "panic", "wedge", "drop"}
    a = a
    b = b
    Clients = {a, b}
    Versions = {1, 2, 3}
    Expires <- ThreeExpire
    Revokes <- ThirdRevokes
    RetiredAfter <- SecondRetires
    bootstrap = 1
    ceiling = 3
    Unset = Unset
    MaxTime = 1
    MaxPublishes = 1
    MaxLosses = 1
INVARIANTS
    TrustWindowHolds HealthyMeansCurrent AnchorsNeverRollBack
PROPERTIES
    VerificationComesBack
