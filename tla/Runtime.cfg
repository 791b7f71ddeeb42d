SPECIFICATION SceneSpec
CONSTANTS
    reload = reload
    poller = poller
    rotor = rotor
    c1 = c1
    r1 = r1
    r2 = r2
    r3 = r3
    Unbounded = Unbounded
    Workers = {reload, poller, rotor}
    PlaneOf <- Three
    Stuck = {rotor}
    Reloads = {reload}
    Reservation = TRUE
    Control = TRUE
    MaxResets = 1
    Conns = {c1, c2, c3, c4}
    Requests = {}
    max_concurrent_connections = 3
    max_in_flight_requests = Unbounded
    max_in_flight_total = 3
    cores = 2
    max_body_bytes = 2
    BUFFERED_BODY_BUDGET_MULTIPLE = 1
    Topologies <- AllTopologies
    DELEGATED_TLS_WORKERS_PER_CORE = 4
    DELEGATED_TLS_HANDSHAKES_PER_CORE = 2
    Producers = {p1, p2}
    STDERR_AUDIT_QUEUE_DEPTH = 2
    STDERR_AUDIT_UNATTRIBUTED_CEILING = 1
    MaxRecords = 4
    MaxFailures = 1
    Starts = {TRUE, FALSE}
INVARIANTS
    ComesDownInOrder CoreBoundsKept AuditAccounted
PROPERTIES
    ThreadsMakeProgress
\* run returns, a stopped core is done and a bounded stream runs dry
CHECK_DEADLOCK FALSE
