SPECIFICATION SceneSpec
\* Calls are not renewed: the model stops when all are over and the clock is at Horizon.
CHECK_DEADLOCK FALSE
CONSTANTS
  c1 = c1
  c2 = c2
  c3 = c3
  c4 = c4
  n1 = n1
  n2 = n2
  n3 = n3
  r1 = r1
  r2 = r2
  a1 = a1
  a2 = a2
  s1 = s1
  s2 = s2
  None = None
  Call = {c1, c2, c3, c4}
  Nonce = {n1, n2, n3}
  Replica = {r1, r2}
  Actor = {a1, a2}
  NonceOf <- MCNonceOf
  ReplicaOf <- MCReplicaOf
  PrincipalOf <- MCPrincipalOf
  ExpiresAt <- MCExpiresAt
  max_clock_skew_secs = 1
  Horizon = 3
  max_entries = 5
  ASYNC_PRUNE_EVERY_N_INSERTS = 1
  Backend = "redis"
  Server = {s1, s2}
  quorum = 1
  MaxFailovers = 1
  L1Capacity = 0
INVARIANTS AdmittedOnceInWindow AccountTrue
PROPERTIES TierImplementsReplayOnce
