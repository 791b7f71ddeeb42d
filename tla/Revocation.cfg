SPECIFICATION SceneSpec
CONSTANTS
  p1 = p1  p2 = p2  leaf = leaf  sub = sub
  Paths = {p1, p2}
  IssuerAt <- ChainPaths
  Leaves = {leaf}
  Chain <- ChainOf
  IssuerOf <- ChainIssuer
  NotBefore <- ChainFrom
  NotAfter <- ChainUntil
  SelfIssued = {}
  Ceiling = 5
  Unset = Unset
  Validity = 2
  Conns = {k}
  MaxTime = 2
  MaxWrites = 2
INVARIANTS RevokedIsRefused PostureHonest
PROPERTIES RevocationArrives
\* Time and the files' rewrites are bounded, and a plane may be retired.
CHECK_DEADLOCK FALSE
