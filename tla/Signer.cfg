SPECIFICATION SceneSpec
CONSTANTS
  t1 = t1
  t2 = t2
  t3 = t3
  Threads = {t1, t2, t3}
  cooldown = 2
  None = none
  MaxTime = 3
  Users = {t1, t2, t3}
  Evicts = FALSE
  Margin = 1
  Floor = 4
  Longest = 5
  Cooldown = 2
  Timeout = 2
  Lifetimes = {0, 5}
  Absent = none
  MaxMono = 5
  MaxFetches = 3
  MaxBack = 1
  ttl = 16
  overlap = 12
  ISSUANCE_ATTEMPTS_PER_OVERLAP = 4
  MIN_ISSUANCE_RETRY_SECS = 1
  ROTATION_BACKOFF_BASE_MS = 2
  ROTATION_BACKOFF_MAX_MS = 4
  ROTATION_BACKOFF_MIN_MS = 2
  Watch = FALSE
  MaxEpoch = 2
  MaxOutages = 1
  MaxCall = 1
  MaxAge = 10
  MaxPre = 1
  Faults = {}
  Exchange = {1}
  sig_ttl_secs = 4
  completion_bound = 2
SYMMETRY Interchangeable
INVARIANTS OutagesRidden
PROPERTIES ThrottleHolds ProbesSpaced TokenShared EpochHonoured RepliesVerify
\* The clocks and the fetches are bounded.
CHECK_DEADLOCK FALSE
