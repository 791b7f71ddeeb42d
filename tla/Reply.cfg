SPECIFICATION SceneSpec
CONSTANTS
  x1 = x1
  x2 = x2
  d1 = d1
  d2 = d2
  Exchange = {x1, x2}
  MAX_RESERVATIONS = 2
  MAX_WRITE_BATCH = 2
  MayCancel = TRUE
  Backends = 1
  Handlers = {d1, d2}
  max_in_flight = 2
  failure_threshold = 1
  ejection_duration = 1
  request_timeout = 1
  MaxFaults = 3
INVARIANTS DiskTellsTheTruth SlotsReturn
PROPERTIES NothingWaitsForGood
