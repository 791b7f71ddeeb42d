SPECIFICATION PoolSpec
CONSTANTS
  Backends = 1
  Handlers = {d1}
  max_in_flight = 1
  failure_threshold = 1
  ejection_duration = 1
  request_timeout = 1
  MaxFaults = 1
INVARIANTS CompletionBoundHolds
