SPECIFICATION SceneSpec
CONSTANTS
  x1 = x1
  x2 = x2
  alice = alice
  n1 = n1
  n2 = n2
  c1 = c1
  c2 = c2
  b1 = b1
  b2 = b2
  None = None
  Exchange = {x1, x2}
  Actor = {alice}
  Nonce = {n1, n2}
  ReqState = {s1}
  ActorOf <- AliceServed
  ContinuationsWired = TRUE
  RetentionConfigured = TRUE
  InnerReusesState = FALSE
  Call = {c1, c2}
  Body = {b1, b2}
  CallerOf <- AliceCalls
INVARIANTS NeverUnderstates ClientToldTheTruth
PROPERTIES PublishedCoherently AnsweredAndKept
\* Exchanges are not renewed.
CHECK_DEADLOCK FALSE
