SPECIFICATION SceneSpec
CONSTANTS
  x1 = x1
  x2 = x2
  x3 = x3
  x4 = x4
  alice = alice
  bob = bob
  n1 = n1
  n2 = n2
  s1 = s1
  None = None
  Exchange = {x1, x2, x3, x4}
  Actor = {alice, bob}
  Nonce = {n1, n2, n3}
  ReqState = {s1}
  ActorOf <- TwoActors
  ContinuationsWired = TRUE
  RetentionConfigured = TRUE
  InnerReusesState = FALSE
INVARIANTS
  DispositionHonest NothingOverstated NonceDispatchedOnce ApprovalOneShot
  ApprovalByItsActor CrossingAccounted NoFalseCrossing ServedLegWasStored
PROPERTIES IncumbentKept
\* Exchanges are not renewed.
CHECK_DEADLOCK FALSE
