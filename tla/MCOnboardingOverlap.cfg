SPECIFICATION Spec
CONSTANTS
  k1 = k1
  k2 = k2
  k3 = k3
  s1 = s1
  s2 = s2
  e1 = e1
  e2 = e2
  None = None
  r1 = r1
  r2 = r2
  Requests = {r1, r2}
  Keys = {k1, k2, k3}
  Slugs = {s1, s2}
  Emails = {e1, e2}
  Forms <- MCRivals
  FaultKinds = {"error", "lost", "late", "crash", "publish", "redis"}
  MaxFaults = 2
INVARIANTS
  StateIsEarned
  NoOrphans
  OnlyWholeOrgsActive
  AdminIsReal
  CompleteOrFlagged
PROPERTIES
  SagaSpec
