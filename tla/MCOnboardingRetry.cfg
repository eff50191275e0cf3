SPECIFICATION FairSpec
CONSTANTS
  k1 = k1
  k2 = k2
  k3 = k3
  s1 = s1
  s2 = s2
  e1 = e1
  e2 = e2
  None = None
  r1 = r1
  r2 = r2
  Requests = {r1, r2}
  Keys = {k1}
  Slugs = {s1, s2}
  Emails = {e1, e2}
  Forms <- MCOne
  FaultKinds = {"error", "publish"}
  MaxFaults = 2
PROPERTIES
  RetryCompletes
  AdminArrives
