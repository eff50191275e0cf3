SPECIFICATION Spec
CONSTANTS
  w1 = w1
  w2 = w2
  i1 = i1
  i2 = i2
  i3 = i3
  founder = founder
  ann = ann
  bob = bob
  None = None
  Workers = {w1, w2}
  Founder = founder
  Invitations = {i1, i2, i3}
  Emails = {founder, ann, bob}
  EmailOf <- MCAnnTwiceAndBob
  InvitedAsAdmin = {i1}
  PlanSizes = {1, 2}
  CanRun <- MCReleases
  CrashProne = {w1, w2}
  RlsForced = TRUE
INVARIANTS
  NeverOversold
