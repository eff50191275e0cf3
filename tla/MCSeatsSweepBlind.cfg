SPECIFICATION FairSpec
CONSTANTS
  w1 = w1
  w2 = w2
  i1 = i1
  i2 = i2
  i3 = i3
  founder = founder
  ann = ann
  bob = bob
  None = None
  Workers = {w1, w2}
  Founder = founder
  Invitations = {i1, i2}
  Emails = {founder, ann, bob}
  EmailOf <- MCAnnAndBob
  InvitedAsAdmin = {i1}
  PlanSizes = {1}
  CanRun <- MCExpiry
  CrashProne = {w2}
  RlsForced = TRUE
PROPERTIES
  ExpiredReleased
CHECK_DEADLOCK FALSE
