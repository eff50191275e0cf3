SPECIFICATION StorageSpec
CONSTANTS
  resource = resource
  subscriptionT = subscriptionT
  usage = usage
  ceilingG = ceilingG
  r1 = r1
  r2 = r2
  r3 = r3
  r4 = r4
  r5 = r5
  None = None
  Topics = {resource, subscriptionT}
  ResourceTopic = resource
  SubscriptionTopic = subscriptionT
  Groups = {usage, ceilingG}
  Usage = usage
  Ceiling = ceilingG
  Events = {r1, r2, r3, r4, r5}
  TopicOf <- MCTopicOf
  Does <- MCDoes
  UniqueEffect = {}
  Plans = {1, 2}
  Default = 2
  Sizes = {1, 2}
  MaxRetries = 1
  MaxFaults = 1
SYMMETRY MCRemovals
INVARIANTS
  StorageTypeOK
  StorageExact
  BackstopUnneeded
  UsageNeverBuried
  DisplayConverges
CHECK_DEADLOCK FALSE
