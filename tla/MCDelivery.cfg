SPECIFICATION FairBusSpec
CONSTANTS
  topic = topic
  service = service
  audit = audit
  ev1 = ev1
  ev2 = ev2
  ev3 = ev3
  Reader = audit
  Topics = {topic}
  Groups = {service, audit}
  Events = {ev1, ev2}
  TopicOf <- MCTopicOf
  UniqueEffect = {audit}
  MaxRetries = 2
  MaxFaults = 2
INVARIANTS
  NothingSkipped
  ReplaysCostFaults
PROPERTIES
  DedupeHolds
  EventSettles
  DeliverySpec
CHECK_DEADLOCK FALSE
