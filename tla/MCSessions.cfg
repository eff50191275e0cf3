SPECIFICATION FairSpec
CONSTANTS
  Tabs = {b1}
  Queries = {q1, q2}
  Calls = {c1, c2}
  MaxTokens = 3
  MaxFaults = 1
  NoCall = NoCall
  NoTab = NoTab
INVARIANTS
  TypeOK
  OneLivePerLogin
  NoFalseAlarm
  LoggedOutStaysOut
PROPERTIES
  QueriesSettle
CHECK_DEADLOCK FALSE
