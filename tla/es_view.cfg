SPECIFICATION FairSpec
CONSTANTS
  p1 = p1
  s1 = s1
  s2 = s2
  Publishers = {p1}
  Subscribers = {s1, s2}
  MaxEvents = 3
  MaxConnects = 2
  Durable = FALSE
PROPERTIES HistorySpec EveryEventArrives
CHECK_DEADLOCK FALSE
