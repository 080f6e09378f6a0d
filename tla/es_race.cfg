SPECIFICATION Spec
CONSTANTS
  p1 = p1
  p2 = p2
  s1 = s1
  Publishers = {p1, p2}
  Subscribers = {s1}
  MaxEvents = 4
  MaxConnects = 2
  Durable = FALSE
SYMMETRY PublisherSymmetry
INVARIANTS TypeOK SentInOrder
CHECK_DEADLOCK FALSE
