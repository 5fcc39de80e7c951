SPECIFICATION Spec
CONSTANTS
  p1 = p1
  p2 = p2
  main = main
  Participant = {p1, p2}
  Thread = {main}
  Editor <- Publisher
  Networker <- Publisher
  Manager <- Subscriber
  ItemCount = 1
  CachesCount = 1
  SetLimit = 1
  Faults = {}
  MaxInFlight = 1
INVARIANT RefreshApplies
\* Everything may have been created, deleted and filed.
CHECK_DEADLOCK FALSE
