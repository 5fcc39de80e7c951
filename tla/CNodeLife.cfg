SPECIFICATION FairSpec
CONSTANTS
  p1 = p1
  p2 = p2
  main = main
  Participant = {p1, p2}
  Thread = {main}
  Editor <- Publisher
  Networker <- Publisher
  Manager <- Subscriber
  ItemCount = 2
  CachesCount = 3
  SetLimit = 1
  Faults = {"allocation", "send"}
  MaxInFlight = 1
INVARIANTS
  CNodeTypeOK
  NoFreedItem
  CreationAccountedFor
  FreedIsAnnounced
  EarlierCachesKnowMore
  
PROPERTY ReceiverEnds
\* Everything may have been created, deleted and filed.
CHECK_DEADLOCK FALSE
