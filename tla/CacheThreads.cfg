SPECIFICATION Spec
CONSTANTS
  p1 = p1
  p2 = p2
  ui = ui
  timer = timer
  Participant = {p1, p2}
  CacheIndex <- OneCache
  Thread = {ui, timer}
  Creator <- UI1
  Editor <- UI1
  Networker <- Net2
  Subscriber = {p1, p2}
  OwnershipCheck = TRUE
  Faults = {"ioexception"}
  MaxObject = 2
  MaxInstance = 2
  MaxVersion = 2
  MaxInFlight = 1
INVARIANTS
  TypeOK
  CreationNeverForgotten
  GUIDsAreUnique
