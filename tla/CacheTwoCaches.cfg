SPECIFICATION Spec
CONSTANTS
  p1 = p1
  p2 = p2
  ui = ui
  timer = timer
  Participant = {p1, p2}
  CacheIndex <- TwoCaches
  Thread = {ui}
  Creator <- UI1
  Editor <- UI1
  Networker <- UI
  Subscriber = {p1, p2}
  OwnershipCheck = TRUE
  Faults = {}
  MaxObject = 2
  MaxInstance = 1
  MaxVersion = 1
  MaxInFlight = 1
INVARIANT GUIDsAreUnique
