SPECIFICATION FairSpec
CONSTANTS
  p1 = p1
  p2 = p2
  ui = ui
  timer = timer
  Participant = {p1, p2}
  CacheIndex <- OneCache
  Thread = {ui}
  Creator <- UI1
  Editor <- UI
  Networker <- UI
  Subscriber = {p1, p2}
  OwnershipCheck = TRUE
  Faults = {}
  MaxObject = 2
  MaxInstance = 1
  MaxVersion = 2
  MaxInFlight = 2
INVARIANTS
  UpdateNeverFollowsDelete
PROPERTY CreationReplicates
