SPECIFICATION FairSpec
CONSTANTS
  p1 = p1
  p2 = p2
  main = main
  Participant = {p1, p2}
  Thread = {main}
  Caller <- Main1
  Handler <- Main2
  Interface <- Interfaces
  Operation <- Operations
  Crud = "crud"
  Provided <- Provider
  Implemented <- Services
  Callable <- QueuedCalls
  Faults = {"send"}
  QueueCount = 2
  QueueLimit = 2
  MaxCall = 3
  MaxInFlight = 2
PROPERTY QueuedIsExecuted
\* A participant may crash, the calls are bounded.
CHECK_DEADLOCK FALSE
