SPECIFICATION FairSpec
CONSTANTS
  p1 = p1
  p2 = p2
  main = main
  Participant = {p1, p2}
  Thread = {main}
  Caller <- Main
  Handler <- Main
  Interface <- Interfaces
  Operation <- Operations
  Crud = "crud"
  Provided <- Servers
  Implemented <- Serves
  Required <- ExitOnly
  Faults = {"lose"}
  MaxCall = 2
  MaxInFlight = 1
  MaxWork = 2

  
  
PROPERTIES
  OperationsImplemented
  QueuedIsExecuted
