SPECIFICATION Spec
CONSTANTS
  p1 = p1
  p2 = p2
  main = main
  Participant = {p1, p2}
  Thread = {main}
  Caller <- Main1
  Handler <- Main2
  Interface <- Interfaces
  Operation <- Operations
  Crud = "crud"
  Provided <- Server2
  Implemented <- ServesAll
  Required <- AnyCall
  Faults = {"duplicate", "reorder", "exception"}
  MaxCall = 2
  MaxInFlight = 2
  MaxWork = 2
INVARIANTS
  TypeOK
  AnswersComeFromExecutions
  CallNeverForgotten
\* The exceptions make a participant execute its queue again and again: it
\* stops where the bound MaxWork says so.
CHECK_DEADLOCK FALSE
