SPECIFICATION RuntimeSpec
CONSTANTS
  Holder = {h1, h2, h3}
  SizeClass <- MCSizeClass
  PoolSize = 2
  MaxReserve = 4
  Half = 4
  CollKey <- MCCollKey
  CollValue = {v1}
  NoValue = noValue
  CollItem = {x1, x2}
  CollLimit = 3
  Buffer = {b1, b2}
  Writer = {b1}
  LittleHost = {b1}
  Capacity = 2
  Base = 2
  Value = {1, 2}
  Sizes = {1, 2}
  UIntSize = 1
  ArgName = {1, 2, 3, 4}
  ArgValue = {1}
  ArgLimit = 3
  OptionName <- MCOptionName
  OptionValue = {1, 2}
  MaxOptions = 2
  MaxArgv = 2
  CppParticipant = {"p", "q"}
  CppListener <- MCCppListener
  CppItemCount = 1
  CppOwning = {"q"}
  CppSendFails = TRUE
  CppMaxInFlight = 1
  CEnd = {"c", "d"}
  JavaEnd = {"java"}
  Routes <- MCRoutes
  MsgId = {1, 2}
  ClassId = {1}
  CList <- MCList
  JavaSet <- MCJavaSet
  ListLimit = 1
  HandlerLimit = 2
  MaxSent = 2
  MaxMessages = 1
CHECK_DEADLOCK FALSE
INVARIANTS
  PoolAccounts
  
  FieldsIntact
  ArgumentsTyped
  
  OptionsReadBack
  CppNothingForgotten
  CppFramesWhole
  CppReplicasGenuine
  MessagesFindTheirHandler
  
  
PROPERTY
  CollectionsImplemented
