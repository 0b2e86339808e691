CONSTANTS
  Codes = {0, 1, 2}
  MaxOutput = 3
  Pipe = 2
SPECIFICATION ServerSpec
INVARIANTS
  ServerTypeOK
  StreamsAreThere
  OutputBeforeStatus
  NoCommandLeft
  LogIsWhole
  NoLogProcessLeft
PROPERTIES
  ImplementsExecRequest
  EndedStdinEndsRequest
  ExitEndsRequest
  LogRequestEnds
CHECK_DEADLOCK FALSE
