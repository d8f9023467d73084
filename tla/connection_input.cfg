SPECIFICATION ISpec
CONSTANTS
  Width = 6
  Char <- Chars
  Request <- Requests
  BufSize = 16
  MaxRequests = 2
  MaxExecuted = 3
INVARIANTS ITypeOK  RejectsOnlyUnknown 
CHECK_DEADLOCK FALSE
