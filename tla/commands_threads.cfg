SPECIFICATION CSpec
CONSTANTS
  a = a
  b = b
  k1 = k1
  k2 = k2
  Key = {k1, k2}
  Value <- MCValue
  KeySize <- MCKeySize
  ValueSize <- MCValueSize
  MaxSize = 4
  Ops = {"Put", "PutIfAbsent", "Set", "Get"}
  NewSizes = {}
  CounterFloor <- MCCounterFloor
  None = None
  Client = {c1, c2}
  Args <- MCArg
  GetKeys <- MCGetKeys
  Names = {"set", "add", "append", "replace", "get", "stats"}
  NoClient = NoClient
SYMMETRY Symmetry
INVARIANTS CTypeOK AnswersMatchStorage
PROPERTIES GetReportsHeldValues
CHECK_DEADLOCK FALSE
