SPECIFICATION FairSpec
CONSTANTS
  Key = {k1, k2, k3}
  Value = {"a", "c", "d"}
  KeySize <- MCKeySize
  ValueSize <- MCValueSize
  MaxSize = 5
  Ops = {"Put", "PutIfAbsent", "Set", "Get", "Delete", "SetNewCurrentSize"}
  NewSizes = {0, 5}
  CounterFloor <- MCCounterFloor
  None = None
PROPERTIES ImplementsContract CallsFinish
CHECK_DEADLOCK FALSE
