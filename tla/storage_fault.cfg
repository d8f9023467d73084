SPECIFICATION Spec
CONSTANTS
  Key = {k1, k2}
  Value = {"a", "c"}
  KeySize <- MCKeySize
  ValueSize <- MCValueSize
  MaxSize = 5
  Ops = {"Put", "PutIfAbsent", "Get"}
  NewSizes = {}
  CounterFloor <- MCCounterFloor
  None = None
SYMMETRY Symmetry
INVARIANTS NoFault
CHECK_DEADLOCK FALSE
