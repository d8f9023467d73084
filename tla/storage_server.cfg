SPECIFICATION Spec
CONSTANTS
  Key = {k1, k2, k3, k4}
  Value = {"a", "b", "c", "d"}
  KeySize <- MCKeySize
  ValueSize <- MCValueSize
  MaxSize = 9
  Ops = {"Put", "PutIfAbsent", "Get"}
  NewSizes = {}
  CounterFloor <- MCCounterFloor
  None = None
SYMMETRY Symmetry
INVARIANTS TypeOK MapMatchesList CounterWithinMax
PROPERTIES EvictsLeastRecent
CHECK_DEADLOCK FALSE
