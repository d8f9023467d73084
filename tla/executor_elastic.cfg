SPECIFICATION Spec
CONSTANTS
  Worker = {w1, w2, w3}
  low_watermark = 0
  high_watermark = 2
  max_queue_size = 2
  TasksThrow = FALSE
  MaxTasks = 4
  MaxStops = 1
  NoThread = NoThread
SYMMETRY Symmetry
INVARIANTS PoolWithinWatermarks 
CHECK_DEADLOCK FALSE
