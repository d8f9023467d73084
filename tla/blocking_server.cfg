SPECIFICATION MCFairSpec
CONSTANTS
  Worker = {w1, w2}
  NoThread = NoThread
  low_watermark = 2
  high_watermark = 2
  max_queue_size = 1
  TasksThrow = TRUE
  MaxTasks = 2
  MaxStops = 1
  max_workers = 1
  SystemFails = TRUE
INVARIANTS BTypeOK SocketsOwned RegisteredAreServing
 
CHECK_DEADLOCK FALSE
