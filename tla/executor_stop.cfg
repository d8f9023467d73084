SPECIFICATION FairSpec
CONSTANTS
  Worker = {w1, w2, w3}
  low_watermark = 2
  high_watermark = 3
  max_queue_size = 2
  TasksThrow = TRUE
  MaxTasks = 4
  MaxStops = 2
  NoThread = NoThread
INVARIANTS TypeOK EachTaskOnce
PROPERTIES AcceptedTasksStart 
CHECK_DEADLOCK FALSE
