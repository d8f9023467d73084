SPECIFICATION UFairSpec
CONSTANTS
  MaxConns = 2
  MaxTasks = 3
  MaxBatch = 2
INVARIANTS UTypeOK RunningTasksExact 
PROPERTIES CommandsAnswered 
CHECK_DEADLOCK FALSE
