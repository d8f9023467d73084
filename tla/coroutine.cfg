SPECIFICATION ESpec
CONSTANTS
  MaxRoutines = 6
  MaxSwitches = 6
INVARIANTS ETypeOK CreatedNotLost 
CHECK_DEADLOCK FALSE
