SPECIFICATION NFairSpec
CONSTANTS
  n_workers = 2
  MaxFd = 5
  MaxClients = 2
  MaxSends = 1
INVARIANTS NTypeOK 
  
CHECK_DEADLOCK FALSE
