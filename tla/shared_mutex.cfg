SPECIFICATION MFairSpec
CONSTANTS
  Thread = {t1, t2, t3, t4}
  n_readers = 2
  Modulus = 3
INVARIANTS MTypeOK Exclusion CounterExact
PROPERTIES EnteredGetsIn GateOpens
