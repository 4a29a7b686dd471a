SPECIFICATION Spec
CONSTANTS
  t1 = t1 t2 = t2
  Threads = {t1, t2}
  MaxCalls = 4
INVARIANTS TypeOK EveryDeviceObserved NeverCrashes
CHECK_DEADLOCK FALSE
