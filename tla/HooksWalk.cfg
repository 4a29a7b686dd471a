SPECIFICATION Spec
CONSTANTS
  t1 = t1 t2 = t2 hw = hw debug = debug
  None = None Hook = Hook
  Threads = {t1, t2}
  Classes = {hw, debug}
SYMMETRY Symmetry
INVARIANTS TypeOK NeverItsOwnOriginal EveryDuplicateProxied
CHECK_DEADLOCK FALSE
