SPECIFICATION Spec
CONSTANTS
  Ids = {a,b}
  Callers = {c1,c2}
  Pids = {1,2}
  NoId = NoId
  HostInit = HostInit
  Serialized = TRUE
  Env = {"exit", "crash", "io"}
    a = a
  b = b
  c1 = c1
  c2 = c2
SYMMETRY Symmetry
CHECK_DEADLOCK FALSE
INVARIANTS TypeOK SpawnOnce LifecycleInv
PROPERTY LifecycleOrder
