SPECIFICATION Spec
CONSTANTS
  Ids = {a}
  Callers = {c1}
  Pids = {1}
  NoId = NoId
  HostInit = HostInit
  Serialized = TRUE
  Env = {"exit"}
    a = a
  c1 = c1
CHECK_DEADLOCK FALSE
INVARIANT StoppedMeansExited
