SPECIFICATION RetryingSpec
CONSTANTS
  Ids = {a,b}
  Callers = {c1}
  Pids = {1,2,3}
  NoId = NoId
  HostInit = HostInit
  Serialized = TRUE
  Env = {"foreign"}
    a = a
  b = b
  c1 = c1

INVARIANTS NoLeakedContainer SignalsOnlyItsContainer
PROPERTIES StopSucceeds EveryCallReturns
