SPECIFICATION Spec
CONSTANTS
  m1 = m1
  m2 = m2
  p1 = p1
  p2 = p2
  low = low
  high = high
  Managers = {m1, m2}
  Paths = {p1, p2}
  Values = {low, high}
  Unlimited = Unlimited
  Settings <- MCSettings
  Procs = {q1, q2}
  q1 = q1
  q2 = q2
  NoPath = NoPath
  NoManager = NoManager
  MaxApplies = 4
CHECK_DEADLOCK FALSE
INVARIANTS TypeOK LimitsHold
PROPERTY CgroupRemoved
