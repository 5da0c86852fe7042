SPECIFICATION Spec
CONSTANTS
  first = first
  second = second
  dirA = dirA
  dirB = dirB
  Containers = {first, second}
  Roots = {dirA, dirB}
  Settings <- MCSettings
  Caps = {0, 1, 2}
  Allowed = {1}
  Env = {"fail", "kill"}
CHECK_DEADLOCK FALSE
INVARIANTS TypeOK HostMountsUntouched RootOutlivesContainer RootfsOwnership InitNeverRefused CommandIsConfined
PROPERTY RunReturns
