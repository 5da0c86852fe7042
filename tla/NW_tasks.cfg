SPECIFICATION Spec
CONSTANTS
  c1 = c1
  c2 = c2
  p1 = p1
  Containers = {c1, c2}
  Procs = {p1}
  ProcOf <- OneProcess
  Prefix <- OwnPrefix
  PoolMax = 4
  SubnetSize = 6
  CounterMod = 16
  MaxTries = 3
  MaxSetups = 2
  Faults = TRUE
INVARIANTS
  TypeOK
  EachContainerHasItsPair
  UniqueAddresses
  AddressInSubnet
  HostEth0IsOwnPair
CHECK_DEADLOCK FALSE
