SPECIFICATION Spec
CONSTANTS
  MaxHooks = 2
  Timeouts <- MCTimeouts
  NoTimeout = NoTimeout
  Horizon = 3
CHECK_DEADLOCK FALSE
INVARIANTS TypeOK InOrderAndAll NoHookOutlives
PROPERTY HooksReturn
