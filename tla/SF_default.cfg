SPECIFICATION Spec
CONSTANTS
  Denied <- DeniedByDefault
  Syscalls <- AllSyscalls
INVARIANTS
  TypeOK
  FilterInv
  DeniesExactlyTheList
  NeverRefused
CHECK_DEADLOCK FALSE
