SPECIFICATION Spec
CONSTANTS
  Remotes = {r1, r2}
  MaxSidecars = 3
  MaxRestarts = 1
  MaxUpsets = 2
INVARIANTS
  OneServer
  BackendsAgree
PROPERTIES
  QuitStopsSidecar
  ShellMovesOn
CHECK_DEADLOCK FALSE
