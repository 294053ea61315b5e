SPECIFICATION Spec
CONSTANTS
  MaxRestarts = 1
  FailureThreshold = 2
  MaxChildren = 3
  MaxUpsets = 1
  MaxSecrets = 1
INVARIANTS
  ServersAreSupervised
  BreakerTrips
PROPERTIES
  SupervisionGoesOn
CHECK_DEADLOCK FALSE
