SPECIFICATION Spec
CONSTANTS
  CronTriggers = {c1}
  Webhooks = {w1}
  MaxAttempts = 2
  Events = {"crash", "stop", "sleep", "edit", "toggle", "discard", "early", "late"}
  MaxInvoked = 1
  MaxTime = 1
  MaxUpsets = 2
INVARIANTS
  BudgetPerSlot
PROPERTIES
  LaunchesAreAllowed
CHECK_DEADLOCK FALSE
