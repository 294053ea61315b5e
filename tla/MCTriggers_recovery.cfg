SPECIFICATION Spec
CONSTANTS
  CronTriggers = {c1}
  Webhooks = {}
  MaxAttempts = 2
  Events = {"crash", "stop", "sleep"}
  MaxInvoked = 1
  MaxTime = 2
  MaxUpsets = 2
INVARIANTS
  RunsAreTracked
PROPERTIES
  OccurrencesSettle
CHECK_DEADLOCK FALSE
