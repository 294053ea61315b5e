SPECIFICATION Spec
CONSTANTS
  MaxRuns = 3
  MaxTasks = 3
  MaxUpsets = 3
  Events = {"crash", "fault", "unreadable", "write", "delete"}
INVARIANTS
  DeletedStaysDeleted
  MaintenanceKeepsUp
PROPERTIES
  DeletionEnds
CHECK_DEADLOCK FALSE
