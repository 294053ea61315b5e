SPECIFICATION Spec
CONSTANTS
  Sources = {s1, s2}
  NoSource = NoSource
  ThreadIds = {a, b}
  NoCursor = NoCursor
  RETAINED_EVENTS = 2
  BatchLimit = 2
  MaxEvents = 3
  MaxDrops = 1
  MaxChanges = 2
INVARIANTS
  Consistent
PROPERTIES
  ToldOfTheLog
  CatchesUp
CHECK_DEADLOCK FALSE
