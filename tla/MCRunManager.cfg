\* One thread and three runs: one can be drained while a second is queued
\* behind it and a third supersedes that one.
SPECIFICATION Spec
CONSTANTS
  Threads = {t1}
  NoThread = NoThread
  Observers = {}
  StreamKinds = {"delta", "interrupted"}
  MaxRuns = 3
  Stoppable = {1,2,3}
  MaxFrames = 1
  BufferCap = 1
INVARIANTS
  SerialExecution
  SequenceFollowsRuns
  StopsReachAll
  SettledRunAnnounced
PROPERTIES
  TakesTurns
  SilentOnceOver
  EvictionSparesActive
