SPECIFICATION StreamSpec
CONSTANTS
  Threads = {t1}
  NoThread = NoThread
  Observers = {o1}
  StreamKinds = {"delta"}
  Channels = {"messages", "lifecycle"}
  MaxRuns = 2
  Stoppable = {}
  MaxFrames = 2
  BufferCap = 2
INVARIANTS
  FramesArriveWhole
  WaitsAreSound
PROPERTIES
  StreamsCatchUp
  NothingHangs
