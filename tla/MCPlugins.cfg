\* The materializer does not run when the server starts, which then depends
\* on the last good snapshot.
SPECIFICATION PluginSpec
CONSTANTS
  Requests = {1, 2, 3}
  Sync = {"install", "manual"}
  MaxSnapshots = 4
  MaxUpsets = 2
INVARIANTS
  FilesStay
  AnswersHold
CHECK_DEADLOCK FALSE
