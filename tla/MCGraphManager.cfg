SPECIFICATION Spec
CONSTANTS
  Models = {m1, m2}
  Turns = {u1, u2}
  NoTurn = NoTurn
  MaxChanges = 2
INVARIANTS
  DefaultsAgree
  AgentsAreUpToDate
  FailuresHaveACause
PROPERTIES
  TurnsAreAnswered
CHECK_DEADLOCK FALSE
